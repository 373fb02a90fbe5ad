-------------------------------- MODULE Kernel --------------------------------
(***************************************************************************)
(* The main loop of OS9exec (os9exec_loop), the system calls by which       *)
(* processes are made, wait, sleep, signal each other and end (fcalls.c),  *)
(* and the scheduler (do_arbitrate).                                       *)
(*                                                                         *)
(* OS9exec is one host thread.  An iteration of the loop lets the current  *)
(* process run 68k code up to its next system call and executes the call   *)
(* (phase "call"), takes signals (phase "signals"), looks for the process  *)
(* to run next (phase "arbitrate", one step per process looked at) and     *)
(* goes over to it (phase "switch").  What the 68k code does is a choice   *)
(* among the calls in Calls.  Between the phases a key pressed on the      *)
(* host or an expiring timer may come in.                                  *)
(***************************************************************************)
EXTENDS ProcTable

CONSTANTS Calls,      \* the system calls the programs use
          Signals,    \* the signal codes the programs send
          Targets,    \* the processes the programs send signals to
          HostSignals,\* the signal codes keyboard, alarms and network send
          SleepTimes, \* "later" for a timed F$Sleep, "never" for one without end
          MaxMask,    \* bound on nested F$SigMask calls
          MaxQueued   \* bound: no signal is sent when so many are queued

CallNames == {"F_Fork", "F_Exit", "F_Wait", "F_Sleep", "F_Yield", "F_Send",
              "F_SendAll", "F_Icpt", "F_RTE", "F_RTE_Astray", "F_Sigmask", "F_Chain",
              "Read", "Pipe", "Trap", "Other"}

ASSUME KernelAssumption == /\ Calls \subseteq CallNames /\ Targets \subseteq Pid
                           /\ SleepTimes \subseteq {"later", "never"}
                           /\ Signals \subseteq Nat /\ HostSignals \subseteq Nat
                           /\ MaxMask \in Nat /\ MaxQueued \in Nat

VARIABLES os,         \* the kernel state, see ProcTable
          phase,      \* where the main loop is
          cpid,       \* the process whose call this iteration executes
          cwti,       \* that process is on its way to an intercept routine
          cwti_svd,   \* and was so when the iteration began
          next,       \* F$Send to all: the next receiver
          bsig,       \* and the signal sent
          scan        \* the local variables of do_arbitrate

vars == <<os, phase, cpid, cwti, cwti_svd, next, bsig, scan>>
loop == <<cpid, cwti, cwti_svd>>
bcast == <<next, bsig>>

NoScan == [cpid |-> 0, spid |-> 0, atLeast1 |-> FALSE, chkAll |-> FALSE,
           done |-> FALSE, sleeping |-> MAXPROCESSES]

Phases == {"call", "broadcast", "signals", "arbitrate", "switch", "ended"}

TypeOK == /\ os \in KernelState
          /\ phase \in Phases
          /\ cpid \in Slot /\ cwti \in BOOLEAN /\ cwti_svd \in BOOLEAN
          /\ next \in 1 .. MAXPROCESSES /\ bsig \in Nat
          /\ scan \in [cpid : Slot, spid : Slot, atLeast1 : BOOLEAN,
                       chkAll : BOOLEAN, done : BOOLEAN,
                       sleeping : 0 .. MAXPROCESSES]

\* The kernel process sleeps for ever, the first program is ready to run.
Init ==
  /\ os = [proc |-> [p \in Slot |->
                       CASE p = KernelPid -> [UnusedProcess EXCEPT !.state = "pSleeping"]
                         [] p = 2 -> [UnusedProcess EXCEPT !.state = "pActive",
                                                     !.code = TRUE]
                         [] OTHER -> UnusedProcess],
           currentpid |-> 2, arbitrate |-> FALSE, pending |-> FALSE,
           queue |-> << >>]
  /\ phase = "call" /\ cpid = 0 /\ cwti = FALSE /\ cwti_svd = FALSE
  /\ next = 1 /\ bsig = 0 /\ scan = NoScan

-----------------------------------------------------------------------------
(* Phase "call".  The process runs up to its next trap when it is active,  *)
(* or when it is blocked in a read but sent to an intercept routine.       *)
Me == os.currentpid
My == os.proc[Me]

Executes == phase = "call" /\ (My.state = "pActive" \/
                               (My.state = "pWaitRead" /\ My.way_to_icpt))
Runs == Executes /\ My.code

\* The kernel state in which the call begins.
Trapped == [os EXCEPT !.proc[Me].masklevel = IF My.way_to_icpt THEN 1 ELSE @,
                      !.proc[Me].way_to_icpt = FALSE,
                      !.arbitrate = FALSE]

\* The call leaves k behind; the signals are looked at next.
Return(k) == /\ os' = k /\ phase' = "signals"
             /\ cpid' = Me /\ cwti_svd' = My.way_to_icpt /\ cwti' = FALSE
             /\ UNCHANGED <<bcast, scan>>

\* prepFork succeeded: the child is hung into the list and goes first.
StartChild(k, p, q) ==
  LET head == k.proc[p].cid
  IN  [k EXCEPT !.proc[q].state = "pActive",
                !.proc[q].sid = IF head # q THEN head ELSE @,
                !.proc[p].cid = q,
                !.currentpid = q, !.arbitrate = TRUE]

F_Fork(ok) ==
  /\ "F_Fork" \in Calls /\ Runs
  /\ LET k == Trapped
         q == Least(FreeSlots(k))
         new == NewProcess(k, q, Me)
     IN  Return(CASE FreeSlots(k) = {} -> k
                  [] FreeSlots(k) # {} /\ ok -> StartChild(new, Me, q)
                  [] OTHER -> [new EXCEPT !.proc[q].state = "pUnused"])

F_Exit ==
  /\ "F_Exit" \in Calls /\ Runs
  /\ Return(KillProcess(MaskOff([Trapped EXCEPT !.arbitrate = TRUE], Me, FALSE),
                        Me))

\* The new program starts without an intercept routine; a failure is fatal.
F_Chain(ok) ==
  /\ "F_Chain" \in Calls /\ Runs
  /\ LET k == [Trapped EXCEPT !.proc[Me].sigvec = FALSE]
     IN  Return(IF ok THEN k ELSE KillProcess(k, Me))

F_Wait ==
  /\ "F_Wait" \in Calls /\ Runs
  /\ LET k == MaskOff(Trapped, Me, FALSE)
         dead == DeadChildren(k, Me) \cap UserPid
         live == LiveChildren(k, Me) \cap UserPid
     IN  Return(CASE dead # {} -> Reap(k, Me, Least(dead))
                  [] dead = {} /\ live # {} ->
                       [k EXCEPT !.proc[Me].state = "pWaiting",
                                 !.currentpid = Least(live),
                                 !.arbitrate = TRUE]
                  [] OTHER -> k)

F_Sleep(wake) ==
  /\ "F_Sleep" \in Calls /\ Runs
  /\ LET k == MaskOff(Trapped, Me, FALSE)
     IN  Return(IF k.proc[Me].way_to_icpt THEN k
                ELSE [k EXCEPT !.arbitrate = TRUE,
                               !.proc[Me].wakeUpTick = wake,
                               !.proc[Me].state = "pSleeping"])

\* A sleep of one tick only lets the others run.
F_Yield ==
  /\ "F_Yield" \in Calls /\ Runs
  /\ LET k == MaskOff(Trapped, Me, FALSE)
     IN  Return([k EXCEPT !.arbitrate = @ \/ ~k.proc[Me].way_to_icpt])

F_Send(t, sig) ==
  /\ "F_Send" \in Calls /\ Runs /\ Len(os.queue) < MaxQueued
  /\ Return(SendSignal(Trapped, t, sig, FALSE))

F_Icpt(set) ==
  /\ "F_Icpt" \in Calls /\ Runs
  /\ Return([Trapped EXCEPT !.proc[Me].sigvec = set])

\* The intercept routine ends: the interrupted state comes back, except that
\* a read interrupted by a signal up to Pwr_Signal does not block again.
F_RTE ==
  /\ "F_RTE" \in Calls /\ Runs /\ My.signal # 0
  /\ LET broken == My.signal \in 1 .. Pwr_Signal
         blocked == My.rtestate = "pWaitRead"
         back == [Trapped EXCEPT
                    !.proc[Me].signal = 0, !.arbitrate = blocked /\ ~broken,
                    !.proc[Me].state =
                       IF blocked /\ broken THEN "pActive" ELSE My.rtestate]
     IN  Return(MaskOff(back, Me, FALSE))

\* F$RTE outside of an intercept routine is fatal.
F_RTE_Astray ==
  /\ "F_RTE_Astray" \in Calls /\ Runs /\ My.signal = 0
  /\ Return(MaskOff(KillProcess(Trapped, Me), Me, FALSE))

F_Sigmask(level) ==
  /\ "F_Sigmask" \in Calls /\ Runs
  /\ LET k == Trapped
     IN  CASE level = "off"  -> Return(MaskOff(k, Me, FALSE))
           [] level = "up"   -> /\ k.proc[Me].masklevel < MaxMask
                                /\ Return(MaskUp(k, Me, FALSE))
           [] level = "down" -> Return(MaskDown(k, Me, FALSE))

\* A read, an accept, F$Event wait: it ends, or it is blocked and repeated
\* each time the process is given the CPU again.
Read(ready) ==
  /\ "Read" \in Calls
  /\ Runs \/ (phase = "call" /\ My.state = "pWaitRead")
  /\ LET k == IF Runs THEN Trapped ELSE [os EXCEPT !.arbitrate = FALSE]
         r == k.proc[Me]
         state == IF r.state = "pWaitRead" THEN r.saved_state ELSE r.state
     IN  Return(IF ready
                THEN [k EXCEPT !.proc[Me].state = state]
                ELSE [k EXCEPT !.proc[Me].saved_state = state,
                               !.proc[Me].state = "pWaitRead",
                               !.arbitrate = TRUE])

\* A pipe that is full or empty makes the process a system task.
Pipe ==
  /\ "Pipe" \in Calls /\ Runs
  /\ Return([Trapped EXCEPT !.proc[Me].state = "pSysTask"])

Other == "Other" \in Calls /\ Runs /\ Return(Trapped)

-----------------------------------------------------------------------------
(* F$Send with process id 0: send_signal for every other process, in the   *)
(* order of the table.                                                     *)
F_SendAll(sig) ==
  /\ "F_SendAll" \in Calls /\ Runs /\ Len(os.queue) < MaxQueued
  /\ os' = Trapped /\ phase' = "broadcast" /\ next' = 1 /\ bsig' = sig
  /\ cpid' = Me /\ cwti_svd' = My.way_to_icpt /\ cwti' = FALSE
  /\ UNCHANGED scan

Broadcast ==
  /\ phase = "broadcast"
  /\ IF next = MAXPROCESSES
     THEN os' = os /\ phase' = "signals" /\ next' = 1 /\ bsig' = 0
     ELSE /\ os' = IF next = Me THEN os ELSE SendSignal(os, next, bsig, FALSE)
          /\ next' = next + 1 /\ UNCHANGED <<phase, bsig>>
  /\ UNCHANGED <<loop, scan>>

-----------------------------------------------------------------------------
(* The end of an iteration: arbitration, unless a signal is on its way or  *)
(* the process is masked.  do_arbitrate begins with the current process.   *)
Arbitrate(k, on_way) ==
  /\ cwti' = on_way
  /\ LET p == k.currentpid
         stuck == k.proc[p].state \in {"pSysTask", "pUnused", "pWaitRead"}
         free == ~on_way /\ ~cwti_svd' /\ k.proc[cpid'].masklevel = 0
     IN  IF free
         THEN /\ phase' = "arbitrate"
              /\ os' = [k EXCEPT !.arbitrate = @ \/ stuck]
              /\ scan' = [NoScan EXCEPT !.cpid = p, !.spid = p,
                            !.atLeast1 = k.proc[p].state = "pSleeping"]
         ELSE os' = k /\ phase' = "switch" /\ scan' = NoScan

\* The rest of a pipe transfer, executed instead of 68k code.
SysTask(done) ==
  /\ phase = "call" /\ My.state = "pSysTask"
  /\ cpid' = Me /\ cwti_svd' = My.way_to_icpt
  /\ Arbitrate([os EXCEPT !.arbitrate = TRUE,
                  !.proc[Me].masklevel = IF My.way_to_icpt THEN 1 ELSE @,
                  !.proc[Me].state = IF done THEN "pActive" ELSE @],
               My.way_to_icpt)
  /\ UNCHANGED bcast

\* A process that cannot run is current: nothing is executed.
Idle ==
  /\ phase = "call" /\ My.state \in {"pUnused", "pDead", "pSleeping", "pWaiting"}
  /\ cpid' = Me /\ cwti_svd' = My.way_to_icpt
  /\ Arbitrate([os EXCEPT !.proc[Me].masklevel = IF My.way_to_icpt THEN 1 ELSE @],
               My.way_to_icpt)
  /\ UNCHANGED bcast

\* A fault or a trap without a handler kills the process; no signals then.
\* The kernel process has no program: it can do nothing else.
Trap ==
  /\ Executes /\ ("Trap" \in Calls \/ ~My.code)
  /\ cpid' = Me /\ cwti_svd' = My.way_to_icpt
  /\ Arbitrate(KillProcess([Trapped EXCEPT !.arbitrate = os.arbitrate], Me),
               My.way_to_icpt)
  /\ UNCHANGED bcast

\* An installed handler takes the fault or trap: the program goes on in it.
\* Only the exception entry of the main module is reached by an arbitration.
TrapHandled(entry) ==
  /\ "Trap" \in Calls /\ Runs
  /\ LET k == [Trapped EXCEPT !.arbitrate = os.arbitrate]
     IN  IF entry
         THEN /\ cpid' = Me /\ cwti_svd' = My.way_to_icpt
              /\ Arbitrate(k, My.way_to_icpt)
         ELSE os' = k /\ UNCHANGED <<phase, loop, scan>>
  /\ UNCHANGED bcast

(* Phase "signals".  An alarm that is due sends its signal, then one       *)
(* queued signal is taken.  If that made the caller go to an intercept     *)
(* routine the loop continues as the process that is to execute it.        *)
NoAlarm == [pid |-> 0, signal |-> 0]
AlarmSignals == IF Len(os.queue) < MaxQueued
                THEN [pid : UserPid, signal : HostSignals] ELSE {}

Intercepted(k, c) ==
  LET t == k.proc[c].icpt_pid
      r == k.proc[t]
      masked == k.proc[c].icpt_signal # S_Wake /\ r.state # "pDead"
      resumed == /\ masked /\ r.sigvec
                 /\ (t = c /\ r.state = "pWaitRead") \/ r.state = "pWaiting"
      gone == [k EXCEPT !.proc[c].way_to_icpt = (t = k.currentpid),
                        !.currentpid = t]
  IN  [gone EXCEPT !.proc[t] =
         [@ EXCEPT !.masklevel = IF masked THEN 1 ELSE r.masklevel,
                   !.rtestate = IF ~resumed THEN r.rtestate
                                ELSE IF r.state = "pWaitRead" THEN "pWaitRead"
                                ELSE "pActive",
                   !.state = IF resumed THEN "pActive" ELSE r.state]]

TakeSignals(alarm) ==
  /\ phase = "signals"
  /\ LET a == IF alarm = NoAlarm THEN os
              ELSE SendSignal(os, alarm.pid, alarm.signal, FALSE)
         k == IF a.pending /\ a.proc[cpid].masklevel = 0
              THEN MaskOff(a, cpid, TRUE) ELSE a
         on_way == k.proc[cpid].way_to_icpt
     IN  /\ UNCHANGED <<cpid, cwti_svd>>
         /\ Arbitrate(IF on_way THEN Intercepted(k, cpid) ELSE k, on_way)
  /\ UNCHANGED bcast
-----------------------------------------------------------------------------
(* Phase "arbitrate": do_arbitrate looks at one process after the other.   *)
(* The first one is the current process when it may go on.  After that     *)
(* come the slots above it, without slot 1, round and round.               *)
Above == {q \in scan.spid + 1 .. MAXPROCESSES - 1 :
            q # KernelPid /\ (~Gone(os.proc[q]) \/ q = scan.cpid)}

\* Passing the end of the table brings the search back to its beginning.
Wraps == os.arbitrate /\ Above = {} /\ scan.cpid # 0

Candidate == IF ~os.arbitrate THEN scan.spid
             ELSE IF Above = {} THEN 0 ELSE Least(Above)

\* All processes have been looked at when the search is back at its start.
\* It ends there, unless somebody sleeps: then a second, thorough round.
Looked ==
  LET round == os.arbitrate /\ Candidate = scan.cpid
      again == round /\ ~scan.chkAll /\ scan.atLeast1
      ends == round /\ ~again /\
              ~(scan.chkAll /\ os.proc[Candidate].state = "pSleeping")
  IN  [scan EXCEPT !.spid = Candidate, !.chkAll = @ \/ again, !.done = @ \/ ends]

\* The search ends with process n.  A waiting parent gets its dead child;
\* without any candidate the last sleeper becomes current.
StillWaiting(k, p, q) == Reap(k, p, q)            \* mutant: set_os9_state forgotten
Unwait(k, p, q) == [Reap(k, p, q) EXCEPT !.proc[p].state = "pActive"]

Choose(k, n) ==
  LET p == IF n = MAXPROCESSES THEN scan.sleeping ELSE n
      dead == IF p = MAXPROCESSES THEN {} ELSE DeadChildren(k, p)
      chosen == [k EXCEPT !.currentpid = p]
  IN  /\ os' = IF n = MAXPROCESSES \/ k.proc[n].state # "pWaiting" \/ dead = {}
               THEN chosen
               ELSE Unwait(chosen, p, Least(dead))
      /\ phase' = "switch" /\ scan' = NoScan

\* The candidate cannot run.  An intercept takes it anyway, the end of the
\* last round gives up, else the search advances.
Pass(k, sc) ==
  IF k.proc[sc.spid].way_to_icpt THEN Choose(k, sc.spid)
  ELSE IF sc.done THEN Choose([k EXCEPT !.arbitrate = TRUE], MAXPROCESSES)
  ELSE /\ os' = [k EXCEPT !.arbitrate = TRUE]
       /\ scan' = sc /\ UNCHANGED phase

Searching == phase = "arbitrate" /\ ~Wraps
CState == os.proc[Candidate].state
Aged == os.proc[Candidate].pW_age = 0
NextAge(old) == IF old = 0 THEN NewAge ELSE old - 1

ArbWrap ==
  /\ phase = "arbitrate" /\ Wraps
  /\ scan' = [scan EXCEPT !.spid = 0]
  /\ UNCHANGED <<os, phase, loop, bcast>>

ArbRunnable ==
  /\ Searching
  /\ \/ CState \in {"pActive", "pSysTask"}
     \/ CState = "pWaiting" /\ DeadChildren(os, Candidate) # {}
  /\ Choose(os, Candidate)
  /\ UNCHANGED <<loop, bcast>>

\* Only every NewAge-th time a blocked read is tried again.
ArbWaitRead ==
  /\ Searching /\ CState = "pWaitRead"
  /\ LET k == [os EXCEPT !.proc[Candidate].pW_age = NextAge(@)]
     IN  IF Aged THEN Choose(k, Candidate)
                 ELSE Pass(k, [Looked EXCEPT !.done = FALSE])
  /\ UNCHANGED <<loop, bcast>>

\* A sleeper is looked at when it has aged, or in the thorough round: queued
\* signals are taken, the network may signal it, its time may be over.
NoSignal == 0
Polled(net) ==
  LET n == Candidate
      aged == [os EXCEPT !.proc[n].pW_age = NewAge]
      k == IF aged.pending /\ aged.proc[n].masklevel = 0
           THEN MaskOff(aged, n, TRUE) ELSE aged
      sent == SendSignal([k EXCEPT !.currentpid = 0], n, net, TRUE)
  IN  IF net = NoSignal THEN k ELSE [sent EXCEPT !.currentpid = k.currentpid]

StaysAsleep(k, n) == k                            \* mutant: set_os9_state forgotten
Awake(k, n) == [k EXCEPT !.proc[n].state = "pActive"]

ArbSleeping(net) ==
  /\ Searching /\ CState = "pSleeping"
  /\ LET n == Candidate
         sc == [Looked EXCEPT !.atLeast1 = TRUE]
         k == Polled(net)
     IN  IF ~Aged /\ ~sc.chkAll
         THEN /\ net = NoSignal
              /\ Pass([os EXCEPT !.proc[n].pW_age = @ - 1], sc)
         ELSE IF k.proc[n].wakeUpTick = "due"
         THEN Choose(Awake(k, n), n)
         ELSE Pass(k, [sc EXCEPT !.sleeping = n])
  /\ UNCHANGED <<loop, bcast>>

ArbNotRunnable ==
  /\ Searching
  /\ \/ CState \in {"pUnused", "pDead", "pStart"}
     \/ CState = "pWaiting" /\ DeadChildren(os, Candidate) = {}
  /\ Pass(os, Looked)
  /\ UNCHANGED <<loop, bcast>>

-----------------------------------------------------------------------------
(* Phase "switch": the chosen process may itself have to give way to the   *)
(* process whose intercept routine it caused.  No process ends the loop.   *)
Switch ==
  /\ phase = "switch"
  /\ phase' = IF Me = MAXPROCESSES THEN "ended" ELSE "call"
  /\ os' = IF Me # MAXPROCESSES /\ ~cwti /\ My.way_to_icpt /\ My.icpt_pid # Me
           THEN [os EXCEPT !.proc[Me].way_to_icpt = FALSE,
                           !.currentpid = My.icpt_pid]
           ELSE os
  /\ cpid' = 0 /\ cwti' = FALSE /\ cwti_svd' = FALSE   \* out of scope
  /\ UNCHANGED <<bcast, scan>>

\* The host: time passes; a key that means a signal is pressed (the interrupt
\* key comes as a signal of the host, at any time).
Tick(p) ==
  /\ phase # "ended" /\ os.proc[p].wakeUpTick = "later"
  /\ os' = [os EXCEPT !.proc[p].wakeUpTick = "due"]
  /\ UNCHANGED <<phase, loop, bcast, scan>>

KeyToBuffer(p, sig) ==
  /\ phase \notin {"switch", "ended"} /\ Len(os.queue) < MaxQueued
  /\ ~Gone(os.proc[p])
  /\ os' = SendSignal(os, p, sig, FALSE)
  /\ UNCHANGED <<phase, loop, bcast, scan>>

SystemCall ==
  \/ \E ok \in BOOLEAN : F_Fork(ok)
  \/ F_Exit
  \/ \E ok \in BOOLEAN : F_Chain(ok)
  \/ F_Wait
  \/ \E wake \in SleepTimes : F_Sleep(wake)
  \/ F_Yield
  \/ \E t \in Targets, sig \in Signals : F_Send(t, sig)
  \/ \E sig \in Signals : F_SendAll(sig)
  \/ \E set \in BOOLEAN : F_Icpt(set)
  \/ F_RTE \/ F_RTE_Astray
  \/ \E level \in {"off", "up", "down"} : F_Sigmask(level)
  \/ \E ready \in BOOLEAN : Read(ready)
  \/ \E entry \in BOOLEAN : TrapHandled(entry)
  \/ Pipe \/ Other \/ Trap

Loop ==
  \/ Broadcast \/ Idle \/ Switch
  \/ \E done \in BOOLEAN : SysTask(done)
  \/ TakeSignals(NoAlarm)
  \/ \E alarm \in AlarmSignals : TakeSignals(alarm)
  \/ ArbWrap \/ ArbRunnable \/ ArbWaitRead \/ ArbNotRunnable
  \/ \E net \in HostSignals \cup {NoSignal} : ArbSleeping(net)

Host ==
  \/ \E p \in Pid : Tick(p)
  \/ \E p \in UserPid, sig \in HostSignals : KeyToBuffer(p, sig)

\* OS9exec has left its main loop.
Ended == phase = "ended" /\ UNCHANGED vars

Next == SystemCall \/ Loop \/ Host \/ Ended

Spec == Init /\ [][Next]_vars

-----------------------------------------------------------------------------
(* The process table promises what Lifecycle says: fork, end, report.      *)
StatusOf(r) == CASE r.state = "pUnused" -> "free"
                 [] r.state = "pDead"   -> "zombie"
                 [] OTHER               -> "alive"
ParentOf(r) == IF r.state = "pUnused" THEN 0 ELSE r.parent

Promise == INSTANCE Lifecycle WITH
             Process <- Slot \ {0},
             status <- [p \in Slot |-> StatusOf(os.proc[p])],
             parent <- [p \in Slot |-> ParentOf(os.proc[p])]

\* fork, exit, chain, wait, kill, faults and the scheduler's own reporting of
\* dead children (new_process, kill_process, OS9_F_Wait, do_arbitrate) change
\* the table only as Lifecycle allows: every end is reported once, to a parent
\* that lives, or the descriptor is free at once.
Implements == Promise!LifecycleSpec

\* kill_process orphans the children of whoever dies: a process never has a
\* parent that is gone, whose slot a stranger could take over, and a dead
\* process always has a parent that can still ask for it with F$Wait.
FamilyOK ==
  \A p \in Pid :
    LET r == os.proc[p]
    IN  /\ r.state # "pUnused" /\ r.parent # 0 => ~Gone(os.proc[r.parent])
        /\ r.state = "pDead" => r.parent # 0

\* The list of children F$Fork, F$Wait and do_arbitrate keep in _cid and _sid
\* (AssignNewChild) holds exactly the processes that name p as their parent.
ChildListOK ==
  \A p \in Pid : ~Gone(os.proc[p]) =>
                    ChildList(os, p) = LiveChildren(os, p) \cup DeadChildren(os, p)

\* Nobody waits for a child in vain: OS9_F_Wait waits only when there is a
\* child, and no child disappears (is reaped, is killed) while p waits.
WaitingHasChild ==
  \A p \in Pid : os.proc[p].state = "pWaiting" =>
                    LiveChildren(os, p) \cup DeadChildren(os, p) # {}

\* pwr_brk lets a signal interrupt a blocked read: send_signal sets it when it
\* queues such a signal and clears it when it delivers one.  It must not stay
\* behind without a signal, or the next read would be open to any signal.
PwrBrkOK ==
  \A p \in Pid : ~Gone(os.proc[p]) /\ os.proc[p].pwr_brk =>
     \E i \in 1 .. Len(os.queue) : /\ os.queue[i].pid = p
                                   /\ os.queue[i].signal <= Pwr_Signal

\* F$RTE sets the interrupted state back: while a process handles a signal,
\* that state is one in which it runs on, or repeats its read.  A process that
\* slept or waited when the signal came must not fall asleep again.
InterceptReturns ==
  \A p \in Pid :
    LET r == os.proc[p]
    IN  r.code /\ ~Gone(r) /\ r.signal # 0 => r.rtestate \in {"pActive", "pWaitRead"}

\* No signal is handed to a process while it masks signals (F$SigMask, or an
\* intercept routine that runs): send_signal and sig_mask leave it queued.
MaskHonoured ==
  [][\A p \in UserPid :
       LET r == os.proc[p]
           s == os'.proc[p]
       IN  /\ ~Gone(r) /\ r.masklevel > 0
           /\ ~Gone(s) /\ s.masklevel > 0
           => s.signal \in {0, r.signal}]_vars
=============================================================================
