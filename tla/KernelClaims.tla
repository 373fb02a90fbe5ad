---------------------------- MODULE KernelClaims ----------------------------
(***************************************************************************)
(* What the source says of signals and the code does not do.  Each claim   *)
(* is refuted by a run of its own.                                         *)
(***************************************************************************)
EXTENDS Kernel, FiniteSets

Queued(k, t) ==
  {i \in 1 .. Len(k.queue) : k.queue[i].pid = t /\ k.queue[i].signal # S_Wake}

TakenOff(t) == Cardinality(Queued(os', t)) < Cardinality(Queued(os, t))

\* send_signal, of a process that has no intercept routine: "so it will be
\* killed".  A signal taken off the queue for such a process ends it.
FatalIsFatal ==
  [][\A t \in UserPid :
       LET r == os.proc[t]
       IN  ~Gone(r) /\ ~r.sigvec /\ r.signal = 0 /\ TakenOff(t)
           => Gone(os'.proc[t])]_vars

\* send_signal: "execution will continue in intercept routine".  The loop does
\* not arbitrate while the process it is at is on its way to such a routine, or
\* masks signals as one that is in it does; so this must be a process that can
\* be executed, or nothing will ever run again.
NeverStuck ==
  phase = "call" /\ My.state \notin {"pActive", "pWaitRead", "pSysTask"} =>
    ~My.way_to_icpt /\ My.masklevel = 0
=============================================================================
