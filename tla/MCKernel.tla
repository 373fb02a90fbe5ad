------------------------------ MODULE MCKernel ------------------------------
(***************************************************************************)
(* Kernel for TLC: the mixes of system calls the runs use, and what must   *)
(* happen eventually.                                                      *)
(***************************************************************************)
EXTENDS KernelClaims

FamilyCalls == {"F_Fork", "F_Exit", "F_Wait", "F_Yield", "F_Chain", "F_Send", "F_SendAll", "Trap"}
SignalCalls == {"F_Fork", "F_Icpt", "F_RTE", "F_RTE_Astray", "F_Send", "F_Sigmask", "F_Wait", "Read", "Other"}
ServedCalls == {"F_Fork", "F_Wait", "F_Yield", "Pipe", "F_Send", "F_Sleep"}
DeadCalls   == {"F_Fork", "F_Sleep"}

(* The emulator never stops between two phases and the 68k code of the     *)
(* current process always comes to its next system call; time passes.      *)
(* Nothing takes the CPU away from a process that makes only calls without *)
(* an arbitration, so the programs are assumed to yield again and again.   *)
FairSpec == /\ Spec
            /\ WF_vars(Loop) /\ WF_vars(SystemCall)
            /\ \A p \in Pid : WF_vars(Tick(p))
            /\ SF_vars(F_Yield)

\* do_arbitrate comes round to every waiting parent whose child has died,
\* whoever killed it and whoever runs, and unwaits it.
WaiterServed ==
  \A p \in UserPid :
    os.proc[p].state = "pWaiting" /\ DeadChildren(os, p) # {}
      ~> os.proc[p].state # "pWaiting"

\* do_arbitrate comes round to every sleeper whose time is over, although it
\* looks at it only every NewAge-th time while others run, and wakes it.
SleeperWakes ==
  \A p \in UserPid :
    os.proc[p].state = "pSleeping" /\ os.proc[p].wakeUpTick = "due"
      ~> os.proc[p].state # "pSleeping"
=============================================================================
