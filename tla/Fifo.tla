-------------------------------- MODULE Fifo --------------------------------
(***************************************************************************)
(* What a pipe promises: the bytes that calls have put come out in the     *)
(* order they were put in, each one once, and no more than Capacity of     *)
(* them are in it at a time.  A call puts or takes its bytes in one or     *)
(* more steps; it can be given up.  The pipe can be cleared.               *)
(***************************************************************************)
EXTENDS Naturals, Sequences

CONSTANTS Proc, Capacity

VARIABLES queue,  \* the bytes in the pipe
          sofar,  \* the bytes that the unfinished call of each process has moved
          moved   \* the same, with those of the call that has just finished

vars == <<queue, sofar, moved>>

Init == /\ queue = <<>>
        /\ sofar = [p \in Proc |-> <<>>] /\ moved = sofar

\* The call of p goes on by the bytes s and may be finished.
GoesOn(p, s) == /\ moved' = [sofar EXCEPT ![p] = @ \o s]
                /\ sofar' \in {moved', [moved' EXCEPT ![p] = <<>>]}

Put(p) == LET s == SubSeq(queue', Len(queue) + 1, Len(queue'))
          IN queue' = queue \o s /\ Len(queue') <= Capacity /\ GoesOn(p, s)

Take(p) == LET s == SubSeq(queue, 1, Len(queue) - Len(queue'))
           IN queue = s \o queue' /\ GoesOn(p, s)

GivenUp(p) == /\ sofar' = [sofar EXCEPT ![p] = <<>>] /\ moved' = sofar'
              /\ UNCHANGED queue

Clear == queue' = <<>> /\ sofar' = sofar /\ moved' = sofar

\* Something else was done.
Else == UNCHANGED <<queue, sofar>> /\ moved' = sofar

Next == Clear \/ Else \/ \E p \in Proc : Put(p) \/ Take(p) \/ GivenUp(p)

Spec == Init /\ [][Next]_vars
=============================================================================
