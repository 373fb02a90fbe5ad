-------------------------------- MODULE Events --------------------------------
(***************************************************************************)
(* F$Event: the table of events (events.c) and the system call by which    *)
(* processes make, wait for, signal and delete them (OS9_F_Event).         *)
(*                                                                         *)
(* A process whose event does not have a value in the range it asked for   *)
(* goes to pWaitRead, and each turn it gets repeats the whole call, so     *)
(* there is no queue of waiters: who comes first after the value changed   *)
(* is served.  Programs use an event in one of two ways: as a lock (value  *)
(* 1, -1 when a wait succeeds, +1 by the signal of whoever waited) or as a *)
(* gate (value 0, left alone by waiters, +1 by anyone's signal).           *)
(***************************************************************************)
EXTENDS Integers, FiniteSets

CONSTANTS Proc,      \* the processes
          Name,      \* the names events get
          MAXEVENTS, \* slots of the table
          IdMod,     \* the counter of ids is a number below IdMod (2^32)
          EvOffs,    \* what is added for each new event
          MaxCreat,  \* bound: events that are made in all
          MaxValue,  \* bound on the value of a gate
          MaxLinks   \* bound: link counts are counted up to here

Slots == 1 .. MAXEVENTS
Id == 0 .. IdMod - 1

\* newEventId is a uint32_t.
NextId(n) == (n + EvOffs) % IdMod

\* The ids of the first MaxCreat events: they differ and none is 0, which marks a free
\* slot.  With the code's numbers this is so for more than 4 * 10^9 events.
CountsIds(f) == f[0] = IdMod - 1 /\ \A n \in 1 .. MaxCreat : f[n] = NextId(f[n - 1])

ASSUME EventsAssumption ==
    /\ MAXEVENTS \in Nat /\ IdMod \in Nat \ {0} /\ EvOffs \in Nat /\ MaxCreat \in Nat
    /\ MaxValue \in Nat \ {0} /\ MaxLinks \in Nat /\ Name # {}
ASSUME IdsDiffer ==
    \E f \in [0 .. MaxCreat -> Id] :
        /\ CountsIds(f)
        /\ \A m, n \in 1 .. MaxCreat : f[m] # 0 /\ (f[m] = f[n] => m = n)

IdAt == CHOOSE f \in [0 .. MaxCreat -> Id] : CountsIds(f)

VARIABLES events,     \* the table
          newEventId, \* the id given last
          created,    \* how many events were made
          state,      \* of each process: pActive, pWaitRead (in Ev_Wait) or pDead
          wanted,     \* the event a process in pWaitRead repeats its call for
          holds,      \* the ids whose lock a process has and did not signal yet
          set_evId,   \* the event of a device path, 0: none (SS_SEvent)
          ready       \* there is data on that path

vars == <<events, newEventId, created, state, wanted, holds, set_evId, ready>>
device == <<set_evId, ready>>

Lock == [value |-> 1, wInc |-> -1, sInc |-> 1]
Gate == [value |-> 0, wInc |-> 0, sInc |-> 1]

FreeEvent == [id |-> 0, name |-> CHOOSE n \in Name : TRUE, value |-> 0, wInc |-> 0,
              sInc |-> 0, e_linkcount |-> 0]

EventType == [id : Id, name : Name, value : 0 .. MaxValue, wInc : {-1, 0}, sInc : {0, 1},
              e_linkcount : 0 .. MaxLinks]

Init == /\ events = [k \in Slots |-> FreeEvent]
        /\ newEventId = IdMod - 1
        /\ created = 0
        /\ state = [p \in Proc |-> "pActive"]
        /\ wanted = [p \in Proc |-> 0]
        /\ holds = [p \in Proc |-> {}]
        /\ set_evId = 0 /\ ready = FALSE

-----------------------------------------------------------------------------
\* The ids programs have been given.
Given == {IdAt[n] : n \in 1 .. created}

\* The slots with an id, and the slots of living events with a name.  (mutant: events
\* whose links are all gone are overlooked)
WithId(id) == {k \in Slots : events[k].id = id}
NamedAndLinked(name) == {k \in Slots : events[k].id # 0 /\ events[k].name = name
                                       /\ events[k].e_linkcount > 0}
Named(name) == {k \in Slots : events[k].id # 0 /\ events[k].name = name}

\* The loops over the table take the first slot that fits.
First(S) == CHOOSE k \in S : \A j \in S : k <= j

\* The range programs wait for, of a lock and of a gate.  (mutant: no lower bound)
InRangeOrBelow(v) == v <= MaxValue
InRange(v) == 1 <= v /\ v <= MaxValue

IsGate(id) == \E k \in WithId(id) : events[k].wInc = 0

\* Link counts.  (mutant: counted down below 0)
OneMore(n) == IF n < MaxLinks THEN n + 1 ELSE n
OneLessAnyway(n) == n - 1
OneLess(n) == IF n > 0 THEN n - 1 ELSE n

\* Ev_Creat.  The link count goes on from the one of the event that had the slot before.
EvCreat(p, name, use) ==
    /\ state[p] = "pActive" /\ created < MaxCreat
    /\ Named(name) = {} /\ WithId(0) # {}
    /\ LET k == First(WithId(0)) IN
       /\ newEventId' = NextId(newEventId)
       /\ events' = [events EXCEPT ![k] =
              [id |-> newEventId', name |-> name, value |-> use.value, wInc |-> use.wInc,
               sInc |-> use.sInc, e_linkcount |-> OneMore(events[k].e_linkcount)]]
    /\ created' = created + 1
    /\ UNCHANGED <<state, wanted, holds, device>>

\* Ev_Link and Ev_UnLnk only count.
EvLink(p, name) ==
    /\ state[p] = "pActive" /\ Named(name) # {}
    /\ events' = [events EXCEPT ![First(Named(name))].e_linkcount = OneMore(@)]
    /\ UNCHANGED <<newEventId, created, state, wanted, holds, device>>

EvUnLnk(p, id) ==
    /\ state[p] = "pActive" /\ WithId(id) # {}
    /\ events' = [events EXCEPT ![First(WithId(id))].e_linkcount = OneLess(@)]
    /\ UNCHANGED <<newEventId, created, state, wanted, holds, device>>

\* Ev_Delet asks neither for links nor for waiters.
EvDelet(p, name) ==
    /\ state[p] = "pActive" /\ Named(name) # {}
    /\ events' = [events EXCEPT ![First(Named(name))].id = 0]
    /\ UNCHANGED <<newEventId, created, state, wanted, holds, device>>

\* What evWait finds in the event's slot, with data on a device path that sets it.
ValueNow(id) == IF set_evId = id /\ ready THEN 1 ELSE events[First(WithId(id))].value

\* The wait succeeds: the value is in the range.
Passes(p, id) ==
    /\ WithId(id) # {} /\ InRange(ValueNow(id))
    /\ LET k == First(WithId(id)) IN
       /\ events' = [events EXCEPT ![k].value = ValueNow(id) + events[k].wInc]
       /\ holds' = [holds EXCEPT ![p] = IF events[k].wInc = -1 THEN @ \cup {id} ELSE @]
    /\ state' = [state EXCEPT ![p] = "pActive"]
    /\ wanted' = [wanted EXCEPT ![p] = 0]

\* It does not: evWait has the same error for a value out of range and for no event.
Fails(p, id) ==
    /\ WithId(id) # {} => ~InRange(ValueNow(id))
    /\ state' = [state EXCEPT ![p] = "pWaitRead"]
    /\ wanted' = [wanted EXCEPT ![p] = id]
    /\ UNCHANGED <<events, holds>>

\* Ev_Wait: the first time, and again at each turn the process gets in pWaitRead.
EvWait(p, id) ==
    /\ state[p] = "pActive" /\ id \notin holds[p]
    /\ Passes(p, id) \/ Fails(p, id)
    /\ UNCHANGED <<newEventId, created, device>>

\* (mutant: the call that is repeated never succeeds)
EvWaitInVain(p) ==
    /\ state[p] = "pWaitRead"
    /\ Fails(p, wanted[p])
    /\ UNCHANGED <<newEventId, created, device>>

EvWaitAgain(p) ==
    /\ state[p] = "pWaitRead"
    /\ Passes(p, wanted[p]) \/ Fails(p, wanted[p])
    /\ UNCHANGED <<newEventId, created, device>>

\* Ev_Signl.  A lock is signalled by who has it, a gate by anyone; for an event that is
\* gone the call is an error and changes nothing.  (mutant: it changes another event)
SignalledOther(id) == LET k == IF WithId(id) = {} THEN 1 ELSE First(WithId(id))
                      IN [events EXCEPT ![k].value = @ + events[k].sInc]
Signalled(id) == IF WithId(id) = {} THEN events
                 ELSE LET k == First(WithId(id))
                      IN [events EXCEPT ![k].value = @ + events[k].sInc]

EvSignl(p, id) ==
    /\ state[p] = "pActive"
    /\ \/ id \in holds[p]
       \/ IsGate(id) /\ events[First(WithId(id))].value < MaxValue
    /\ events' = Signalled(id)
    /\ holds' = [holds EXCEPT ![p] = @ \ {id}]
    /\ UNCHANGED <<newEventId, created, state, wanted, device>>

\* SS_SEvent: the device path is to set an event, a gate, when data comes in.
SetEvent(p, id) ==
    /\ state[p] = "pActive" /\ IsGate(id)
    /\ set_evId' = id
    /\ UNCHANGED <<events, newEventId, created, state, wanted, holds, ready>>

\* Data comes in on the device: nobody is told, evWait has to look.
DataIn == /\ ~ready /\ ready' = TRUE
          /\ UNCHANGED <<events, newEventId, created, state, wanted, holds, set_evId>>

\* syspath_read takes the data and sets the event, if it is still there.
Read(p) == /\ state[p] = "pActive" /\ ready
           /\ events' = IF set_evId = 0 \/ WithId(set_evId) = {} THEN events
                        ELSE [events EXCEPT ![First(WithId(set_evId))].value = 1]
           /\ ready' = FALSE
           /\ UNCHANGED <<newEventId, created, state, wanted, holds, set_evId>>

\* A process that exits or is killed leaves the events as they are.
Exit(p) == /\ state[p] # "pDead"
           /\ state' = [state EXCEPT ![p] = "pDead"]
           /\ wanted' = [wanted EXCEPT ![p] = 0]
           /\ UNCHANGED <<events, newEventId, created, holds, device>>

Next == \/ \E p \in Proc, n \in Name : \/ \E use \in {Lock, Gate} : EvCreat(p, n, use)
                                      \/ EvLink(p, n) \/ EvDelet(p, n)
        \/ \E p \in Proc, id \in Given :
               EvUnLnk(p, id) \/ EvWait(p, id) \/ EvSignl(p, id) \/ SetEvent(p, id)
        \/ \E p \in Proc : EvWaitAgain(p) \/ Read(p) \/ Exit(p)
        \/ DataIn

Spec == Init /\ [][Next]_vars

\* The scheduler gives every process in pWaitRead a turn again and again.
FairSpec == Spec /\ \A p \in Proc : WF_vars(EvWaitAgain(p))

-----------------------------------------------------------------------------
(* Properties *)

\* Every variable keeps the type the code gives it.  In particular no link count and no
\* lock's value goes below 0 or above its bound in however many calls.
EventsTypeOK == /\ events \in [Slots -> EventType]
                /\ newEventId \in Id /\ created \in 0 .. MaxCreat
                /\ state \in [Proc -> {"pActive", "pWaitRead", "pDead"}]
                /\ wanted \in [Proc -> Id] /\ holds \in [Proc -> SUBSET Id]
                /\ set_evId \in Id /\ ready \in BOOLEAN

\* Two living events never have the same name or the same id, whatever was made and
\* deleted before (evCreat looks for the name and counts the ids on).
OneEventEach == \A j, k \in Slots :
    events[j].id # 0 /\ events[k].id # 0 /\ j # k
        => events[j].id # events[k].id /\ events[j].name # events[k].name

\* A lock is held by one process at most, also when events are deleted and made again
\* under its name while it is held (evWait, evSignl).
LockExclusive == \A p, q \in Proc : p # q => holds[p] \cap holds[q] = {}

\* Events used as locks are the locks of module Locks, one for each id.
Live == {events[k].id : k \in Slots} \ {0}
Abstract == INSTANCE Locks WITH Proc <- Proc, Id <- Id,
                locks <- Live, gone <- Given \ Live,
                taken <- [i \in Id |-> {p \in Proc : i \in holds[p]}]
LocksImplemented == Abstract!Spec

\* Nobody waits while there is nothing to wait for: of the processes that wait for an
\* event with a value in their range, one gets on (a gate: all of them), unless somebody
\* else changed the value or the event is deleted (OS9_F_Event repeats the call).
Waiting(id) == {p \in Proc : state[p] = "pWaitRead" /\ wanted[p] = id}
Servable(id) == id \in Live /\ InRange(ValueNow(id)) /\ Waiting(id) # {}
WaitersServed == \A n \in 1 .. MaxCreat : Servable(IdAt[n]) ~> ~Servable(IdAt[n])
==============================================================================
