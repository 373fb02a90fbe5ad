---------------------------- MODULE Events_proofs ----------------------------
(***************************************************************************)
(* Events used as locks exclude, and refine the locks of module Locks, for *)
(* any processes, names, slots and calls, as long as the ids of the events *)
(* that are made differ.                                                   *)
(***************************************************************************)
EXTENDS Events, WellFoundedInduction, TLAPS

-----------------------------------------------------------------------------
(* Least members                                                           *)

\* Every set of numbers that is not empty has a least member.
LEMMA LeastNumber ==
  ASSUME NEW S, S \subseteq Nat, S # {}
  PROVE  \E x \in S : \A y \in S : x <= y
<1> DEFINE R == OpToRel(<, Nat)
<1>1. IsWellFoundedOn(R, Nat)
  BY NatLessThanWellFounded
<1>2. \A x, y \in Nat : <<y, x>> \notin R => x <= y
  <2>1. \A x, y \in Nat : y < x => <<y, x>> \in R
    BY Zenon DEF OpToRel
  <2> HIDE DEF R
  <2> QED BY <2>1
<1> HIDE DEF R
<1>3. \E x \in S : \A y \in S : <<y, x>> \notin R
  BY <1>1, WFMin
<1> QED BY <1>2, <1>3

\* The loops over the table find a slot that fits if there is one.
LEMMA FirstFits ==
  ASSUME NEW S, S \subseteq Slots, S # {}
  PROVE  First(S) \in S
<1>1. S \subseteq Nat
  BY EventsAssumption DEF Slots
<1>2. \E x \in S : \A y \in S : x <= y
  BY <1>1, LeastNumber
<1> QED BY <1>2 DEF First

-----------------------------------------------------------------------------
(* Ids                                                                     *)

\* Counting from one number gives one sequence of ids.
LEMMA CountsOnce ==
  ASSUME NEW f \in [0 .. MaxCreat -> Id], NEW g \in [0 .. MaxCreat -> Id],
         CountsIds(f), CountsIds(g)
  PROVE  f = g
<1> DEFINE D == {n \in 0 .. MaxCreat : f[n] # g[n]}
<1>0. MaxCreat \in Nat
  BY EventsAssumption
<1>1. ASSUME D # {} PROVE FALSE
  <2>1. D \subseteq Nat
    BY <1>0
  <2>2. PICK n \in D : \A m \in D : n <= m
    <3> HIDE DEF D
    <3> QED BY <1>1, <2>1, LeastNumber
  <2>3. n # 0
    BY <2>2 DEF CountsIds
  <2>4. n \in 1 .. MaxCreat /\ n - 1 \in 0 .. MaxCreat /\ ~(n <= n - 1)
    BY <1>0, <2>3
  <2>5. f[n - 1] = g[n - 1]
    BY <2>2, <2>4
  <2>6. f[n] = NextId(f[n - 1]) /\ g[n] = NextId(g[n - 1])
    BY <2>4 DEF CountsIds
  <2> QED BY <2>2, <2>5, <2>6
<1>2. \A n \in 0 .. MaxCreat : f[n] = g[n]
  BY <1>1
<1>3. f = [n \in 0 .. MaxCreat |-> f[n]] /\ g = [n \in 0 .. MaxCreat |-> g[n]]
  OBVIOUS
<1>4. [n \in 0 .. MaxCreat |-> f[n]] = [n \in 0 .. MaxCreat |-> g[n]]
  BY <1>2
<1> QED BY <1>3, <1>4

\* The ids that are given are none of them 0, and they differ.
LEMMA IdsAreGiven ==
  /\ IdAt \in [0 .. MaxCreat -> Id] /\ CountsIds(IdAt)
  /\ \A m, n \in 1 .. MaxCreat : IdAt[m] # 0 /\ (IdAt[m] = IdAt[n] => m = n)
<1>1. PICK f \in [0 .. MaxCreat -> Id] :
          /\ CountsIds(f)
          /\ \A m, n \in 1 .. MaxCreat : f[m] # 0 /\ (f[m] = f[n] => m = n)
  BY IdsDiffer
<1>2. IdAt \in [0 .. MaxCreat -> Id] /\ CountsIds(IdAt)
  BY <1>1 DEF IdAt
<1>3. IdAt = f
  BY <1>1, <1>2, CountsOnce
<1> QED BY <1>1, <1>2, <1>3

-----------------------------------------------------------------------------
(* The invariant                                                           *)

Holders(id) == {p \in Proc : id \in holds[p]}

\* Whatever names an event names one that was made.
IdsMade ==
    /\ newEventId = IdAt[created]
    /\ \A k \in Slots : events[k].id # 0 => events[k].id \in Given
    /\ \A p \in Proc : /\ holds[p] \subseteq Given
                       /\ state[p] = "pWaitRead" => wanted[p] \in Given
    /\ set_evId # 0 => set_evId \in Given

\* The value of a lock tells whether somebody holds it; no device sets it.
UsedRight(k) == events[k].id # 0 =>
    /\ events[k].sInc = 1
    /\ events[k].wInc = -1 =>
           /\ events[k].value = IF Holders(events[k].id) = {} THEN 1 ELSE 0
           /\ events[k].id # set_evId
    /\ events[k].wInc = 0 => Holders(events[k].id) = {}
Uses == \A k \in Slots : UsedRight(k)

EventsInv == EventsTypeOK /\ IdsMade /\ OneEventEach /\ Uses /\ LockExclusive

LEMMA InitInv == Init => EventsInv
<1> SUFFICES ASSUME Init PROVE EventsInv
  OBVIOUS
<1>1. (CHOOSE n \in Name : TRUE) \in Name
  BY EventsAssumption
<1>2. 0 \in Id /\ IdMod - 1 \in Id
  BY EventsAssumption DEF Id
<1>3. FreeEvent \in EventType /\ FreeEvent.id = 0
  BY <1>1, <1>2, EventsAssumption DEF FreeEvent, EventType
<1> HIDE DEF FreeEvent
<1>4. EventsTypeOK
  <2>1. events \in [Slots -> EventType]
    BY <1>3 DEF Init
  <2>2. newEventId \in Id /\ created \in 0 .. MaxCreat
    BY <1>2, EventsAssumption DEF Init
  <2>3. /\ state \in [Proc -> {"pActive", "pWaitRead", "pDead"}]
        /\ wanted \in [Proc -> Id] /\ holds \in [Proc -> SUBSET Id]
        /\ set_evId \in Id /\ ready \in BOOLEAN
    BY <1>2 DEF Init
  <2> QED BY <2>1, <2>2, <2>3 DEF EventsTypeOK
<1>5. IdsMade
  BY <1>3, IdsAreGiven DEF Init, IdsMade, CountsIds
<1>6. OneEventEach /\ Uses /\ LockExclusive
  BY <1>3 DEF Init, OneEventEach, Uses, UsedRight, LockExclusive
<1> QED BY <1>4, <1>5, <1>6 DEF EventsInv

-----------------------------------------------------------------------------
(* Entries of the table                                                    *)

\* The fields of an entry, and what is made of such fields.
LEMMA EntryFields ==
  ASSUME NEW e \in EventType
  PROVE  /\ e.id \in Id /\ e.name \in Name /\ e.value \in 0 .. MaxValue
         /\ e.wInc \in {-1, 0} /\ e.sInc \in {0, 1} /\ e.e_linkcount \in 0 .. MaxLinks
BY DEF EventType

\* A slot with another value, link count or id.
LEMMA SetValue ==
  ASSUME NEW f \in [Slots -> EventType], NEW k \in Slots, NEW v \in 0 .. MaxValue
  PROVE  /\ [f EXCEPT ![k].value = v] \in [Slots -> EventType]
         /\ \A j \in Slots : j # k => [f EXCEPT ![k].value = v][j] = f[j]
         /\ LET e == [f EXCEPT ![k].value = v][k]
            IN e.value = v /\ e.id = f[k].id /\ e.name = f[k].name
                           /\ e.wInc = f[k].wInc /\ e.sInc = f[k].sInc
BY DEF EventType

LEMMA SetLinks ==
  ASSUME NEW f \in [Slots -> EventType], NEW k \in Slots, NEW n \in 0 .. MaxLinks
  PROVE  /\ [f EXCEPT ![k].e_linkcount = n] \in [Slots -> EventType]
         /\ \A j \in Slots : j # k => [f EXCEPT ![k].e_linkcount = n][j] = f[j]
         /\ LET e == [f EXCEPT ![k].e_linkcount = n][k]
            IN e.value = f[k].value /\ e.id = f[k].id /\ e.name = f[k].name
                                    /\ e.wInc = f[k].wInc /\ e.sInc = f[k].sInc
BY DEF EventType

LEMMA SetId ==
  ASSUME NEW f \in [Slots -> EventType], NEW k \in Slots, NEW i \in Id
  PROVE  /\ [f EXCEPT ![k].id = i] \in [Slots -> EventType]
         /\ \A j \in Slots : j # k => [f EXCEPT ![k].id = i][j] = f[j]
         /\ [f EXCEPT ![k].id = i][k].id = i
BY DEF EventType

LEMMA CountsInRange ==
  \A n \in 0 .. MaxLinks : OneMore(n) \in 0 .. MaxLinks /\ OneLess(n) \in 0 .. MaxLinks
BY EventsAssumption DEF OneMore, OneLess

\* The event with a name, or with an id that was given.
LEMMA FoundByName ==
  ASSUME EventsInv, NEW name \in Name, Named(name) # {}
  PROVE  First(Named(name)) \in Slots /\ events[First(Named(name))].id # 0
<1>1. First(Named(name)) \in Named(name)
  BY FirstFits DEF Named
<1> QED BY <1>1 DEF Named

LEMMA FoundById ==
  ASSUME NEW id, WithId(id) # {}
  PROVE  First(WithId(id)) \in Slots /\ events[First(WithId(id))].id = id
<1>1. First(WithId(id)) \in WithId(id)
  BY FirstFits DEF WithId
<1> QED BY <1>1 DEF WithId

\* Ids that were given.
LEMMA GivenIds ==
  ASSUME created \in 0 .. MaxCreat
  PROVE  Given \subseteq Id \ {0}
<1>1. \A n \in 1 .. created : n \in 1 .. MaxCreat /\ n \in 0 .. MaxCreat
  BY EventsAssumption
<1> QED BY <1>1, IdsAreGiven DEF Given

-----------------------------------------------------------------------------
(* The invariant is kept                                                   *)

\* Nothing that the invariant looks at is changed but the state of processes.
LEMMA OnlyStates ==
  ASSUME EventsInv, UNCHANGED <<events, newEventId, created, holds, set_evId>>,
         state' \in [Proc -> {"pActive", "pWaitRead", "pDead"}],
         wanted' \in [Proc -> Id], ready' \in BOOLEAN,
         \A p \in Proc : state'[p] = "pWaitRead" => wanted'[p] \in Given
  PROVE  EventsInv'
<1>1. EventsTypeOK'
  BY DEF EventsInv, EventsTypeOK
<1>2. IdsMade'
  BY DEF EventsInv, IdsMade, Given
<1>3. OneEventEach' /\ Uses' /\ LockExclusive'
  BY DEF EventsInv, OneEventEach, Uses, UsedRight, Holders, LockExclusive
<1> QED BY <1>1, <1>2, <1>3 DEF EventsInv

\* A slot has the same event as before, with another link count.
LEMMA OnlyLinks ==
  ASSUME EventsInv, NEW k \in Slots, NEW n \in 0 .. MaxLinks,
         events' = [events EXCEPT ![k].e_linkcount = n],
         UNCHANGED <<newEventId, created, state, wanted, holds, device>>
  PROVE  EventsInv'
<1>1. events \in [Slots -> EventType]
  BY DEF EventsInv, EventsTypeOK
<1>2. /\ events' \in [Slots -> EventType]
      /\ \A j \in Slots : /\ events'[j].value = events[j].value /\ events'[j].id = events[j].id
                          /\ events'[j].name = events[j].name
                          /\ events'[j].wInc = events[j].wInc
                          /\ events'[j].sInc = events[j].sInc
  BY <1>1, SetLinks
<1>3. EventsTypeOK'
  BY <1>2 DEF EventsInv, EventsTypeOK, device
<1>4. IdsMade'
  BY <1>2 DEF EventsInv, IdsMade, Given, device
<1>5. OneEventEach'
  BY <1>2 DEF EventsInv, OneEventEach
<1>6. Uses' /\ LockExclusive'
  BY <1>2 DEF EventsInv, Uses, UsedRight, Holders, LockExclusive, device
<1> QED BY <1>3, <1>4, <1>5, <1>6 DEF EventsInv

\* A new event has an id that no event had before, so nobody holds it.
LEMMA NewId ==
  ASSUME EventsInv, created < MaxCreat
  PROVE  /\ NextId(newEventId) = IdAt[created + 1]
         /\ NextId(newEventId) \in Id \ {0} /\ NextId(newEventId) \notin Given
<1>1. created \in 0 .. MaxCreat /\ newEventId = IdAt[created]
  BY DEF EventsInv, EventsTypeOK, IdsMade
<1>2. created + 1 \in 1 .. MaxCreat /\ created + 1 \in 0 .. MaxCreat
      /\ (created + 1) - 1 = created
  BY <1>1, EventsAssumption
<1>3. IdAt[created + 1] = NextId(newEventId)
  BY <1>1, <1>2, IdsAreGiven DEF CountsIds
<1>4. \A n \in 1 .. created : n \in 1 .. MaxCreat /\ n # created + 1
  BY <1>1, EventsAssumption
<1>5. IdAt[created + 1] \notin Given
  BY <1>2, <1>4, IdsAreGiven DEF Given
<1> QED BY <1>2, <1>3, <1>5, IdsAreGiven

LEMMA EvCreatInv ==
  ASSUME EventsInv, NEW p \in Proc, NEW name \in Name, NEW use \in {Lock, Gate},
         EvCreat(p, name, use)
  PROVE  EventsInv'
<1> DEFINE k == First(WithId(0))
           i == newEventId'
           e == [id |-> i, name |-> name, value |-> use.value, wInc |-> use.wInc,
                 sInc |-> use.sInc, e_linkcount |-> OneMore(events[k].e_linkcount)]
<1>1. /\ k \in Slots /\ events[k].id = 0
      /\ i = IdAt[created + 1] /\ i \in Id \ {0} /\ i \notin Given
  BY FoundById, NewId DEF EvCreat
<1>2. /\ events' = [events EXCEPT ![k] = e] /\ created' = created + 1
      /\ UNCHANGED <<state, wanted, holds, set_evId, ready>> /\ Named(name) = {}
      /\ created < MaxCreat
  BY DEF EvCreat, device
<1>3. e \in EventType /\ e.id = i /\ e.name = name
  <2>1. use.value \in 0 .. MaxValue /\ use.wInc \in {-1, 0} /\ use.sInc \in {0, 1}
    BY EventsAssumption DEF Lock, Gate
  <2>2. OneMore(events[k].e_linkcount) \in 0 .. MaxLinks
    BY <1>1, EntryFields, CountsInRange DEF EventsInv, EventsTypeOK
  <2> HIDE DEF k
  <2> QED BY <1>1, <2>1, <2>2 DEF EventType
<1>4. /\ e.sInc = 1 /\ (e.wInc = -1 => e.value = 1)
      /\ e.wInc = 0 \/ e.wInc = -1
  BY DEF Lock, Gate
<1> HIDE DEF e, k, i
<1>5. /\ events' \in [Slots -> EventType]
      /\ events'[k] = e /\ \A j \in Slots \ {k} : events'[j] = events[j]
  BY <1>1, <1>2, <1>3 DEF EventsInv, EventsTypeOK
<1>6. created \in 0 .. MaxCreat /\ created' \in 0 .. MaxCreat /\ newEventId' = i
  BY <1>2, EventsAssumption DEF EventsInv, EventsTypeOK, i
<1>7. Given' = Given \cup {i}
  <2>1. 1 .. created' = (1 .. created) \cup {created + 1}
    BY <1>2, <1>6, EventsAssumption
  <2> QED BY <1>1, <1>2, <2>1 DEF Given
<1>8. EventsTypeOK'
  BY <1>1, <1>2, <1>5, <1>6 DEF EventsInv, EventsTypeOK
<1>9. IdsMade'
  BY <1>1, <1>2, <1>3, <1>5, <1>6, <1>7 DEF EventsInv, IdsMade
<1>10. OneEventEach'
  <2>1. \A j \in Slots \ {k} : events[j].id # 0 => events[j].id # i /\ events[j].name # name
    BY <1>1, <1>2 DEF EventsInv, IdsMade, Named
  <2> QED BY <1>3, <1>5, <2>1 DEF EventsInv, OneEventEach
<1>11. Uses'
  <2>1. Holders(i) = {} /\ i # set_evId
    BY <1>1 DEF EventsInv, IdsMade, Holders
  <2>2. \A id : {p1 \in Proc : id \in holds'[p1]} = Holders(id)
    BY <1>2 DEF Holders
  <2>3. ASSUME NEW j \in Slots PROVE UsedRight(j)'
    <3>1. CASE j = k
      BY <1>2, <1>3, <1>4, <1>5, <2>1, <2>2, <3>1 DEF UsedRight, Holders
    <3>2. CASE j # k
      <4>1. events'[j] = events[j] /\ UsedRight(j)
        BY <1>5, <3>2 DEF EventsInv, Uses
      <4> QED BY <1>2, <4>1 DEF UsedRight, Holders
    <3> QED BY <3>1, <3>2
  <2> QED BY <2>3 DEF Uses
<1>12. LockExclusive'
  BY <1>2 DEF EventsInv, LockExclusive
<1> QED BY <1>8, <1>9, <1>10, <1>11, <1>12 DEF EventsInv

LEMMA EvLinkInv ==
  ASSUME EventsInv, NEW p \in Proc, NEW name \in Name, EvLink(p, name)
  PROVE  EventsInv'
<1> DEFINE k == First(Named(name))
           n == OneMore(events[k].e_linkcount)
<1>1. k \in Slots
  BY FoundByName DEF EvLink
<1>2. n \in 0 .. MaxLinks
  BY <1>1, EntryFields, CountsInRange DEF EventsInv, EventsTypeOK
<1>3. events' = [events EXCEPT ![k].e_linkcount = n]
  BY DEF EvLink
<1> HIDE DEF k, n
<1> QED BY <1>1, <1>2, <1>3, OnlyLinks DEF EvLink

LEMMA EvUnLnkInv ==
  ASSUME EventsInv, NEW p \in Proc, NEW id \in Given, EvUnLnk(p, id)
  PROVE  EventsInv'
<1> DEFINE k == First(WithId(id))
           n == OneLess(events[k].e_linkcount)
<1>1. k \in Slots
  BY FoundById DEF EvUnLnk
<1>2. n \in 0 .. MaxLinks
  BY <1>1, EntryFields, CountsInRange DEF EventsInv, EventsTypeOK
<1>3. events' = [events EXCEPT ![k].e_linkcount = n]
  BY DEF EvUnLnk
<1> HIDE DEF k, n
<1> QED BY <1>1, <1>2, <1>3, OnlyLinks DEF EvUnLnk

LEMMA EvDeletInv ==
  ASSUME EventsInv, NEW p \in Proc, NEW name \in Name, EvDelet(p, name)
  PROVE  EventsInv'
<1> DEFINE k == First(Named(name))
<1>1. k \in Slots /\ events' = [events EXCEPT ![k].id = 0]
  BY FoundByName DEF EvDelet
<1> HIDE DEF k
<1>2. UNCHANGED <<newEventId, created, state, wanted, holds, set_evId, ready>>
  BY DEF EvDelet, device
<1>3. 0 \in Id
  BY EventsAssumption DEF Id
<1>4. /\ events' \in [Slots -> EventType] /\ events'[k].id = 0
      /\ \A j \in Slots : j # k => events'[j] = events[j]
  BY <1>1, <1>3, SetId DEF EventsInv, EventsTypeOK
<1>5. EventsTypeOK'
  BY <1>2, <1>4 DEF EventsInv, EventsTypeOK
<1>6. IdsMade'
  BY <1>2, <1>4 DEF EventsInv, IdsMade, Given
<1>7. OneEventEach'
  BY <1>4 DEF EventsInv, OneEventEach
<1>8. Uses' /\ LockExclusive'
  BY <1>2, <1>4 DEF EventsInv, Uses, UsedRight, Holders, LockExclusive
<1> QED BY <1>5, <1>6, <1>7, <1>8 DEF EventsInv

\* The event with id has another value, and a process has it or has it no more.
LEMMA OnlyValue ==
  ASSUME EventsInv, NEW k \in Slots, events[k].id # 0, NEW v \in 0 .. MaxValue,
         events' = [events EXCEPT ![k].value = v],
         UNCHANGED <<newEventId, created, device>>,
         state' \in [Proc -> {"pActive", "pWaitRead", "pDead"}],
         wanted' \in [Proc -> Id],
         \A p \in Proc : state'[p] = "pWaitRead" => wanted'[p] \in Given,
         NEW H \in [Proc -> SUBSET Id], holds' = H,
         \A p \in Proc, i \in Id : i # events[k].id => (i \in H[p] <=> i \in holds[p]),
         \A p \in Proc, q \in Proc : p # q => events[k].id \notin H[p] \cap H[q],
         events[k].wInc = -1 =>
             v = (IF \A p \in Proc : events[k].id \notin H[p] THEN 1 ELSE 0),
         events[k].wInc = 0 => \A p \in Proc : events[k].id \notin H[p]
  PROVE  EventsInv'
<1>1. events \in [Slots -> EventType]
  BY DEF EventsInv, EventsTypeOK
<1>2. /\ events' \in [Slots -> EventType]
      /\ \A j \in Slots : /\ events'[j].id = events[j].id /\ events'[j].name = events[j].name
                          /\ events'[j].wInc = events[j].wInc
                          /\ events'[j].sInc = events[j].sInc
                          /\ events'[j].value = IF j = k THEN v ELSE events[j].value
  BY <1>1, SetValue
<1>3. events[k].id \in Given /\ Given' = Given /\ Given \subseteq Id
  BY GivenIds DEF EventsInv, IdsMade, EventsTypeOK, Given
<1>4. EventsTypeOK'
  BY <1>2 DEF EventsInv, EventsTypeOK, device
<1>5. IdsMade'
  <2>1. \A p \in Proc : H[p] \subseteq Given
    BY <1>3 DEF EventsInv, IdsMade
  <2> QED BY <1>2, <1>3, <2>1 DEF EventsInv, IdsMade, device
<1>6. OneEventEach'
  BY <1>2 DEF EventsInv, OneEventEach
<1>7. LockExclusive'
  <2>1. ASSUME NEW p \in Proc, NEW q \in Proc, p # q, NEW i \in H[p] \cap H[q]
        PROVE  FALSE
    <3>1. i \in Id /\ i # events[k].id
      BY <2>1
    <3> QED BY <2>1, <3>1 DEF EventsInv, LockExclusive
  <2> QED BY <2>1 DEF LockExclusive
<1>8. ASSUME NEW j \in Slots PROVE UsedRight(j)'
  <2>1. UsedRight(j) /\ UsedRight(k) /\ set_evId' = set_evId
    BY DEF EventsInv, Uses, device
  <2>2. CASE j = k
    BY <1>2, <2>1, <2>2 DEF UsedRight, Holders
  <2>3. CASE j # k /\ events[j].id # 0
    <3>1. events[j].id # events[k].id /\ events[j].id \in Id
      BY <1>1, <2>3, EntryFields DEF EventsInv, OneEventEach
    <3>2. {p \in Proc : events[j].id \in H[p]} = {p \in Proc : events[j].id \in holds[p]}
      BY <3>1
    <3> QED BY <1>2, <2>1, <2>3, <3>2 DEF UsedRight, Holders
  <2> QED BY <1>2, <2>2, <2>3 DEF UsedRight
<1>9. Uses'
  BY <1>8 DEF Uses
<1> QED BY <1>4, <1>5, <1>6, <1>7, <1>9 DEF EventsInv

\* A lock whose value is in the range is 1 and free; only a gate has a value that a device
\* has set.
LEMMA PassesInv ==
  ASSUME EventsInv, NEW p \in Proc, NEW id \in Given, Passes(p, id),
         UNCHANGED <<newEventId, created, device>>
  PROVE  EventsInv'
<1> DEFINE k == First(WithId(id))
           v == ValueNow(id) + events[k].wInc
           H == [holds EXCEPT ![p] = IF events[k].wInc = -1 THEN @ \cup {id} ELSE @]
<1>1. k \in Slots /\ events[k].id = id /\ id # 0 /\ id \in Id
  BY FoundById, GivenIds DEF Passes, EventsInv, EventsTypeOK
<1>2. /\ events' = [events EXCEPT ![k].value = v] /\ holds' = H
      /\ InRange(ValueNow(id))
  BY DEF Passes
<1>3. UsedRight(k) /\ events[k] \in EventType /\ holds \in [Proc -> SUBSET Id]
  BY <1>1 DEF EventsInv, Uses, EventsTypeOK
<1>4. events[k].wInc = -1 => ValueNow(id) = 1 /\ \A q \in Proc : id \notin holds[q]
  <2>1. ASSUME events[k].wInc = -1 PROVE ValueNow(id) = events[k].value
    BY <1>1, <1>3, <2>1 DEF ValueNow, UsedRight
  <2>2. ASSUME events[k].wInc = -1 PROVE Holders(id) = {}
    BY <1>1, <1>2, <1>3, <2>1, <2>2 DEF UsedRight, InRange
  <2> QED BY <1>1, <1>2, <1>3, <2>1, <2>2 DEF UsedRight, Holders
<1>5. events[k].wInc = 0 => \A q \in Proc : id \notin holds[q]
  BY <1>1, <1>3 DEF UsedRight, Holders
<1>6. v \in 0 .. MaxValue
  <2>1. ValueNow(id) \in 0 .. MaxValue
    BY <1>1, <1>3, EntryFields, EventsAssumption DEF ValueNow
  <2>2. events[k].wInc \in {-1, 0} /\ (events[k].wInc = -1 => ValueNow(id) = 1)
    BY <1>3, <1>4, EntryFields
  <2> HIDE DEF k
  <2> QED BY <2>1, <2>2, EventsAssumption
<1>7. /\ state' \in [Proc -> {"pActive", "pWaitRead", "pDead"}] /\ wanted' \in [Proc -> Id]
      /\ \A q \in Proc : state'[q] = "pWaitRead" => wanted'[q] \in Given
  <2>1. 0 \in Id
    BY EventsAssumption DEF Id
  <2> QED BY <2>1 DEF Passes, EventsInv, EventsTypeOK, IdsMade
<1>8. /\ H \in [Proc -> SUBSET Id]
      /\ \A q \in Proc : H[q] = IF q = p /\ events[k].wInc = -1 THEN holds[q] \cup {id}
                                ELSE holds[q]
  BY <1>1, <1>3
<1>9. events[k].wInc \in {-1, 0}
  BY <1>3, EntryFields
<1> HIDE DEF H, k
<1>10. /\ \A q \in Proc, i \in Id : i # id => (i \in H[q] <=> i \in holds[q])
       /\ \A q, r \in Proc : q # r => id \notin H[q] \cap H[r]
       /\ events[k].wInc = 0 => \A q \in Proc : id \notin H[q]
       /\ events[k].wInc = -1 => id \in H[p]
  BY <1>4, <1>5, <1>8, <1>9
<1>11. events[k].wInc = -1 => v = (IF \A q \in Proc : id \notin H[q] THEN 1 ELSE 0)
  BY <1>4, <1>10
<1> HIDE DEF v
<1> QED BY <1>1, <1>2, <1>6, <1>7, <1>8, <1>10, <1>11, OnlyValue

LEMMA FailsInv ==
  ASSUME EventsInv, NEW p \in Proc, NEW id \in Given, Fails(p, id),
         UNCHANGED <<newEventId, created, device>>
  PROVE  EventsInv'
<1>1. id \in Id
  BY GivenIds DEF EventsInv, EventsTypeOK
<1>2. /\ state' \in [Proc -> {"pActive", "pWaitRead", "pDead"}] /\ wanted' \in [Proc -> Id]
      /\ ready' \in BOOLEAN
      /\ \A q \in Proc : state'[q] = "pWaitRead" => wanted'[q] \in Given
  BY <1>1 DEF Fails, EventsInv, EventsTypeOK, IdsMade, device
<1> QED BY <1>2, OnlyStates DEF Fails, device

\* Who signals a lock that is there is the one who has it.
LEMMA EvSignlInv ==
  ASSUME EventsInv, NEW p \in Proc, NEW id \in Given, EvSignl(p, id)
  PROVE  EventsInv'
<1> DEFINE k == First(WithId(id))
           H == [holds EXCEPT ![p] = @ \ {id}]
           v == events[k].value + events[k].sInc
<1>1. /\ holds' = H /\ UNCHANGED <<newEventId, created, state, wanted, device>>
      /\ events' = Signalled(id)
      /\ id \in holds[p] \/ (IsGate(id) /\ events[k].value < MaxValue)
  BY DEF EvSignl
<1>2. id # 0 /\ id \in Id /\ holds \in [Proc -> SUBSET Id]
  BY GivenIds DEF EventsInv, EventsTypeOK
<1>3. H \in [Proc -> SUBSET Id] /\ \A q \in Proc : H[q] = IF q = p THEN holds[q] \ {id}
                                                         ELSE holds[q]
  BY <1>2
<1>4. \A q, r \in Proc : q # r => holds[q] \cap holds[r] = {}
  BY DEF EventsInv, LockExclusive
<1> HIDE DEF H
<1>5. /\ state' \in [Proc -> {"pActive", "pWaitRead", "pDead"}] /\ wanted' \in [Proc -> Id]
      /\ \A q \in Proc : state'[q] = "pWaitRead" => wanted'[q] \in Given
  BY <1>1 DEF EventsInv, EventsTypeOK, IdsMade
<1>6. CASE WithId(id) # {}
  <2>1. k \in Slots /\ events[k].id = id
    BY <1>6, FoundById
  <2>2. UsedRight(k) /\ events[k] \in EventType
    BY <2>1 DEF EventsInv, Uses, EventsTypeOK
  <2>3. events' = [events EXCEPT ![k].value = v]
    BY <1>1, <1>6 DEF Signalled
  <2>4. events[k].wInc \in {-1, 0} /\ events[k].sInc = 1 /\ events[k].value \in 0 .. MaxValue
    BY <1>2, <2>1, <2>2, EntryFields DEF UsedRight
  <2>5. IsGate(id) => events[k].wInc = 0
    BY <1>2, <2>1 DEF IsGate, WithId, EventsInv, OneEventEach
  <2>6. events[k].wInc = -1 => id \in holds[p] /\ events[k].value = 0
    BY <1>1, <1>2, <2>1, <2>2, <2>5 DEF UsedRight, Holders
  <2>7. events[k].wInc = 0 => events[k].value < MaxValue /\ \A q \in Proc : id \notin holds[q]
    BY <1>1, <1>2, <2>1, <2>2 DEF UsedRight, Holders
  <2> HIDE DEF k
  <2>8. v \in 0 .. MaxValue
    BY <2>4, <2>6, <2>7, EventsAssumption
  <2>9. /\ \A q \in Proc, i \in Id : i # id => (i \in H[q] <=> i \in holds[q])
        /\ \A q, r \in Proc : q # r => id \notin H[q] \cap H[r]
        /\ events[k].wInc = -1 => \A q \in Proc : id \notin H[q]
        /\ events[k].wInc = 0 => \A q \in Proc : id \notin H[q]
    BY <1>3, <1>4, <2>6, <2>7
  <2>10. events[k].wInc = -1 => v = (IF \A q \in Proc : id \notin H[q] THEN 1 ELSE 0)
    BY <2>4, <2>6, <2>9
  <2> HIDE DEF v
  <2> QED BY <1>1, <1>2, <1>3, <1>5, <2>1, <2>3, <2>8, <2>9, <2>10, OnlyValue
<1>7. CASE WithId(id) = {}
  <2>1. events' = events
    BY <1>1, <1>7 DEF Signalled
  <2>2. EventsTypeOK'
    BY <1>1, <1>3, <1>5, <2>1 DEF EventsInv, EventsTypeOK, device
  <2>3. IdsMade'
    BY <1>1, <1>3, <1>5, <2>1 DEF EventsInv, IdsMade, Given, device
  <2>4. OneEventEach' /\ LockExclusive'
    BY <1>1, <1>3, <2>1 DEF EventsInv, OneEventEach, LockExclusive
  <2>5. ASSUME NEW j \in Slots PROVE UsedRight(j)'
    <3>1. UsedRight(j) /\ events[j].id # id
      BY <1>7 DEF EventsInv, Uses, WithId
    <3>2. {q \in Proc : events[j].id \in H[q]} = Holders(events[j].id)
      BY <1>3, <3>1 DEF Holders
    <3> QED BY <1>1, <2>1, <3>1, <3>2 DEF UsedRight, Holders, device
  <2>6. Uses'
    BY <2>5 DEF Uses
  <2> QED BY <2>2, <2>3, <2>4, <2>6 DEF EventsInv
<1> QED BY <1>6, <1>7

\* A device sets gates only.
LEMMA SetEventInv ==
  ASSUME EventsInv, NEW p \in Proc, NEW id \in Given, SetEvent(p, id)
  PROVE  EventsInv'
<1>1. id \in Id /\ set_evId' = id /\ IsGate(id)
      /\ UNCHANGED <<events, newEventId, created, state, wanted, holds, ready>>
  BY GivenIds DEF SetEvent, EventsInv, EventsTypeOK
<1>2. EventsTypeOK'
  BY <1>1 DEF EventsInv, EventsTypeOK
<1>3. IdsMade'
  BY <1>1 DEF EventsInv, IdsMade, Given
<1>4. OneEventEach' /\ LockExclusive'
  BY <1>1 DEF EventsInv, OneEventEach, LockExclusive
<1>5. ASSUME NEW j \in Slots PROVE UsedRight(j)'
  <2>1. UsedRight(j) /\ (events[j].id # 0 /\ events[j].id = id => events[j].wInc = 0)
    BY <1>1 DEF EventsInv, Uses, OneEventEach, IsGate, WithId
  <2> QED BY <1>1, <2>1 DEF UsedRight, Holders
<1>6. Uses'
  BY <1>5 DEF Uses
<1> QED BY <1>2, <1>3, <1>4, <1>6 DEF EventsInv

LEMMA ReadInv ==
  ASSUME EventsInv, NEW p \in Proc, Read(p)
  PROVE  EventsInv'
<1> DEFINE k == First(WithId(set_evId))
<1>1. UNCHANGED <<newEventId, created, state, wanted, holds, set_evId>> /\ ready' = FALSE
  BY DEF Read
<1>2. CASE set_evId = 0 \/ WithId(set_evId) = {}
  <2>1. events' = events
    BY <1>2 DEF Read
  <2> QED BY <1>1, <2>1, OnlyStates DEF EventsInv, EventsTypeOK, IdsMade
<1>3. CASE ~(set_evId = 0 \/ WithId(set_evId) = {})
  <2>1. k \in Slots /\ events[k].id = set_evId /\ set_evId # 0
    BY <1>3, FoundById
  <2>2. UsedRight(k) /\ events \in [Slots -> EventType] /\ events[k] \in EventType
    BY <2>1 DEF EventsInv, Uses, EventsTypeOK
  <2>3. events' = [events EXCEPT ![k].value = 1] /\ 1 \in 0 .. MaxValue
    BY <1>3, EventsAssumption DEF Read
  <2> HIDE DEF k
  <2>4. /\ events' \in [Slots -> EventType]
        /\ \A j \in Slots : /\ events'[j].id = events[j].id
                            /\ events'[j].name = events[j].name
                            /\ events'[j].wInc = events[j].wInc
                            /\ events'[j].sInc = events[j].sInc
                            /\ events'[j].value = IF j = k THEN 1 ELSE events[j].value
    BY <2>1, <2>2, <2>3, SetValue
  <2>5. EventsTypeOK'
    BY <1>1, <2>4 DEF EventsInv, EventsTypeOK
  <2>6. IdsMade'
    BY <1>1, <2>4 DEF EventsInv, IdsMade, Given
  <2>7. OneEventEach' /\ LockExclusive'
    BY <1>1, <2>4 DEF EventsInv, OneEventEach, LockExclusive
  <2>8. ASSUME NEW j \in Slots PROVE UsedRight(j)'
    <3>1. UsedRight(j) /\ events[k].wInc # -1
      BY <2>1, <2>2 DEF EventsInv, Uses, UsedRight
    <3> QED BY <1>1, <2>4, <3>1 DEF UsedRight, Holders
  <2>9. Uses'
    BY <2>8 DEF Uses
  <2> QED BY <2>5, <2>6, <2>7, <2>9 DEF EventsInv
<1> QED BY <1>2, <1>3

LEMMA ExitInv ==
  ASSUME EventsInv, NEW p \in Proc, Exit(p)
  PROVE  EventsInv'
<1>1. 0 \in Id
  BY EventsAssumption DEF Id
<1>2. /\ state' \in [Proc -> {"pActive", "pWaitRead", "pDead"}] /\ wanted' \in [Proc -> Id]
      /\ ready' \in BOOLEAN
      /\ \A q \in Proc : state'[q] = "pWaitRead" => wanted'[q] \in Given
  BY <1>1 DEF Exit, EventsInv, EventsTypeOK, IdsMade, device
<1> QED BY <1>2, OnlyStates DEF Exit, device

LEMMA NextInv ==
  ASSUME EventsInv, [Next]_vars PROVE EventsInv'
<1>1. ASSUME NEW p \in Proc, NEW id \in Given, EvWait(p, id) PROVE EventsInv'
  BY <1>1, PassesInv, FailsInv DEF EvWait
<1>2. ASSUME NEW p \in Proc, EvWaitAgain(p) PROVE EventsInv'
  <2>1. wanted[p] \in Given
    BY <1>2 DEF EvWaitAgain, EventsInv, IdsMade
  <2> QED BY <1>2, <2>1, PassesInv, FailsInv DEF EvWaitAgain
<1>3. ASSUME DataIn PROVE EventsInv'
  BY <1>3, OnlyStates DEF DataIn, EventsInv, EventsTypeOK, IdsMade
<1>4. ASSUME UNCHANGED vars PROVE EventsInv'
  BY <1>4, OnlyStates DEF vars, device, EventsInv, EventsTypeOK, IdsMade
<1> QED BY <1>1, <1>2, <1>3, <1>4, EvCreatInv, EvLinkInv, EvUnLnkInv, EvDeletInv, EvSignlInv,
           SetEventInv, ReadInv, ExitInv DEF Next

\* Every variable keeps its type in all behaviours (link counts, values, ids).
THEOREM EventsTypeCorrect == Spec => []EventsTypeOK
<1>1. EventsInv => EventsTypeOK
  BY DEF EventsInv
<1> QED BY <1>1, InitInv, NextInv, PTL DEF Spec

\* No two living events share their id or their name.
THEOREM OneEvent == Spec => []OneEventEach
<1>1. EventsInv => OneEventEach
  BY DEF EventsInv
<1> QED BY <1>1, InitInv, NextInv, PTL DEF Spec

\* No lock is held by two processes, whatever is made, deleted and waited for meanwhile.
THEOREM LocksExclude == Spec => []LockExclusive
<1>1. EventsInv => LockExclusive
  BY DEF EventsInv
<1> QED BY <1>1, InitInv, NextInv, PTL DEF Spec

-----------------------------------------------------------------------------
(* The events are the locks of module Locks                                *)

Taken == [i \in Id |-> {p \in Proc : i \in holds[p]}]

\* Steps that change neither the ids in the table nor who holds what are not seen.
LEMMA NotSeen ==
  ASSUME EventsInv, created' = created, holds' = holds,
         \A j \in Slots : events'[j].id = events[j].id
  PROVE  UNCHANGED Abstract!vars
<1>1. Live' = Live /\ Given' = Given
  BY DEF Live, Given
<1> QED BY <1>1 DEF Abstract!vars

\* Who holds what is changed for one event that one process takes or gives back.
LEMMA TakenOrGiven ==
  ASSUME EventsInv, NEW p \in Proc, NEW id \in Given, created' = created,
         \A j \in Slots : events'[j].id = events[j].id,
         \/ holds' = [holds EXCEPT ![p] = @ \cup {id}] /\ Holders(id) = {} /\ id \in Live
         \/ holds' = [holds EXCEPT ![p] = @ \ {id}] /\ id \in holds[p]
  PROVE  Abstract!Next
<1>1. Live' = Live /\ Given' = Given /\ id \in Id
  BY GivenIds DEF Live, Given, EventsInv, EventsTypeOK
<1>2. holds \in [Proc -> SUBSET Id] /\ \A q, r \in Proc : q # r => holds[q] \cap holds[r] = {}
  BY DEF EventsInv, EventsTypeOK, LockExclusive
<1>3. CASE holds' = [holds EXCEPT ![p] = @ \cup {id}] /\ Holders(id) = {} /\ id \in Live
  <2>1. Taken[id] = {}
    BY <1>1, <1>3 DEF Taken, Holders
  <2>2. \A i \in Id : Taken'[i] = IF i = id THEN {p} ELSE Taken[i]
    BY <1>2, <1>3 DEF Taken, Holders
  <2>3. Taken' = [Taken EXCEPT ![id] = {p}]
    BY <2>2 DEF Taken
  <2>4. Abstract!Take(p, id)
    BY <1>1, <1>3, <2>1, <2>3 DEF Abstract!Take, Taken
  <2> QED BY <1>1, <2>4 DEF Abstract!Next
<1>4. CASE holds' = [holds EXCEPT ![p] = @ \ {id}] /\ id \in holds[p]
  <2>1. p \in Taken[id]
    BY <1>1, <1>4 DEF Taken
  <2>2. \A i \in Id : Taken'[i] = IF i = id THEN Taken[i] \ {p} ELSE Taken[i]
    BY <1>2, <1>4 DEF Taken
  <2>3. Taken' = [Taken EXCEPT ![id] = @ \ {p}]
    BY <2>2 DEF Taken
  <2>4. Abstract!GiveBack(p, id)
    BY <1>1, <2>1, <2>3 DEF Abstract!GiveBack, Taken
  <2> QED BY <1>1, <2>4 DEF Abstract!Next
<1> QED BY <1>3, <1>4

LEMMA EvCreatMakes ==
  ASSUME EventsInv, NEW p \in Proc, NEW name \in Name, NEW use \in {Lock, Gate},
         EvCreat(p, name, use)
  PROVE  Abstract!Next
<1> DEFINE k == First(WithId(0))
           i == newEventId'
<1>1. /\ k \in Slots /\ events[k].id = 0
      /\ i = IdAt[created + 1] /\ i \in Id \ {0} /\ i \notin Given
  BY FoundById, NewId DEF EvCreat
<1>2. /\ \A j \in Slots : events'[j].id = IF j = k THEN i ELSE events[j].id
      /\ created' = created + 1 /\ holds' = holds /\ created \in 0 .. MaxCreat
  BY <1>1 DEF EvCreat, EventsInv, EventsTypeOK
<1> HIDE DEF k, i
<1>3. Given' = Given \cup {i}
  <2>1. 1 .. created' = (1 .. created) \cup {created + 1}
    BY <1>2, EventsAssumption
  <2> QED BY <1>1, <1>2, <2>1 DEF Given
<1>4. Live' = Live \cup {i}
  BY <1>1, <1>2 DEF Live
<1>5. Live \subseteq Given
  BY DEF EventsInv, IdsMade, Live
<1>6. Abstract!Make(i)
  BY <1>1, <1>2, <1>3, <1>4, <1>5 DEF Abstract!Make
<1> QED BY <1>1, <1>6 DEF Abstract!Next

LEMMA EvDeletDoesAway ==
  ASSUME EventsInv, NEW p \in Proc, NEW name \in Name, EvDelet(p, name)
  PROVE  Abstract!Next
<1> DEFINE k == First(Named(name))
           i == events[k].id
<1>1. k \in Slots /\ i # 0 /\ events' = [events EXCEPT ![k].id = 0]
  BY FoundByName DEF EvDelet
<1>2. created' = created /\ holds' = holds
  BY DEF EvDelet
<1>3. 0 \in Id /\ events \in [Slots -> EventType] /\ i \in Id
  BY <1>1, EntryFields, EventsAssumption DEF EventsInv, EventsTypeOK, Id
<1> HIDE DEF k
<1>4. \A j \in Slots : events'[j].id = IF j = k THEN 0 ELSE events[j].id
  BY <1>1, <1>3, SetId
<1>5. Live' = Live \ {i} /\ i \in Live /\ Live \subseteq Given
  BY <1>1, <1>4 DEF Live, EventsInv, OneEventEach, IdsMade
<1>6. Given' = Given
  BY <1>2 DEF Given
<1>7. Abstract!DoAway(i)
  BY <1>2, <1>5, <1>6 DEF Abstract!DoAway
<1> QED BY <1>3, <1>7 DEF Abstract!Next

\* A wait that succeeds takes the lock, or is not seen at a gate.
LEMMA PassesTakes ==
  ASSUME EventsInv, NEW p \in Proc, NEW id \in Given, Passes(p, id),
         UNCHANGED <<newEventId, created, device>>
  PROVE  Abstract!Next \/ UNCHANGED Abstract!vars
<1> DEFINE k == First(WithId(id))
           v == ValueNow(id) + events[k].wInc
<1>1. k \in Slots /\ events[k].id = id /\ id # 0
  BY FoundById, GivenIds DEF Passes, EventsInv, EventsTypeOK
<1>2. /\ events' = [events EXCEPT ![k].value = v]
      /\ holds' = [holds EXCEPT ![p] = IF events[k].wInc = -1 THEN @ \cup {id} ELSE @]
      /\ InRange(ValueNow(id))
  BY DEF Passes
<1>3. UsedRight(k) /\ events \in [Slots -> EventType] /\ holds \in [Proc -> SUBSET Id]
  BY <1>1 DEF EventsInv, Uses, EventsTypeOK
<1>4. \A j \in Slots : events'[j].id = events[j].id
  <2> HIDE DEF k, v
  <2> QED BY <1>2, <1>3
<1>5. CASE events[k].wInc = -1
  <2>1. Holders(id) = {}
    BY <1>1, <1>2, <1>3, <1>5 DEF UsedRight, ValueNow, InRange
  <2>2. id \in Live
    BY <1>1 DEF Live
  <2> QED BY <1>2, <1>4, <1>5, <2>1, <2>2, TakenOrGiven
<1>6. CASE events[k].wInc # -1
  BY <1>2, <1>3, <1>4, <1>6, NotSeen
<1> QED BY <1>5, <1>6

LEMMA FailsNotSeen ==
  ASSUME EventsInv, NEW p \in Proc, NEW id \in Given, Fails(p, id),
         UNCHANGED <<newEventId, created, device>>
  PROVE  UNCHANGED Abstract!vars
BY NotSeen DEF Fails

LEMMA EvSignlGivesBack ==
  ASSUME EventsInv, NEW p \in Proc, NEW id \in Given, EvSignl(p, id)
  PROVE  Abstract!Next \/ UNCHANGED Abstract!vars
<1>1. /\ holds' = [holds EXCEPT ![p] = @ \ {id}] /\ created' = created
      /\ events' = Signalled(id) /\ holds \in [Proc -> SUBSET Id]
      /\ events \in [Slots -> EventType]
  BY DEF EvSignl, EventsInv, EventsTypeOK
<1>2. \A j \in Slots : events'[j].id = events[j].id
  <2> DEFINE k == First(WithId(id))
  <2> HIDE DEF k
  <2>1. CASE WithId(id) = {}
    BY <1>1, <2>1 DEF Signalled
  <2>2. CASE WithId(id) # {}
    BY <1>1, <2>2 DEF Signalled, k
  <2> QED BY <2>1, <2>2
<1>3. CASE id \in holds[p]
  BY <1>1, <1>2, <1>3, TakenOrGiven
<1>4. CASE id \notin holds[p]
  BY <1>1, <1>2, <1>4, NotSeen
<1> QED BY <1>3, <1>4

\* Counting links and setting a value leave the ids alone.
LEMMA IdsStay ==
  ASSUME EventsInv
  PROVE  /\ \A p \in Proc, name \in Name : EvLink(p, name) => UNCHANGED Abstract!vars
         /\ \A p \in Proc, id \in Given : EvUnLnk(p, id) => UNCHANGED Abstract!vars
         /\ \A p \in Proc : Read(p) => UNCHANGED Abstract!vars
<1>1. events \in [Slots -> EventType]
  BY DEF EventsInv, EventsTypeOK
<1>2. ASSUME NEW p \in Proc, NEW name \in Name, EvLink(p, name)
      PROVE  UNCHANGED Abstract!vars
  <2> DEFINE k == First(Named(name))
             n == OneMore(events[k].e_linkcount)
  <2>1. events' = [events EXCEPT ![k].e_linkcount = n] /\ created' = created /\ holds' = holds
    BY <1>2 DEF EvLink
  <2> HIDE DEF k, n
  <2>2. \A j \in Slots : events'[j].id = events[j].id
    BY <1>1, <2>1
  <2> QED BY <2>1, <2>2, NotSeen
<1>3. ASSUME NEW p \in Proc, NEW id \in Given, EvUnLnk(p, id)
      PROVE  UNCHANGED Abstract!vars
  <2> DEFINE k == First(WithId(id))
             n == OneLess(events[k].e_linkcount)
  <2>1. events' = [events EXCEPT ![k].e_linkcount = n] /\ created' = created /\ holds' = holds
    BY <1>3 DEF EvUnLnk
  <2> HIDE DEF k, n
  <2>2. \A j \in Slots : events'[j].id = events[j].id
    BY <1>1, <2>1
  <2> QED BY <2>1, <2>2, NotSeen
<1>4. ASSUME NEW p \in Proc, Read(p) PROVE UNCHANGED Abstract!vars
  <2> DEFINE k == First(WithId(set_evId))
             v == 1
  <2>1. /\ events' = events \/ events' = [events EXCEPT ![k].value = v]
        /\ created' = created /\ holds' = holds
    BY <1>4 DEF Read
  <2> HIDE DEF k, v
  <2>2. ASSUME events' = [events EXCEPT ![k].value = v]
        PROVE  \A j \in Slots : events'[j].id = events[j].id
    BY <1>1, <2>2
  <2> QED BY <2>1, <2>2, NotSeen
<1> QED BY <1>2, <1>3, <1>4

\* Every step of the events is a step of the locks or is not seen there.
LEMMA StepRefines ==
  ASSUME EventsInv, [Next]_vars
  PROVE  Abstract!Next \/ UNCHANGED Abstract!vars
<1>1. ASSUME NEW p \in Proc, NEW id \in Given, EvWait(p, id)
      PROVE  Abstract!Next \/ UNCHANGED Abstract!vars
  BY <1>1, PassesTakes, FailsNotSeen DEF EvWait
<1>2. ASSUME NEW p \in Proc, EvWaitAgain(p) PROVE Abstract!Next \/ UNCHANGED Abstract!vars
  <2>1. wanted[p] \in Given
    BY <1>2 DEF EvWaitAgain, EventsInv, IdsMade
  <2> QED BY <1>2, <2>1, PassesTakes, FailsNotSeen DEF EvWaitAgain
<1>3. ASSUME NEW p \in Proc, NEW id \in Given, SetEvent(p, id) PROVE UNCHANGED Abstract!vars
  BY <1>3, NotSeen DEF SetEvent
<1>4. ASSUME NEW p \in Proc, Exit(p) PROVE UNCHANGED Abstract!vars
  BY <1>4, NotSeen DEF Exit
<1>5. ASSUME DataIn PROVE UNCHANGED Abstract!vars
  BY <1>5, NotSeen DEF DataIn
<1>6. ASSUME UNCHANGED vars PROVE UNCHANGED Abstract!vars
  BY <1>6, NotSeen DEF vars
<1> QED BY <1>1, <1>2, <1>3, <1>4, <1>5, <1>6, IdsStay, EvCreatMakes, EvDeletDoesAway,
           EvSignlGivesBack DEF Next

\* Events used as locks are locks: each has an id of its own and is taken by one process
\* at a time, for any number of processes, names, slots and events.
THEOREM EventsAreLocks == Spec => LocksImplemented
<1>1. Init => Abstract!Init
  <2>1. ASSUME Init PROVE Live = {} /\ Given = {}
    <3>1. \A k \in Slots : events[k].id = 0
      BY <2>1 DEF Init, FreeEvent
    <3>2. 1 .. created = {}
      BY <2>1 DEF Init
    <3> QED BY <3>1, <3>2 DEF Live, Given
  <2> QED BY <2>1 DEF Init, Abstract!Init
<1>2. EventsInv /\ [Next]_vars => [Abstract!Next]_(Abstract!vars)
  BY StepRefines
<1> QED BY <1>1, <1>2, InitInv, NextInv, PTL DEF Spec, LocksImplemented, Abstract!Spec
==============================================================================
