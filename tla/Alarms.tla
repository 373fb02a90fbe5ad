-------------------------------- MODULE Alarms --------------------------------
(***************************************************************************)
(* The alarms of OS9exec (alarms.c and the alarm handling of the main      *)
(* loop): F$Alarm makes and deletes them, the main loop looks at the first *)
(* of the queue after each system call, and the end of a process takes its *)
(* alarms away.                                                            *)
(*                                                                         *)
(* An alarm state a is a record of the C globals:                          *)
(*   alarms  alarms[]; an entry is free when its pid is 0                  *)
(*   queue   alarm_queue[], the entries in use in the order they are due   *)
(*   ids     alarms_all[0 .. alarms_curr-1]; id i of the code is entry     *)
(*           i + 1 here, and NoAlarm stands for NULL                       *)
(* The array alarm_queue[] never fills, as there are fewer ids than        *)
(* entries: it is a sequence here.  Process management is abstracted to    *)
(* the set of processes that are neither pUnused nor pDead.                *)
(***************************************************************************)
EXTENDS Naturals, Sequences, FiniteSets, FiniteSetsExt, SequencesExt

CONSTANTS MAXALARMS,        \* size of alarms[]; 512
          alarms_capacity,  \* size of alarms_all[]; 255
          WIDTH,            \* 2^32: ticks are uint32_t
          SecsPerDay, TICKS_PER_SEC,
          Processes,        \* the process ids
          BootTime,         \* the host's clock at start-up, in ticks
          MaxClock,         \* bound: the clock stops here
          Ticks, Dates, Times, Codes   \* what programs pass to F$Alarm

\* Times of day are times of a day; alarms_all is smaller than alarms[].
ASSUME AlarmsAssumption ==
  /\ alarms_capacity \in Nat \ {0} /\ MAXALARMS \in Nat /\ alarms_capacity < MAXALARMS
  /\ SecsPerDay \in Nat \ {0} /\ TICKS_PER_SEC \in Nat \ {0}
  /\ MaxClock \in Nat /\ BootTime \in Nat /\ WIDTH \in Nat /\ MaxClock < WIDTH
  /\ Processes \subseteq Nat \ {0} /\ Processes # {}
  /\ Ticks \subseteq 0 .. WIDTH - 1 /\ Dates \subseteq Nat
  /\ Times \subseteq 0 .. SecsPerDay - 1 /\ Codes \subseteq Nat /\ Codes # {}

VARIABLES al,      \* the alarm state
          clock,   \* GetSystemTick()
          live,    \* the processes that run
          pc       \* where the main loop is

vars == <<al, clock, live, pc>>

S_Kill == 0
Entries == 0 .. MAXALARMS - 1
NoAlarm == MAXALARMS

\* alarm_typ, and in promised the date the program asked for, in ticks; 0 if none
AlarmRecord == [pid : Processes \cup {0}, signal : Codes, ticks : 0 .. WIDTH - 1,
                due : 0 .. WIDTH - 1, cyclic : BOOLEAN, promised : Nat]
FreeAlarm == [pid |-> 0, signal |-> CHOOSE c \in Codes : TRUE, ticks |-> 0,
              due |-> 0, cyclic |-> FALSE, promised |-> 0]
AlarmState == [alarms : [Entries -> AlarmRecord], queue : Seq(Entries),
               ids : Seq(Entries \cup {NoAlarm})]

Queued(a) == ToSet(a.queue)
InUse(a) == {s \in Entries : a.alarms[s].pid # 0}
IdsOf(a, s) == {i \in DOMAIN a.ids : a.ids[i] = s}

-----------------------------------------------------------------------------
(* A_Insert looks from the end for the first alarm that is not due later,  *)
(* so that alarms for the same moment stay in the order they were made.    *)
InsertBeforeEqual(a, s) ==                       \* mutant: > instead of >=
  LET before == {k \in DOMAIN a.queue :
                   a.alarms[a.queue[k]].due < a.alarms[s].due}
  IN  [a EXCEPT !.queue = InsertAt(@, Max(before \cup {0}) + 1, s)]

A_Insert(a, s) ==
  LET before == {k \in DOMAIN a.queue :
                   a.alarms[a.queue[k]].due <= a.alarms[s].due}
  IN  [a EXCEPT !.queue = InsertAt(@, Max(before \cup {0}) + 1, s)]

(* A_Remove and alarm_clear_from_ptr.  What they leave in a free entry,    *)
(* A_Make overwrites.                                                      *)
Places(a, s) == {k \in DOMAIN a.queue : a.queue[k] = s}

A_RemoveKeepId(a, s) ==                          \* mutant: the id is not cleared
  IF Places(a, s) = {} THEN a
  ELSE [a EXCEPT !.alarms[s] = FreeAlarm, !.queue = RemoveAt(@, Min(Places(a, s)))]

A_Remove(a, s) ==
  IF Places(a, s) = {} THEN a
  ELSE [alarms |-> [a.alarms EXCEPT ![s] = FreeAlarm],
        queue  |-> RemoveAt(a.queue, Min(Places(a, s))),
        ids    |-> [i \in DOMAIN a.ids |-> IF a.ids[i] = s THEN NoAlarm ELSE a.ids[i]]]

(* A_Kill walks the queue upwards.  When it removes an alarm the next one  *)
(* moves to the place just looked at, and is not looked at itself.         *)
KillAt(a, k, p) ==
  IF k <= Len(a.queue) /\ a.alarms[a.queue[k]].pid = p THEN A_Remove(a, a.queue[k]) ELSE a

A_Kill(a, p) ==
  LET walk[k \in 0 .. Len(a.queue)] == IF k = 0 THEN a ELSE KillAt(walk[k - 1], k, p)
  IN  walk[Len(a.queue)]

\* uint32_t arithmetic
DueAfter(ticks) == (ticks + clock) % WIDTH

(* A_Make.  An id is never handed out twice and never given back.          *)
CanMakeForever(a) == InUse(a) # Entries          \* mutant: ids are not counted
CanMake(a) == Len(a.ids) < alarms_capacity /\ InUse(a) # Entries

A_Make(a, p, code, ticks, isCyclic, promise) ==
  LET s == Min(Entries \ InUse(a))
      r == [pid |-> p, signal |-> code, ticks |-> ticks,
            due |-> DueAfter(ticks), cyclic |-> isCyclic, promised |-> promise]
      b == A_Insert([a EXCEPT !.alarms[s] = r], s)
  IN  [b EXCEPT !.ids = Append(@, s)]

MakeOrFail(p, code, ticks, isCyclic, promise) ==
  IF CanMake(al)
  THEN al' = A_Make(al, p, code, ticks, isCyclic, promise)
  ELSE UNCHANGED al

-----------------------------------------------------------------------------
(* Get_Time: the host's clock in whole seconds, as date and time of day.   *)
Now == BootTime + clock
iTime == (Now \div TICKS_PER_SEC) % SecsPerDay
iDate == (Now \div TICKS_PER_SEC) \div SecsPerDay

(* The limit for dates: the ticks up to there fit into 32 bits.            *)
NoLimit(date) == TRUE                            \* mutant: mx is not looked at
InRange(date) ==
  date - iDate < ((WIDTH - 1 - clock) \div SecsPerDay) \div TICKS_PER_SEC

InThePast(date, time) == date < iDate \/ (date = iDate /\ time < iTime)

(* A system call of the current process, then the look at the queue.       *)
Call(p) == /\ pc = "call" /\ p \in live
           /\ pc' = "alarms" /\ UNCHANGED <<clock, live>>

\* A$Set and A$Cycle: nothing keeps ticks + clock below 2^32
Alarm_Set(p, code, ticks, isCyclic) ==
  /\ Call(p)
  /\ MakeOrFail(p, code, ticks, isCyclic, 0)

\* A$AtDate and A$AtJul, which differ in the form of the date
Alarm_AtDate(p, code, date, time) ==
  /\ Call(p)
  /\ IF InThePast(date, time) \/ ~InRange(date)
     THEN UNCHANGED al
     ELSE MakeOrFail(p, code,
                     (((date - iDate) * SecsPerDay + time - iTime) * TICKS_PER_SEC) % WIDTH,
                     FALSE, (date * SecsPerDay + time) * TICKS_PER_SEC)

\* A$Delete; anybody's alarm.  alarm_from_id also lets id = alarms_curr pass,
\* which names no alarm.
Alarm_Delete(p, id) ==
  /\ Call(p)
  /\ al' = IF id < Len(al.ids) /\ al.ids[id + 1] # NoAlarm
           THEN A_Remove(al, al.ids[id + 1]) ELSE al

\* any other system call that changes no alarm
OtherCall(p) == Call(p) /\ UNCHANGED al

\* kill_process, in a system call or when a pending signal is taken after it
Kill(p) ==
  /\ pc = "call" /\ p \in live
  /\ al' = A_Kill(al, p) /\ live' = live \ {p}
  /\ pc' \in {"call", "alarms"} /\ UNCHANGED clock

\* F$Fork: new_process gives a free slot to a new program
NewProcess(p) ==
  /\ pc = "call" /\ live # {} /\ p \notin live
  /\ live' = live \cup {p} /\ pc' = "alarms" /\ UNCHANGED <<al, clock>>

(* The alarm handling of the main loop: at most one alarm.  Only S_Kill    *)
(* acts at once (send_signal), other signals wait in the queue of signals; *)
(* for a process that is gone send_signal does nothing.                    *)
Due(a) == a.queue # <<>> /\ clock >= a.alarms[Head(a.queue)].due

KeepForTheDead(a, s, isLive) ==                  \* mutant: leaves when send_signal fails
  IF isLive THEN A_Remove(a, s) ELSE a
Finish(a, s, isLive) == A_Remove(a, s)

Renew(a, r) ==
  IF r.cyclic /\ CanMake(a)
  THEN A_Make(a, r.pid, r.signal, r.ticks, TRUE, 0)
  ELSE a

Fire ==
  /\ pc = "alarms" /\ Due(al)
  /\ LET s == Head(al.queue)
         r == al.alarms[s]
         killed == r.signal = S_Kill /\ r.pid \in live
         renewed == Renew(al, r)
     IN  /\ al' = Finish(IF killed THEN A_Kill(renewed, r.pid) ELSE renewed, s, r.pid \in live)
         /\ live' = IF killed THEN live \ {r.pid} ELSE live
  /\ pc' = "call" /\ UNCHANGED clock

NothingDue == /\ pc = "alarms" /\ ~Due(al)
              /\ pc' = "call" /\ UNCHANGED <<al, clock, live>>

Tick == clock < MaxClock /\ clock' = clock + 1 /\ UNCHANGED <<al, live, pc>>

-----------------------------------------------------------------------------
Init ==
  /\ al = [alarms |-> [s \in Entries |-> FreeAlarm], queue |-> <<>>, ids |-> <<>>]
  /\ clock = 0 /\ pc = "call"
  /\ live \in SUBSET Processes \ {{}}

SystemCall == \E p \in Processes :
  \/ \E code \in Codes, ticks \in Ticks, c \in BOOLEAN : Alarm_Set(p, code, ticks, c)
  \/ \E code \in Codes, date \in Dates, time \in Times : Alarm_AtDate(p, code, date, time)
  \/ \E id \in 0 .. alarms_capacity : Alarm_Delete(p, id)
  \/ OtherCall(p) \/ Kill(p) \/ NewProcess(p)

Next == SystemCall \/ Fire \/ NothingDue \/ Tick

Spec == Init /\ [][Next]_vars

(* The emulator comes round its loop, time passes, and while a program is   *)
(* left programs go on making calls: none stays in its own code for ever.  *)
LookAtQueue == pc = "alarms" /\ pc' = "call"
NextCall == pc = "call" /\ live # {} /\ pc' = "alarms"

FairSpec == Spec /\ WF_pc(LookAtQueue) /\ WF_pc(NextCall) /\ WF_vars(Tick)

-----------------------------------------------------------------------------
\* Entries and ids stay inside their arrays (A_GetNew, A_Make).
AlarmsTypeOK ==
  /\ al \in AlarmState /\ Len(al.queue) < MAXALARMS /\ Len(al.ids) <= alarms_capacity
  /\ clock \in 0 .. MaxClock /\ live \subseteq Processes /\ pc \in {"call", "alarms"}

\* The main loop looks at the first alarm only (os9exec_nt.c 1906): it must be
\* the first one due, and of those for the same moment the one made first,
\* whatever has been inserted, renewed, deleted and killed in between.
QueueOrder ==
  \A j, k \in DOMAIN al.queue :
     j < k => LET s == al.queue[j]
                  t == al.queue[k]
              IN  \/ al.alarms[s].due < al.alarms[t].due
                  \/ /\ al.alarms[s].due = al.alarms[t].due
                     /\ \A i \in IdsOf(al, s), h \in IdsOf(al, t) : i < h

\* alarms[], alarm_queue[] and alarms_all[] say the same: an entry in use is in
\* the queue once and has one id, a free one has neither.  Otherwise A$Delete
\* with an old id would take away somebody else's alarm.
OneRecordEach ==
  \A s \in Entries :
    LET places == {k \in DOMAIN al.queue : al.queue[k] = s}
        n == IF s \in InUse(al) THEN 1 ELSE 0
    IN  Cardinality(places) = n /\ Cardinality(IdsOf(al, s)) = n

\* "alarms in the past are not allowed": a date that Alarm_AtDate accepts is
\* its alarm is never due early, also when the 32 bits of the ticks are nearly used up.
NeverEarly ==
  \A s \in InUse(al) :
    al.alarms[s].promised # 0 /\ clock >= al.alarms[s].due => Now >= al.alarms[s].promised

\* An alarm that is due leaves the queue, though only one is looked at after
\* each call, and cyclic ones renew themselves in front of it.
AlarmFires ==
  \A s \in Entries :
    s \in Queued(al) /\ clock >= al.alarms[s].due ~> s \notin Queued(al) \/ live = {}
=============================================================================
