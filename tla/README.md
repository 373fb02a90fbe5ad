# OS9exec in TLA+

OS9exec runs OS-9/68k programs on another host: it emulates the 68k processor up
to the next trap and implements the system calls itself.  This directory holds a
model of its kernel in TLA+, the TLC runs that check it on small instances, and
proofs, checked by TLAPS, of what holds for every size of its tables.

All source paths below are relative to `src/Source/OS9exec_core/` unless they
begin with `src/`.

## 1. The system

### 1.1 Parts

| part | source | state it keeps | operations |
|---|---|---|---|
| process table | `procstuff.c`, `fcalls.c` | `procs[129]`: state, parent, `_cid`/`_sid`, masks, signals, registers | `new_process`, `AssignNewChild`, `kill_process`; F$Fork, F$Exit, F$Chain, F$Wait |
| signals | `procstuff.c`, `fcalls.c`, `utilstuff.c` | `sig_queue` (200 entries), `async_pending`, `async_area`; per process `_signal`, `masklevel`, `pwr_brk`, `way_to_icpt`, `icpt_pid`, `rtestate` | `send_signal`, `sig_mask`; F$Send, F$Icpt, F$RTE, F$SigMask, `KeyToBuffer` |
| main loop and scheduler | `os9exec_nt.c` (`os9exec_loop`), `procstuff.c` (`do_arbitrate`) | `currentpid`, `arbitrate`, locals `cpid`, `cwti`, `cwti_svd` and those of the search | one iteration: trap, call, signals, arbitration, switch |
| alarms | `alarms.c` | `alarms[]`, the sorted `alarm_queue` of 512 pointers, the id counter | A_Make, A_Insert, A_Remove, A_Kill, A$Delete |
| events | `events.c`, F$Event in `fcalls.c` | 512 events: name, id, value, increments, link count | link, unlink, create, delete, wait, signal, set |
| pipes, pseudo terminals | `pipefiles.c` | ring buffer, read and write positions, consumer count, bytes done per pipe | open, read, write, close; system tasks `pReadSysTask`, `pWriteSysTask` |
| paths | `filestuff.c`, `icalls.c` | system paths with link counts, 32 path numbers per process | open, create, dup, close, inheritance at fork |
| memory | `memstuff.c` | blocks per process, host/guest address table | F$SRqMem, F$SRtMem, `release_mem` |
| modules | `modstuff.c`, `vmod.c` | 1024 modules with link counts, the module directory | load, link, unlink, `release_module` |
| disk images (RBF) | `file_rbf.c` | per image the allocation map, FD sectors, `last_alloc`; per path its position, a copy of the FD and one buffered sector | `pRopen`, `pRread`, `pRwrite`, `pRseek`, `pRsetsz`, `pRclose`, `pRdelete`; `AllocateBlocks`, `ReleaseBlocks`, `DoAccess` |
| SCSI, host files, console, network, printer | `filescsi.c`, `fileaccess.c`, `consio.c`, `network.c`, `printer.c`, … | device tables, host handles | the other file managers behind the paths |
| internal commands, plug-ins | `intcommand.c`, `src/Source/NATIVE` | a thread table for utilities of the emulator | run inside of the emulator, with a nested main loop |
| processor | `os9_llm.c`, `src/Source/OS9AppEmu` | registers | run 68k code up to a trap |

`PROJECT.json` lists them all with what is modelled of each.

### 1.2 How they interact

There is one host thread.  `os9exec_loop` lets the current process run to its
next trap, has `exec_syscall` call the handler, looks at the first alarm, takes a
queued signal, and may call `do_arbitrate` for the next current process.  All
interaction is by shared C globals: a handler sets `currentpid` and
`arbitrate`; `send_signal` writes fields of the target *and* of the process
it is called from (`way_to_icpt`, `icpt_pid`), which the loop reads at the end
of the iteration; `kill_process` closes paths, releases memory and modules and
kills alarms of the process.  From outside come the host's keyboard and interrupt
key (`KeyToBuffer`, `CtrlC_Handler`), time (`GetSystemTick`) and the network
(polled while `do_arbitrate` looks at a sleeper).

A call that cannot finish does not block the thread.  It leaves the process in
`pWaitRead` (the trap is repeated whenever the process is given the CPU:
reads, F$Event) or `pSysTask` (a C function is called instead of 68k code:
pipes), in `pSleeping` or in `pWaiting`.

### 1.3 What is hard

* **Interleaving.**  A signal, a kill, an exit or an alarm comes between any two
  steps of another process, and while that one is waiting, reading, sleeping,
  masked or on its way to an intercept routine.
* **Stale state.**  `icpt_pid`, `way_to_icpt`, `pwr_brk`, `rtestate` and
  `saved_state` survive the delivery, and in the table even the process, that
  wrote them.
* **Ordering.**  A signal that cannot be delivered is queued, taken off, and
  queued again.  A writer gives sectors back while readers work on older copies of
  the FD.
* **State in the wrong place.**  How far a read of a pipe has come is kept with
  the pipe and not with the call; a path number keeps naming a table entry.
* **Protocol sequences.**  Children die in any order while they are being waited
  for; intercept routines make system calls; F$Sleep and F$Wait unmask signals
  as a side effect.
* **Liveness.**  `do_arbitrate` skips sleepers and blocked readers most of the
  time and must still come round to them.
* **Boundaries.**  Slot 1 is the kernel process, slot 0 stands for "nobody";
  the queue has a capacity; mask levels count.

### 1.4 What makes each part correct

* process table: a process has a live parent or none; the end of a process is
  reported exactly once or needs no report; the child list and the parent fields
  agree; who waits has a child, and will be served.
* signals: a masked process gets none; one interrupted in a read, wait or sleep
  returns to a state in which it goes on; the marks left on the way disappear.
* scheduler: what is current can run; a wait or sleep that is over is noticed.
* alarms: sorted, exactly one id and one place each, none of a dead process, none early.
* events: an id names one event; a waiter within its range gets on; link counts.
* pipes: bytes come out once, in order; end of file only without writers.
* paths, modules, memory: link counts equal the references; nothing in use is
  released; a path number names what it was opened for.
* disk images: every sector is free or belongs to one file; what is read was written
  to this file and this place; nothing but SS_Size shortens a file.

`PROJECT.json`, "hazards", places these at their lines.

## 2. Modules

| module | what it is | code |
|---|---|---|
| `ProcTable` | the kernel state `k` as a record and the functions that change it, as operators from state to state: `NewProcess`, `AssignNewChild`, `KillProcess`, `SendSignal`, `MaskOff/Up/Down`, … | `procstuff.c` 309–1028 |
| `Kernel` | the state machine: system calls, signals, scheduler, host; extends `ProcTable` | `os9exec_loop`, `do_arbitrate`, `fcalls.c` |
| `Lifecycle` | the abstract specification: fork, end, report | what `kill_process`, F$Fork and F$Wait promise |
| `KernelClaims` | what comments and a self-check of the source claim and the code does not do | quoted at each |
| `MCKernel`, `MCRbf` | for TLC: mixes of calls, fairness and liveness of the kernel; symmetry of names and paths | |
| `Alarms` | the alarms: `A_Insert`, `A_Remove`, `A_Kill`, `A_Make` as operators on an alarm state, the functions of F$Alarm and the alarm handling of the loop as actions | `alarms.c`, `os9exec_nt.c` 1905–1919 |
| `Locks` | abstract: what events with the increments -1 and +1 are used for | |
| `Events` | the table of events, F$Event, the event of a device path; refines `Locks` | `events.c`, `fcalls.c` 580–650, `filestuff.c` 1558–1591 |
| `Fifo` | abstract: a bounded queue of bytes between processes | |
| `Pipes` | one pipe as a ring, its reads and writes as system tasks, its paths; refines `Fifo` | `pipefiles.c` |
| `Files` | abstract: what a path number promises to a program | |
| `Paths` | both tables of paths, pseudo terminals, the RBF driver's own paths; refines `Files` | `filestuff.c`, `icalls.c`, `procstuff.c` 480–503 |
| `Modules` | the module directory and who owns which block of memory, with what fork, chain, exit and trap handlers do to them | `modstuff.c`, `memstuff.c` |
| `Space` | abstract: sectors that are free or belong to one file | |
| `Rbf` | one disk image: map, FDs, paths with their buffers; refines `Space` | `file_rbf.c` 2300–4017 |
| `Kernel_proofs` (with the lemmas about `ProcTable`), `Lifecycle_proofs`, `Alarms_proofs`, `Events_proofs`, `Pipes_proofs`, `Paths_proofs`, `Modules_proofs`, `Rbf_proofs` | theorems and their proofs | |

### 2.1 State

`os` is the record of the C globals the functions share:

| model | code |
|---|---|
| `os.proc[p].state`, `.parent`, `.sid`, `.cid` | `procs[p].state`, `pd._pid`, `pd._sid`, `pd._cid` |
| `.signal`, `.sigvec` | `pd._signal`; whether `pd._sigvec` is set |
| `.masklevel`, `.pwr_brk`, `.way_to_icpt`, `.icpt_pid`, `.icpt_signal` | the same |
| `.rtestate`, `.saved_state` | the same |
| `.wakeUpTick` | `wakeUpTick` compared with `GetSystemTick()`: due, later, never |
| `.pW_age` | the same, counting down to the next look at a sleeper or reader |
| `.code` | whether the process runs a program (the kernel process does not) |
| `os.currentpid`, `.arbitrate` | the same |
| `os.queue`, `.pending` | `sig_queue`, `async_pending` |

`phase` is the place in the loop; `cpid`, `cwti`, `cwti_svd` are the loop's
locals, `next` and `bsig` those of a broadcast, `scan` those of `do_arbitrate`.
What the model resets at the end of an iteration (`scan`, `cpid`) is out of
scope in the code.

### 2.2 Steps

| phase | actions | code |
|---|---|---|
| `call` | one action per system call (`F_Fork`, `F_Exit`, `F_Chain`, `F_Wait`, `F_Sleep`, `F_Yield`, `F_Send`, `F_Icpt`, `F_RTE`, `F_RTE_Astray`, `F_Sigmask`, `Read`, `Pipe`, `Other`), `Trap`, `TrapHandled`, `SysTask`, `Idle` | the trap, `exec_syscall`, the handler |
| `broadcast` | `F_SendAll`, `Broadcast`: one receiver per step | `send_signal` with pid 0 |
| `signals` | `TakeSignals` | the due alarm, `sig_mask`, the way to the intercept routine |
| `arbitrate` | `ArbWrap`, `ArbRunnable`, `ArbWaitRead`, `ArbSleeping`, `ArbNotRunnable`: one per process looked at | `do_arbitrate` |
| `switch` | `Switch` | the end of the iteration |
| any | `Tick`, `KeyToBuffer` | time, keyboard, interrupt key |

A handler is one step, with all it calls: `F_Exit` masks, takes a signal and
kills; `F_Wait` reaps the child and repairs the list.  The search of
`do_arbitrate` takes a step per candidate, since the host's keys and the
network come in between and signals are delivered inside of it.  A choice of the
68k program (which call, which signal, whether a fork finds its module, whether a
read finds data) is an input: `\E` over a small set or a Boolean.

A full `sig_queue` overwrites `signal[0]` with a pid, as the C arrays lie next to
each other (`Store`).

### 2.3 Alarms

`Alarms` is a machine of its own: of the processes it knows only which are
alive (`live`), and a program dies (`Kill`) or is started in a free slot
(`NewProcess`) at any time.  `al.alarms` is `alarms[]`, `al.queue` is
`alarm_queue[]` up to its first NULL, `al.ids` is `alarms_all[]` up to
`alarms_curr`; id *i* of the code is entry *i*+1.  `pc` alternates between a system
call and the look at the first alarm.  `A_Kill` is the loop of the code with its
index: `walk[k]` is what the loop makes of the alarms up to place `k`, `KillAt` its
body, which looks at what is *now* at that place.  `promised` is no variable of the code: it keeps the date that
A$AtDate or A$AtJul was called with.

What becomes of the signal is the other machine's: in `Kernel` it is one of those
that `TakeSignals` may send (`HostSignals`).

### 2.4 Events

`events` is `events[]`, `newEventId` the counter, `set_evId` and `ready` belong to one
device path that is to set an event when data comes in.  A wait that fails leaves
its process in `pWaitRead`; `EvWaitAgain` is the repetition of the whole call at one
of its turns.  Programs use events as locks (value 1, increments -1 and +1) or as
gates (0 and +1), the two ways the OS-9 manuals teach; what other increments would
mean is for the program to say.  `holds`, the locks a process has and did not
signal, is the program's knowledge and no state of the code; a signal for a lock
comes from who holds it.  The slot of an event that is deleted is free at once;
`IdsDiffer` is the assumption that ids do not come round, which with the code's
32-bit counter is so for more than 4 * 10^9 events.

### 2.5 Pipes

`buf`, `prp`, `pwp`, `bread`, `bwritten`, `consumers` are the fields of
`pipechan_typ`; `call[p]` is what process `p` waits for, with the bytes the call
has moved (`moved`, only for the properties).  `Write` and `Read` are the first
call of `pWriteSysTaskExe` and `pReadSysTaskExe`, `WriteTurn` and `ReadTurn` the
later ones by the main loop.  Pointers are cells of the ring and not
addresses; the copy loops are one step each, since nothing comes between
two bytes.  All paths to the pipe are one system path, so `links` only counts them.

### 2.6 Paths

`usrpaths`, `type`, `linkcount` are the fields of the two tables; `filled` says of
a pipe with a name that bytes are left in it (`pPclose` then returns an error and
the system path stays).  `id` and `opens` give every object a number of its own: with
them `Files` can say that a number still names *the same* object after its
system path was closed and opened anew.  `CloseErrors` allows the host to fail at
a close.

### 2.7 Modules and memory

`d` is the directory (`os9modules[]`: `base`, `linkcount`) together with the memory;
`pmem[p]` the list of blocks of a process.  A block is whole and has one content:
nothing, data, or a module with its name, since the directory finds a module by
the name that stands in its memory.  Each system call is one step, with the release
of everything it gives up on the way.  `linked` and `runs` keep what a program has
asked for.

### 2.8 Disk images

`disk.map` is the set of the bits that are set, `disk.fd` the FD sectors, `disk.data`
what is in the others: for each sector the name of a file and the place in it, so
that a misplaced sector shows.  A path is a record with the fields of `syspath_typ`
and `rbf_typ` the code uses.  `WriteRound` and `ReadRound` are one round of the
loop of `DoAccess`; `Access` calls of one or two sectors need at most two.
Positions are counted in sectors (the part of a sector is in the code's `offs`, and
only decides that a sector is read before it is written); a cluster is one sector.

## 3. Runs

Every run explores its full state space.

| run | instance | properties | shows |
|---|---|---|---|
| `family` | fork, exit, wait, yield, chain, faults, send and broadcast of kills; 3 programs | `ChildListOK`, `WaitingHasChild`, `Implements` | the table refines `Lifecycle`; the lists agree; 962 234 states |
| `signals` | fork, icpt, RTE (also astray), send, mask, wait, read; 2 programs; signals from keys, alarms and the network | `TypeOK`, `FamilyOK`, `PwrBrkOK`, `InterceptReturns`, `MaskHonoured` | queue, masks, broken reads, interrupted states and parents fit together; 1 750 750 states |
| `served` | fork, wait, yield, kill, timed sleep, waiting in a pipe; 3 programs; fair | `WaiterServed`, `SleeperWakes` | who waits or sleeps is served; 255 530 states |
| `alarms` | set, cycle, date, delete; 2 programs, 3 ids; fair | `AlarmsTypeOK`, `QueueOrder`, `OneRecordEach`, `NeverEarly`, `AlarmFires` | queue, entries and ids agree, dates are kept, what is due leaves the queue; 225 476 states |
| `events` | 3 processes, 2 names, 2 slots; fair | `EventsTypeOK`, `OneEventEach`, `LockExclusive`, `LocksImplemented`, `WaitersServed` | events are locks; who can go on does; 261 200 states |
| `pipes` | 2 processes, 4 cells; fair | `PipesTypeOK`, `CountsInTurn`, `NoPrematureEof`, `NoDanglingCall`, `PipeIsFifo`, `WaitersGoOn` | the ring is a queue, counts and end of file are right; 235 682 states |
| `paths` | 2 processes, 3 numbers, 4 system paths | `PathsTypeOK`, `LinkCounts`, `FilesImplemented` | counts are references, numbers keep their meaning; 296 406 states |
| `modules` | 2 processes, 2 entries, 5 blocks | `ModulesTypeOK`, `OwnedOnce`, `InUseStays`, `LinkedStays` | no block has two owners, nothing in use is released; 418 554 states |
| `rbf` | 2 paths, 2 files, 5 sectors | `RbfTypeOK`, `ReadsOwn`, `SpaceImplemented`, `NeverShrinks` | no sector is lost or given twice, nobody reads what is not his; 1 467 339 states |
| `resurrect`, `stuck`, `rbf_buffer` | | `FatalIsFatal`, `NeverStuck`, `BufferIsSector` | the disagreements of 3.2 |

**Bounds of the kernel.**  `MAXPROCESSES = 4` gives the kernel process and two
programs, `5` gives three (parent, child, and a grandchild or sibling, the smallest
tables in which an orphan, a wrong sibling link or a reused slot can be seen).
`MaxQueued` stops programs and host from *sending* when that many signals are queued;
one suffices for a signal that comes while another is queued, held or delivered.
`MaxMask` bounds nested masks.  `NewAge` is 30 in the code; 0 or 1 keep its case
distinction (not yet / due).  One signal code above `S_Wake` is enough where
codes are not compared; S_Kill (0) is used where death matters.

**Alarms.**  3 ids (`alarms_capacity`, 255 in the code) are enough for one alarm between
two others and for the ids to run out; `alarms[]` has one entry more, as in the code
it has more entries than there are ids.  A day has 2 seconds, a second one tick and
the counter counts to `WIDTH` = 16, so that dates just inside and just outside of
the limit `mx` can be asked for and `Ticks` contains 15, with which `ticks + clock`
wraps.  `MaxClock` stops the clock after 2 ticks; alarms are due by then, later, or
never.

**Events.**  `MaxCreat` = 2 events are made in all, enough for one that is deleted and
whose slot and name are used again while processes wait for it and hold it; with 3
processes two wait and one acts.  `MaxValue` is the highest value of a gate,
`MaxLinks` how far links are counted.

**Pipes.**  4 cells of which 2 stay free (`SAFETY`; 4098 and 2 in the code) let the
pointers wrap and make a call of 3 bytes wait for room.  `Mixed = {"read"}` lets two
reads wait together and keeps lines and writes to one at a time, as two readers
show what sharing `bread` does and the other combinations multiply the
states; `together` marks them.  One read may be cut short (`MaxCuts`), and 3 paths
(`MaxLinks`) allow a duplicate beside one path of each process.

**Paths.**  3 numbers are all standard paths; 4 system paths are the console, one other
that is always there (NIL or VMod), and 2 to be opened, so that tables run full, and
a closed one is opened again (`MaxOpens` = 2: two openings in all, or a pair).

**Modules.**  2 entries and 5 blocks: a program and another module, each with a
block, two data blocks and one to spare, so that both tables run full.  `MaxLinks`
bounds link counts.

**Rbf.**  5 sectors beside the system's, two of them allocated at a time (`sas`, 4 or 32
in the code), a map byte of 4 bits, FDs with 2 segments: the disk runs full with the
second file, and an FD before the disk. Calls are of 1 or 2 sectors, positions are the
beginning or the end of the file or where a call ends, `SetSize` only shortens (to
lengthen a file is to write), and one path at a time writes a file (see 5). `Buffered =
FALSE` forgets what a buffer holds once it is on the disk, which keeps the run apart
from the disagreement of `rbf_buffer`; nothing else in the model looks at a clean
buffer. The symmetry is sound: names and paths are only compared.

What the properties say, and what they would catch, is written above each of them at
the end of its module.  `CHECK_DEADLOCK FALSE` is used where programs may stop for
good: all processes have ended (`alarms`, `modules`, `events`), nothing is
left to open (`paths`), the bounds are used up (`rbf`).  The loop of `Kernel` either
goes on or is in phase `ended` (`Ended`), and a pipe can always be closed and
opened.

### 3.1 Fairness

`FairSpec` (in `MCKernel`) assumes

* `WF_vars(Loop)`, `WF_vars(SystemCall)`: the emulator is one loop, `for(;;)`;
  nothing in it waits for the host, and 68k code comes to its next trap;
* `WF_vars(Tick(p))`: time passes;
* `SF_vars(F_Yield)`: an assumption about the programs, not about the emulator.
  OS9exec is cooperative: arbitration happens only after calls that ask for
  it (`os9exec_nt.c` 2041), so a program that makes only other calls keeps the CPU
  for ever, and without this assumption both liveness properties fail for
  that reason.

`FairSpec` of `Alarms` assumes that time passes (`Tick`), that the loop goes on from
its look at the queue to the next call (`LookAtQueue`), and that programs, while
there are any, make system calls again and again (`NextCall`): the queue is
looked at only after a system call, so that a program that computes without one
holds up every alarm.  Both are stated on `pc` alone; every step of `Next` that
changes `pc` so is meant.

`FairSpec` of `Events` is `WF_vars(EvWaitAgain(p))` and that of `Pipes` is
`WF_vars(Turn(p))`, for each process: `do_arbitrate` comes round to every process
in `pWaitRead` and `pSysTask` (the run `served` shows as much of sleepers), and
the loop then repeats its call.  Nothing is assumed of what programs do.

### 3.2 Disagreements between the code and what it says of itself

Three have a run that expects the violation; TLC's trace is the story.

* `resurrect`.  A sleeper has no intercept routine.  `do_arbitrate` looks at it
  (`procstuff.c` 1328), takes the signal that is queued for it, and
  `send_signal` kills it: "has no icpt routine, so it will be killed".  A few
  lines on, its `wakeUpTick` is due and the same process is made active
  (1353).  It runs on without its paths, memory, module and children.
* `stuck`.  F$Fork makes the child current at once.  A signal for the parent that
  the same iteration of the loop takes is then sent from the child: `send_signal`
  writes `icpt_pid` at `procs[currentpid]`, but the loop reads it at the process that
  made the call (`os9exec_nt.c` 1944).  There it is 0 or what an earlier signal left.
  The loop goes over to that process and masks its signals; slot 0 can never be
  executed, and at a process that is masked the loop does not arbitrate, so it turns
  for ever, whereas "execution will continue in intercept routine" (`procstuff.c` 956).
* `rbf_buffer`.  A write of several whole sectors goes around the buffer of the path,
  but sets `rw_nr` to the last sector it wrote (`file_rbf.c` 3023).  The next
  access to that sector believes it is in `rw_sct`: a read returns the bytes of
  another sector, a write of a part of it puts them on the disk.

The following were found with TLC or met while modelling.  They are in the models,
or bounded away as said, and have no run of their own.

Signals and processes:

* `send_signal` writes `icpt_pid` at the *sender*.  A process that sent a signal once
  keeps that value; later, when it is on its way to an intercept routine itself,
  the end of the loop (`os9exec_nt.c` 2062) goes over to that stale process, which
  may have died: the check at 2011 would say "main loop: INTERNAL ERROR".
* F$Sleep (also with one tick) and F$Wait set the mask level to 0, in an intercept
  routine too; the next signal is then taken off the queue while `_signal` is set,
  and dropped in the branch that "should never be called".
* A key's signal for one sleeper is delivered while `do_arbitrate` was entered from
  another sleeper: that one, as the sender, gets `way_to_icpt`, and a stale
  `icpt_pid` turns the loop back to it.  It cannot run, and with `way_to_icpt` set
  the loop never arbitrates again: `NeverStuck` fails with sleepers in this way also.
* `S_Wake` queued for a blocked reader sets its `pwr_brk`.  If it is taken off the queue
  while that process is current, `send_signal` returns at once (a process does not
  wake itself), and `pwr_brk` stays without a signal: `PwrBrkOK` is claimed for programs
  that do not send `S_Wake`.
* A full queue keeps its length and overwrites the first signal (`procstuff.c` 780); a
  `pwr_brk` that belongs to that signal stays behind too.
* F$Send(1, 0) kills the kernel process; `new_process` begins its search at 1 in spite
  of the comment "start searching with nr 2" (`procstuff.c` 387), so the next
  program gets slot 1, which F$Wait and `do_arbitrate` skip.
* `sig_mask` takes the oldest signal out of the queue ("use it as a fifo", 1008), but
  inside of a system call `send_signal` puts it back at the end, and in the
  asynchronous area without `async_pending`, so that it waits for the next signal.
  Signals that are queued for a process that has died go to the next process with
  its number.

Alarms:

* `A_Kill` removes the alarm at index `k`, which moves the next one to `k`, and goes on
  with `k` + 1.  A program with two alarms in a row leaves one behind; it fires for
  the next program with that process id.
* Each renewal of a cyclic alarm takes a new id, and none of the 255 is ever given
  back: the next renewal fails, the loop does not look at the result ("renew it",
  `os9exec_nt.c` 1916) and removes the old alarm.  A program is never told the new
  id of a renewed alarm, so it cannot delete it.

Pipes, paths, events:

* Two readers that wait for one pipe share `bread`: one of them is told the bytes of
  both, or none (`CountsInTurn` says when the numbers are right).
* A reader that is interrupted or killed stays counted in `consumers`
  (`NoPrematureEof` excludes it by `cuts = 0`): later readers get an early end of file,
  and the name of the pipe cannot be deleted any more (E_SHARE).
* When the host fails at a close the system path is free all the same, and the
  number of the process keeps naming it and what is opened in its place: with
  `CloseErrors = TRUE` `FilesImplemented` is violated.
* The header of I$Close says "Standard paths (0..2) cannot be closed"; the
  code closes them like all others, except the last link to the console.
* A process that waits for an event that is deleted waits for ever: `evWait` has
  the same error for no event and for a value out of range.

Modules:

* With a file that holds a group of modules (`Followed`) the second entry gets the
  memory of the first, and releasing one releases the other; "groups are not yet
  supported" (`modstuff.c` 354).
* F$Fork of a module that is no program leaves the data block it has got, and, when
  there was no memory, the link; F$Link of a module of another type is an error, but
  its link stays.
* F$Chain to a module that is no program: `prepFork` gives the link back (`procstuff.c`
  1609), then `kill_process` unlinks `cp->mid`, which by now is the new module, once
  more.  A module that another process has linked is released under it, although
  `unlink_module` keeps what is "still used by other processes" (`modstuff.c` 1485).
  `LinkedStays` is claimed until that happens (`failed`).
* A program that is chained away with a link count of 1 is still entered as used when
  it is unlinked, so it is never released by that; the same holds for a trap
  handler that F$TLink removes.

Disk images:

* A write that finds the disk full sets the path back to where the call began
  (`file_rbf.c` 3049), although the file may be longer.  Closed there, the rest of
  the file is given back.  `spoilt` marks such files, and `ReadsOwn` and `NeverShrinks`
  except them.
* Two paths that write one file each write their own copy of the FD; the segments
  the other has got are lost to the file and stay taken in the map.

## 4. Proofs

The theorems of the kernel are checked by TLAPS for every `MAXPROCESSES > 2`, `MAXSIGNALS > 0`,
`NewAge`, and every choice of calls, signals and targets (`ProcTableAssumption`,
`KernelAssumption`).

* **`TypeCorrect`** (`Kernel_proofs`): `Spec => []TypeOK`.  Type correctness is
  index safety here: `currentpid`, `icpt_pid`, parents, children and the pids in
  the queue all index `procs[]`.  `TypeOK` is not inductive, since `do_arbitrate`
  ends a vain search with `currentpid = MAXPROCESSES`, which is no index;
  `TypeInv` adds that this is so only in the phases `switch` and `ended`.
* **`MasksHonoured`** (`Kernel_proofs`): `Spec => MaskHonoured`, with no other condition.
  `send_signal` has a dozen callers, and only `MustQueue` stands between a signal and
  a process that masks them.  The lemmas say of each function what it does to the
  signals of all processes: `send_signal` and `sig_mask` outside of the async area
  hand nobody a signal (`Hushed`; what is taken from the queue is queued again), and in
  it they hand none to those that mask signals (`Unheard`).  `sig_mask` does so
  only if the process it works for does not mask signals itself, for it sets that level
  to 0 first; the loop and `do_arbitrate` look before they call it.  A step is then a
  chain of such functions, from the state before it to the one after it (`Still`).
* **`FamilySafe`** (`Kernel_proofs`): `Spec => []FamilyOK` if `SleepTimes
  \subseteq {"never"}`.  The invariant needs much more than `FamilyOK`, because
  F$RTE and a blocked read *store states back*: if the stored state could be
  `pUnused`, the process would vanish with its children attached.  `FamilyInv`
  therefore has four parts: `Kin` (parents live, the dead have parents, a
  descriptor without a program has none), `Sound` (what F$RTE and a read restore
  is a running or reading state; programs sleep for ever), `NoKillQueued`
  (S_Kill is never in the queue, so that a signal taken inside of a system call
  ends nobody) and `HostAlone` (while the system's own process sleeps nobody
  knows it).  `ScanInv` adds what `do_arbitrate` looks at meanwhile: it has not
  taken that process for a sleeper whose time is up.
* **`ReturnSafe`**: `Spec => []InterceptReturns`, from the same invariant.
* **`WaitersHaveChildren`** (`WaitingHasChild`) and **`LifecycleImplemented`**
  (`Implements`), under the same condition.  For each function of `procstuff.c`
  a lemma says (`From`) that it keeps `FamilyInv`, that the processes it ends end
  *together*, as one `End` of `Lifecycle` with all that follows for parents and
  children (`EndedIn`), and that nobody begins to sleep or wait in it (`Calm`).
  Two such steps in a row are one such step, which is what makes a whole system
  call with the signals taken in it map to one step of `Lifecycle` or to none.
  A lemma per action then says what the action itself does beyond that: it
  forks, reports a dead child, or lets a process wait that has a child
  (`Lives`, `Stepped`).
* **`ChildrenListed`**: `Spec => []ChildListOK`, under the same condition.  `ChildListOK`
  speaks of `ChildList`, which walks along `_cid` and `_sid` step by step; the proof
  says instead what the walk must find.  `Listed`: for each process that lives, *some*
  finite sequence without repetitions (`ChainOf`) begins at its `cid`, goes on from each
  process to its `sid`, ends at 0 and holds exactly the processes that name it as
  their parent.  `ChainIsChildList` shows that the walk follows that sequence (the
  first place where they part would have a predecessor where they do not).
  A fork puts the child before the sequence (`ListedForked`), a report takes one process
  out of it, wherever it is (`ListedReaped`), and ends, signals and reads leave it
  alone, because the dead stay in the list until they are reported (`ListedKept`).
* **`BreaksBacked`**: `Spec /\ []Room => []PwrBrkOK` if `SleepTimes \subseteq {"never"}`
  and nobody sends `S_Wake`.  `Breaks(os, n)` says that there are at most `n` signals
  in the queue, none of them `S_Wake`, and that who lives with `pwr_brk` has one of them that
  breaks a read.  `sig_mask` breaks this in its middle, when it has taken a signal from
  the queue and not yet handed it over: `BreaksBut` excepts that one receiver, and
  `DeliverBreaks` and `EnqueueBreaks` close the gap again: a signal that is
  delivered clears `pwr_brk` and one that is not is queued once more.  A step queues one
  signal at most (`NextBreaks` leads from `n` to `n + 1`), so `Room`, that the queue is
  not full before a step, is all that has to be said of its length.
  `Room` and the condition on `S_Wake` cannot be dropped, as TLC shows: in a full queue
  the next signal overwrites the first one, and with it the receiver's only one
  (`procstuff.c` 780); and an `S_Wake` that is taken for the current process goes
  without closing the process's reads.  In the run `signals` all three conditions hold.
  That programs sleep for ever is used through `FamilyState`; no state that violates `PwrBrkOK`
  with timed sleeps is known.
* **`PromiseKept`** (`Lifecycle_proofs`): `LifecycleSpec => []NoLostParent`.
* **`AlarmsTypeCorrect`**, **`QueueSorted`** (`QueueOrder`) and **`OneEach`**
  (`OneRecordEach`) (`Alarms_proofs`), for every set of processes, number of entries,
  width of the counter and calls (`AlarmsAssumption`).  `AlarmsInv` is one formula over
  the three tables, `al \in AllOK`: they have their types, they agree (an entry is
  in use if and only if it is in the queue, once, and if and only if it has an id, one),
  and the queue is sorted.  `A_Insert` and `A_Remove` are shown to keep it
  (`PutOK`, `TakeOK`), once what they find by `Min` and `Max` of a set of places is
  described by `LeastNumber` and `GreatestNumber`.  `QueueNeverFull` is why the 512 pointers
  are never exceeded, which the code checks nowhere: the queue goes into the ids one
  to one.  `A_Kill` is a recursion over the queue; `WalkEnds` shows that it is
  defined, and `KillStays` that it does not leave a set of states that `A_Remove`
  does not leave, whichever alarms it skips.
* **`PromisedDates`** (`Alarms_proofs`): `Spec => []NeverEarly`, for every width of
  the counter, length of a day and tick rate (`AlarmsAssumption`; times of day are
  less than a day, which the code does not check).  The work is in
  `DateIsReached`: `RoomForDays` shows that below the limit `mx` the days up to the
  date *and the day itself* fit into what is left of the counter, so neither the
  product nor the sum with the clock wraps; the rest is that rounding the
  host's time down to seconds only moves an alarm later.  The invariant `EarlyInv`
  speaks of each entry of `alarms[]` alone, so it does not matter what `A_Kill` skips.

* **`EventsAreLocks`** (`Events_proofs`): `Spec => LocksImplemented`, and with the same
  invariant **`EventsTypeCorrect`**, **`OneEvent`** and **`LocksExclude`**, for any
  processes, slots, names and numbers of events, as long as the ids of the events that
  are made differ (the assumption `IdsDiffer`: with the code's 32-bit counter the first
  2^32 - 1 do).  Exclusion is not inductive: `EventsInv` adds `IdsMade` (whatever
  names an event names one that was made, so that a new id is not held by somebody
  yet) and `Uses` (the value of a lock is 1 if and only if nobody holds it, and no
  device sets it).  Most of the work is that ids stay unique although the
  first slot that fits is taken: `First` and the sequence of ids rest on
  `LeastNumber`.
* **`OwnersAlone`**, **`ProgramsStay`**, **`LinksKept`** and **`ModulesTypeCorrect`**
  (`Modules_proofs`): `Spec => []OwnedOnce`, `[]InUseStays`, `[]LinkedStays`,
  `[]ModulesTypeOK`, for any processes, names, files, entries and blocks, if no file
  holds a group of modules (`Followed = {}`; the second module of a group gets the
  memory of the first one).  Every operator of the directory (`Got`, `Released`,
  `Linked`, `Unlinked`, `Entered`, `Loaded`, `LinkLoad`) has a lemma that says which data
  and which modules it keeps (`KeepsData`, `KeepsModules`), and the system calls chain
  these.  `OwnedOnce` is not inductive: it does not say that a block that `get_mem`
  finds free belongs to nobody, nor that a link count of 0 means that there is no
  module.  `ModulesInv` is a good directory (`Good`: an entry has a link as long as
  it has a module, and memory of its own with a name in it), processes with lists that do
  not meet (`Apart`), and for each process its data, its trap handler's block among them,
  its program and its handler where they were (`ProcOK`).
  `LinksKept` has to count.  The code counts links without knowing whose they are;
  `LinksInv` says that there is *some* finite set of pairs of owner and module such
  that no entry has more of them than links (`Enough`) and every program, trap
  handler and linked module that a process has to give back is one of them (`Covers`).
  Each call adds or takes at most the pairs of its process; links that are lost
  (`LinkMismatch`, a fork without memory) are links without a pair, which does no
  harm.  A F$Chain that fails takes a link that may be somebody's pair, and there
  the property ends.
* **`PathsTypeCorrect`**, **`LinksCounted`** and **`PathsAreFiles`** (`Paths_proofs`):
  `Spec => []PathsTypeOK`, `[]LinkCounts`, `FilesImplemented`, for any processes and
  numbers of paths, if a close reports no error (`~CloseErrors`: after an error the number
  that was closed stays in the table, and nothing of this is claimed then).
  `LinkCounts` is not inductive, since it says nothing of paths that are free or of
  what is kept open without a number.  `PathsInv` says of every system path (`PathOK`)
  that its link count is the number of names it has in the tables plus the ones
  kept, that a free path has no names and a path of an image none in a table, and
  that only pipes have data.  For the refinement `IdsOK` adds that no two open paths
  are of one opening, and `AllNamed` that whatever a number names is open; then a number
  of a table leads to the same opening before and after every step that is not about it.

* **`PipesAreFifo`** (`Pipes_proofs`): `Spec => PipeIsFifo`, and with the same invariant
  **`PipesTypeCorrect`**, **`PipesCount`** (`CountsInTurn`), **`EofInTime`**
  (`NoPrematureEof`) and **`PipeStays`** (`NoDanglingCall`), for any finite set of
  processes, any size of the buffer, free cells, lengths, number of paths and width of
  the counters that the sizes fit into (`PipesAssumption`).  `PutAppends` and
  `GetTakes` say that the copy loops, wrapping round, append to and take from the
  sequence in the ring; `WriteTakesStep` and `ReadTakesStep` reduce the two long
  functions to that step, so that the invariant and the refinement need not look at
  the ring again.  `PipesInv` adds to the properties what they rest on: `linkcount` is
  the sum of what the processes hold (`LinksOK`, counted as a set of pairs, since a sum
  would be a recursion), only who holds a path waits (`CallsOK`), `consumers` is the
  number of waiting readers and of those that were cut short (`ConsumersOK`), and
  `bread` and `bwritten` are those of the one call that waits, if it is one
  (`ReadInTurn`, `WriteInTurn`).  The end of file is right by counting: if there are no
  more paths than waiting readers, each reader has exactly one path and nobody else has
  any (`NobodyWrites`).

* **`RbfTypeCorrect`**, **`ReadsOwnFile`** (`ReadsOwn`), **`SpaceIsShared`**
  (`SpaceImplemented`) and **`OnlySetSizeShrinks`** (`NeverShrinks`) (`Rbf_proofs`), for
  disks of every size, bytes of the map of every width, any files and paths, lengths of
  files, sectors in an allocation and segments in an FD, and with both kinds of buffer
  (`RbfAssumption`).  None of the four is inductive.  `RbfInv` adds `Apart` (no sector is
  in two files, and the map has them all), `AtFile` (where a path is, the sector in
  its buffer is one of its file with the text for that place, and a writer's copy of
  the FD is the one on the disk) and `FileOK`: a writer holds all up to its last position,
  on the disk or in its buffer; the others can read no more than the FD on the disk
  has, in the same sectors; and without a writer all of that is on the disk.  That a
  path which only reads keeps an old copy of the FD is harmless because sectors go
  back to the map only behind the size that the FD had, as long as one path writes.
  The proof is divided twice.  `FoundFits` says of the search in the map that what it finds is
  free, on the disk and not more than was asked for; `ExtendIs`, `PutIs`,
  `WriteRoundIs`, `ReadRoundIs` what a round of `DoAccess` does to the disk and the path,
  and `RoundsInTurn` that two rounds do the same.  Every operation changes one
  file (`Frame`) and owes the invariant to that file only (`Cared`); `FrameKeeps` says once
  that all other files and paths keep theirs, and a lemma for each operation does the
  rest.  `Frame` is also what the refinement of `Space` needs (`MovesInSpace`).

The condition `SleepTimes \subseteq {"never"}` cannot be dropped: with timed
sleeps a resurrected process (run `resurrect`) still has `_signal` set and a
stale `rtestate`; its F$RTE makes its descriptor `pUnused` while its new
children name it as their parent.

Every invariant of a passing run is stated by a theorem.  Only model-checked:

* what the theorems about parents, children and blocked reads say when programs sleep
  for a limited time, and `PwrBrkOK` with `S_Wake`;
* all liveness (fairness and ENABLED are out of the prover's reach);
* the claims of the runs that expect a violation (`NeverStuck` among them), which
  the code refutes.

## 5. Not modelled

* of alarms: calls with a wrong register (E_BPADDR, E_UNKSVC: nothing changes);
  times of day beyond a day; the two clocks of `Get_Time` and `GetSystemTick` are one.
* of the kernel: registers and the stack of intercept routines; prepFork's
  loading of the program (its outcome is a Boolean); the E_NORAM path of F$Chain
  before anything is changed; group and user of a broadcast; internal utilities
  and their nested loop (`fromIntUtil`); several signals of the network in one look;
  the interrupt key or a fault in the middle of a kernel function (they come
  between steps); the read of `procs[MAXPROCESSES]` behind the table when the
  loop is about to end.
* of events: increments other than those of locks and gates (the codes that OS-9 has
  beyond the six of the model are errors in `OS9_F_Event`); the links that `Ev_Link` counts are not attributed to processes, since
  the code does not either.
* of pipes: the data of pseudo terminals (their two buffers are pipes with the ends
  exchanged), SS_SSig on a pipe, sizes given at its creation.
* of paths: what a path leads to: directories and their contents, attributes, raw
  mode, positions; files of different file managers differ in what their close does,
  of which `Paths` keeps that it may fail.
* of modules and memory: module headers and CRC, types and languages (a module is a
  program or data), the modules built into the emulator; the sizes of blocks; the
  address table of a process with 255 entries, at whose end the emulator exits.
* of RBF images: mounting and formatting, RAM disks, SCSI devices, the contents of
  directories (a name has an FD or none), attributes, raw mode, clusters of more
  than a sector, two writers of a file, a file that is deleted while it is open.
* the file manager for host files, console editing, printing, networks, internal
  commands, native plug-ins: calls of the host, with no state that several
  processes share beyond their paths.
* the 68k emulators: a program is a choice among calls.

The map covers a small part of the lines in `src/` and cannot cover a third of them: of
about 215 400 lines, the 68k emulators with their generated opcode tables
(`cpuemu.c`, `m68kops.c`, `m68k_in.c`, `cpustbl.c`, with `softfloat` and the
disassemblers) are more than 150 000, all of it third-party code; most of the rest is
file, console, network and directory access of the host, for several platforms.
The system calls and tables that the processes of OS-9 share are about 12 000
lines, `Source/OS9exec_core`; that is where the modules are.

## 6. Plan

Done: process table, signals and scheduler; alarms; events; pipes; paths; modules
and memory; RBF images.  What is left, in this order:

1. `Alarms` composed with `Kernel`: the signals alarms send and the deaths they cause.
2. `Paths` and `Modules` composed with the life cycle: the order of the steps in
   `kill_process`, where a fault between two of them leaves tables half changed.
3. The nested loop of internal commands (`fromIntUtil`), which runs the scheduler
   while a system call of a process is not finished.
4. Proofs: the parents and children of `FamilyInv` with timed sleeps, as far as no
   process is resurrected.
