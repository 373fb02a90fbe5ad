-------------------------------- MODULE Pipes --------------------------------
(***************************************************************************)
(* One pipe (pipefiles.c): a ring buffer, the processes that have paths to *)
(* it, and their reads and writes.                                         *)
(*                                                                         *)
(* A read or write that cannot be finished leaves its process in pSysTask; *)
(* at each turn of the process the main loop calls the rest of the         *)
(* function (pReadSysTaskExe, pWriteSysTaskExe) again.  How far such a     *)
(* call has come is not kept with the process but with the pipe, in bread  *)
(* and bwritten, and the readers that wait are only counted (consumers).   *)
(* All paths to the pipe share one system path; its linkcount says how     *)
(* many there are.  No process has asked for a signal on data ready.       *)
(***************************************************************************)
EXTENDS Integers, Sequences, FiniteSets

CONSTANTS Proc,       \* the processes
          size,       \* cells of the buffer
          SAFETY,     \* cells left free
          Lens,       \* the lengths programs ask for
          MaxLinks,   \* bound: paths to the pipe
          Word,       \* counts are unsigned numbers below this (2^32)
          Mixed,      \* bound: the calls that may wait in one direction with others
          MaxCuts     \* bound: reads that are cut short while they wait

ASSUME PipesAssumption ==
    /\ size \in Nat /\ SAFETY \in Nat \ {0} /\ SAFETY < size
    /\ Lens \subseteq Nat \ {0} /\ MaxLinks \in Nat \ {0} /\ MaxCuts \in Nat
    /\ Word \in Nat /\ size < Word /\ \A n \in Lens : n < Word
    /\ IsFiniteSet(Proc)

VARIABLES buf, prp, pwp,   \* the buffer, where to read and where to write
          bread, bwritten, \* bytes done so far of the read and the write that waits
          consumers,       \* number of waiting consumers
          \* not in the code, for the properties:
          together,        \* for reads and for writes: another one waited when the last
                           \* one began
          cuts,            \* reads that were cut short since the pipe was made
          open,            \* the system path is in use
          named,           \* the pipe has a name
          linkcount,       \* its link count
          links,           \* how many of them each process has
          call,            \* what each process waits for
          ret              \* the call that has just returned

pipe == <<buf, prp, pwp, bread, bwritten, consumers, together, cuts>>
path == <<open, named, linkcount, links>>
vars == <<pipe, path, call, ret>>

Cells == 0 .. size - 1
Byte == {"x", "y", "CR", "junk"}

\* What programs write: lines of three bytes, cut anywhere.  What lies behind it in
\* their memory is junk.
Data(n) == [i \in 1 .. n |-> IF i % 3 = 1 THEN "x" ELSE IF i % 3 = 2 THEN "y" ELSE "CR"]

Ops == {"read", "readln", "write", "writeln"}
NoCall == [op |-> "none", n |-> 0, moved |-> <<>>]
\* A call: the bytes asked for, and the bytes it has moved.
Calls == [op : Ops \cup {"none"}, n : Nat, moved : Seq(Byte)]
NoRet == [p |-> CHOOSE p \in Proc : TRUE, op |-> "none", n |-> 0, moved |-> <<>>, d1 |-> 0,
          err |-> "none", alone |-> FALSE]

Waiting(ops) == {p \in Proc : call[p].op \in ops}
Readers == Waiting({"read", "readln"})
Writers == Waiting({"write", "writeln"})

Init == /\ buf = [c \in Cells |-> "junk"] /\ prp = 0 /\ pwp = 0
        /\ bread = 0 /\ bwritten = 0 /\ consumers = 0
        /\ together = [read |-> FALSE, write |-> FALSE] /\ cuts = 0
        /\ open = FALSE /\ named = FALSE /\ linkcount = 0 /\ links = [p \in Proc |-> 0]
        /\ call = [p \in Proc |-> NoCall] /\ ret = NoRet

-----------------------------------------------------------------------------
(* The ring *)

Wrap(c) == IF c >= size THEN c - size ELSE c

Pipe_NReady == IF pwp < prp THEN pwp - prp + size ELSE pwp - prp

Content == [i \in 1 .. Pipe_NReady |-> buf[Wrap(prp + i - 1)]]

\* How many cells c is behind the cell p.
Behind(c, p) == IF c < p THEN c - p + size ELSE c - p

\* PipePutc for each byte of s.  (mutant: the pointer is moved before the byte is put)
PipePutMoveFirst(s) ==
    /\ pwp' = Wrap(pwp + Len(s))
    /\ buf' = [c \in Cells |-> IF Behind(c, Wrap(pwp + 1)) < Len(s)
                              THEN s[Behind(c, Wrap(pwp + 1)) + 1] ELSE buf[c]]
PipePut(s) == /\ pwp' = Wrap(pwp + Len(s))
              /\ buf' = [c \in Cells |-> IF Behind(c, pwp) < Len(s)
                                        THEN s[Behind(c, pwp) + 1] ELSE buf[c]]

\* The copy loop of a read: n bytes are taken.  What was read is not looked at again, so
\* the cells are free for anything.
PipeGet(n) == /\ prp' = Wrap(prp + n)
              /\ buf' = [c \in Cells |-> IF Behind(c, prp) < n THEN "junk" ELSE buf[c]]

\* Room for a write.  (mutant: the cells that are to be left free are used as well)
NumFreeAll == size - Pipe_NReady
NumFree == size - Pipe_NReady - SAFETY

Smaller(m, n) == IF m < n THEN m ELSE n

\* s up to its first CR.
Line(s) == LET crs == {i \in 1 .. Len(s) : s[i] = "CR"}
           IN IF crs = {} THEN s
              ELSE SubSeq(s, 1, CHOOSE i \in crs : \A j \in crs : i <= j)

-----------------------------------------------------------------------------
(* System calls *)

\* The process leaves the call with D1 or an error, or waits on.
Return(p, c, d1, err, alone) ==
    /\ call' = [call EXCEPT ![p] = NoCall]
    /\ ret' = [p |-> p, op |-> c.op, n |-> c.n, moved |-> c.moved, d1 |-> d1, err |-> err,
               alone |-> alone]

\* Calls in one direction that are not in Mixed are made one after the other.
MayJoin(others, op) == others # {} => {op} \cup {call[q].op : q \in others} \subseteq Mixed

Wait(p, c) == call' = [call EXCEPT ![p] = c] /\ ret' = NoRet

\* pWriteSysTaskExe.  Where bwritten is beyond the end of this call's bytes the rest to
\* be written is a very large number.
WriteSysTask(p, c, written) ==
    LET rest == (c.n - written) % Word
        bytes == Smaller(NumFree, rest)
        text == [i \in 1 .. bytes |-> IF written + i <= c.n THEN Data(c.n)[written + i] ELSE "junk"]
        put == IF c.op = "writeln" THEN Line(text) ELSE text
        more == rest - Len(put) # 0 /\ (c.op = "write" \/ put = <<>> \/ put[Len(put)] # "CR")
        done == [c EXCEPT !.moved = @ \o put]
    IN /\ PipePut(put)
       /\ bwritten' = (written + Len(put)) % Word
       /\ IF ~more THEN Return(p, done, bwritten', "none", FALSE)
          ELSE IF linkcount < 2 /\ ~named THEN Return(p, done, c.n, "E_WRITE", FALSE)
          ELSE Wait(p, done)
       /\ UNCHANGED <<prp, bread, consumers, cuts, path>>

\* I$Write and I$WritLn (which looks for the CR itself and asks for no more than that).
\* (mutant: bwritten is not set to 0 for the new call)
WriteNoReset(p, op, n) ==
    /\ open /\ links[p] > 0 /\ call[p] = NoCall
    /\ MayJoin(Writers, op)
    /\ together' = [together EXCEPT !.write = (Writers # {})]
    /\ LET len == IF op = "writeln" THEN Len(Line(Data(n))) ELSE n
       IN WriteSysTask(p, [op |-> op, n |-> len, moved |-> <<>>], bwritten)
Write(p, op, n) ==
    /\ open /\ links[p] > 0 /\ call[p] = NoCall
    /\ MayJoin(Writers, op)
    /\ together' = [together EXCEPT !.write = (Writers # {})]
    /\ LET len == IF op = "writeln" THEN Len(Line(Data(n))) ELSE n
       IN WriteSysTask(p, [op |-> op, n |-> len, moved |-> <<>>], 0)

WriteTurn(p) == /\ call[p].op \in {"write", "writeln"}
                /\ WriteSysTask(p, call[p], bwritten)
                /\ UNCHANGED together

\* Nobody is left who could write: all others with a path are waiting to read.
Alone(p) == \A q \in Proc \ {p} : links[q] > 0 => q \in Readers

\* The reader that is done is no consumer any more.  (mutant: it is forgotten)
StillConsumer(cons) == cons
Done(cons) == cons - 1

\* The reader need not wait for more.  (mutant: off by one)
NobodyLeft(cons) == linkcount < cons \/ cons <= 0
NobodyElse(cons) == linkcount <= cons \/ cons <= 0

\* pReadSysTaskExe.
ReadSysTask(p, c, read, cons) ==
    LET rest == (c.n - read) % Word
        bytes == Smaller(Pipe_NReady, rest)
        text == SubSeq(Content, 1, bytes)
        got == IF c.op = "readln" THEN Line(text) ELSE text
        total == (read + Len(got)) % Word
        more == /\ rest - Len(got) # 0
                /\ c.op = "read" => total = 0
                /\ c.op = "readln" => got = <<>> \/ got[Len(got)] # "CR"
        done == [c EXCEPT !.moved = @ \o got]
    IN /\ PipeGet(Len(got))
       /\ bread' = total
       /\ IF ~more
          THEN consumers' = Done(cons) /\ Return(p, done, total, "none", FALSE)
          ELSE IF NobodyElse(cons)
          THEN /\ consumers' = Done(cons)
               /\ Return(p, done, total, IF total = 0 THEN "E_EOF" ELSE "none", Alone(p))
          ELSE consumers' = cons /\ Wait(p, done)
       /\ UNCHANGED <<pwp, bwritten, cuts, path>>

Read(p, op, n) ==
    /\ open /\ links[p] > 0 /\ call[p] = NoCall
    /\ MayJoin(Readers, op)
    /\ together' = [together EXCEPT !.read = (Readers # {})]
    /\ ReadSysTask(p, [op |-> op, n |-> n, moved |-> <<>>], 0, consumers + 1)

ReadTurn(p) == /\ call[p].op \in {"read", "readln"}
               /\ ReadSysTask(p, call[p], bread, consumers)
               /\ UNCHANGED together

\* SS_Size with 0: pPsetsz.
Clear(p) == /\ open /\ links[p] > 0 /\ call[p] = NoCall
            /\ prp' = 0 /\ pwp' = 0 /\ buf' = [c \in Cells |-> "junk"]
            /\ ret' = NoRet
            /\ UNCHANGED <<bread, bwritten, consumers, together, cuts, path, call>>

-----------------------------------------------------------------------------
(* Paths *)

Holding == {p \in Proc : links[p] > 0}

\* pPopen: a new pipe, or one more link to the named one.
Open(p) ==
    /\ call[p] = NoCall
    /\ \/ /\ ~open
          /\ buf' = [c \in Cells |-> "junk"] /\ prp' = 0 /\ pwp' = 0
          /\ bread' = 0 /\ bwritten' = 0 /\ consumers' = 0 /\ cuts' = 0
          /\ UNCHANGED together
          /\ open' = TRUE /\ named' \in BOOLEAN /\ linkcount' = 1
       \/ /\ open /\ named /\ linkcount < MaxLinks
          /\ linkcount' = linkcount + 1
          /\ UNCHANGED <<pipe, open, named>>
    /\ links' = [links EXCEPT ![p] = @ + 1]
    /\ ret' = NoRet /\ UNCHANGED call

\* I$Dup.
Dup(p) == /\ links[p] > 0 /\ call[p] = NoCall /\ linkcount < MaxLinks
          /\ linkcount' = linkcount + 1
          /\ links' = [links EXCEPT ![p] = @ + 1]
          /\ ret' = NoRet /\ UNCHANGED <<pipe, open, named, call>>

\* F$Fork: a process without paths to the pipe is made by one that has some.
Fork(p, child, n) ==
    /\ call[p] = NoCall /\ links[child] = 0 /\ child # p
    /\ n <= links[p] /\ linkcount + n <= MaxLinks
    /\ linkcount' = linkcount + n
    /\ links' = [links EXCEPT ![child] = n]
    /\ ret' = NoRet /\ UNCHANGED <<pipe, open, named, call>>

\* syspath_close, n times.  A named pipe with bytes in it stays.  (mutant: the path is
\* released whatever the link count)
CloseReally(p, n) ==
    /\ linkcount' = linkcount - n
    /\ links' = [links EXCEPT ![p] = @ - n]
    /\ open' = (named /\ prp # pwp)
    /\ named' = named
Close(p, n) ==
    /\ linkcount' = linkcount - n
    /\ links' = [links EXCEPT ![p] = @ - n]
    /\ open' = (linkcount > n \/ (named /\ prp # pwp))
    /\ named' = named

\* I$Close.
ClosePath(p) == /\ call[p] = NoCall /\ links[p] > 0
                /\ Close(p, 1)
                /\ ret' = NoRet /\ UNCHANGED <<pipe, call>>

\* A reader that does not come back to its call stays counted in consumers.
CutShort(p) == /\ p \in Readers => cuts < MaxCuts
               /\ cuts' = IF p \in Readers THEN cuts + 1 ELSE cuts
               /\ UNCHANGED <<buf, prp, pwp, bread, bwritten, consumers, together>>

\* F$Exit, or a signal that kills: all paths are closed, what the process waited for is
\* forgotten.
Exit(p) == /\ links[p] > 0
           /\ CutShort(p)
           /\ Close(p, links[p])
           /\ call' = [call EXCEPT ![p] = NoCall]
           /\ ret' = NoRet

\* send_signal to a process with an intercept routine: it is pActive afterwards, and the
\* call it waited in is over without having been finished.
Interrupt(p) == /\ call[p] # NoCall
                /\ CutShort(p)
                /\ call' = [call EXCEPT ![p] = NoCall] /\ ret' = NoRet
                /\ UNCHANGED path

\* I$Delete of the name.
Delete == /\ open /\ named /\ linkcount = 0 /\ consumers = 0
          /\ open' = FALSE
          /\ ret' = NoRet /\ UNCHANGED <<pipe, named, linkcount, links, call>>

Turn(p) == ReadTurn(p) \/ WriteTurn(p)

Next == \/ \E p \in Proc :
              \/ \E n \in Lens : \/ \E op \in {"write", "writeln"} : Write(p, op, n)
                                 \/ \E op \in {"read", "readln"} : Read(p, op, n)
              \/ Turn(p) \/ Clear(p) \/ Open(p) \/ Dup(p) \/ ClosePath(p)
              \/ Exit(p) \/ Interrupt(p)
              \/ \E child \in Proc, n \in 1 .. MaxLinks : Fork(p, child, n)
        \/ Delete

Spec == Init /\ [][Next]_vars

\* The main loop gives every process in pSysTask a turn again and again.
FairSpec == Spec /\ \A p \in Proc : WF_vars(Turn(p))

-----------------------------------------------------------------------------
(* Properties *)

\* Every variable keeps its type, and the buffer is never fuller than the copy loops
\* allow, whoever reads, writes, clears or closes.
PipesTypeOK ==
    /\ buf \in [Cells -> Byte] /\ prp \in Cells /\ pwp \in Cells
    /\ Pipe_NReady <= size - SAFETY
    /\ bread \in 0 .. Word - 1 /\ bwritten \in 0 .. Word - 1 /\ consumers \in Nat /\ cuts \in 0 .. MaxCuts
    /\ together \in [read : BOOLEAN, write : BOOLEAN]
    /\ open \in BOOLEAN /\ named \in BOOLEAN /\ linkcount \in 0 .. MaxLinks /\ links \in [Proc -> 0 .. MaxLinks]
    /\ call \in [Proc -> Calls]

\* The ring is a queue: what pWriteSysTaskExe takes from the memory of a writer comes
\* out of pReadSysTaskExe in this order, once, also where the pointers wrap, a call needs
\* many turns, or others come in between.
Abstract == INSTANCE Fifo WITH Proc <- Proc, Capacity <- size - SAFETY,
                queue <- Content,
                sofar <- [p \in Proc |-> call[p].moved],
                moved <- [p \in Proc |-> IF ret.op # "none" /\ ret.p = p
                                         THEN ret.moved ELSE call[p].moved]
PipeIsFifo == Abstract!Spec

\* The number of bytes a call reports in d1 is what it has moved, and a write has moved the
\* first of its bytes, also when the call had to wait and others used the pipe meanwhile.
CountsRight ==
    /\ ret.d1 = Len(ret.moved)
    /\ ret.op \in {"write", "writeln"} => ret.moved = SubSeq(Data(ret.n), 1, ret.d1)

\* I$Read, I$ReadLn, I$Write and I$WritLn report what they have moved as long as one
\* process at a time waits to read, and one to write (bread and bwritten, which are kept
\* with the pipe, belong to the call that waits).
CountsInTurn ==
    /\ ret.err = "none" /\ ret.op \in {"read", "readln"} /\ ~together.read => CountsRight
    /\ ret.err = "none" /\ ret.op \in {"write", "writeln"} /\ ~together.write => CountsRight

\* The end of file is reported to a reader only when nobody is left who could write (the
\* condition on linkcount and consumers in pReadSysTaskExe), until a read is cut short.
NoPrematureEof == ret.err = "E_EOF" /\ cuts = 0 => ret.alone

\* A call that waits has a path to the pipe of its own, and the pipe is there: the
\* function the main loop will call again never works on a pipe that was released.
NoDanglingCall == \A p \in Proc : call[p] # NoCall => open /\ links[p] > 0

\* Nobody waits for ever although he could go on: readers when there are bytes or nobody
\* is left who has a path and does not wait to read himself, writers when there is room.
CanRead == Pipe_NReady > 0 \/ Cardinality(Readers) = linkcount
CanGoOn(p) == \/ p \in Readers /\ CanRead
              \/ p \in Writers /\ NumFree > 0
              \/ p \in Writers /\ linkcount = 1 /\ ~named
WaitersGoOn == \A p \in Proc : CanGoOn(p) ~> ~CanGoOn(p)
============================================================================
