----------------------------- MODULE Pipes_proofs -----------------------------
(***************************************************************************)
(* A pipe of any size is a queue for any number of processes, lengths and  *)
(* turns; what it reports is right as long as calls come one at a time.    *)
(***************************************************************************)
EXTENDS Pipes, SequenceTheorems, FiniteSetTheorems, WellFoundedInduction, TLAPS

-----------------------------------------------------------------------------
(* Numbers                                                                 *)

\* Every set of numbers that is not empty has a least member.
LEMMA LeastNumber ==
  ASSUME NEW S, S \subseteq Nat, S # {}
  PROVE  \E x \in S : \A y \in S : x <= y
<1> DEFINE R == OpToRel(<, Nat)
<1>1. IsWellFoundedOn(R, Nat)
  BY NatLessThanWellFounded
<1>2. \A x, y \in Nat : <<y, x>> \notin R => x <= y
  <2>1. \A x, y \in Nat : y < x => <<y, x>> \in R
    BY Zenon DEF OpToRel
  <2> HIDE DEF R
  <2> QED BY <2>1
<1> HIDE DEF R
<1>3. \E x \in S : \A y \in S : <<y, x>> \notin R
  BY <1>1, WFMin
<1> QED BY <1>2, <1>3

\* A count that fits is not changed by being cut to the width of a counter.
LEMMA Fits ==
  /\ \A x \in Int : x % Word \in 0 .. Word - 1
  /\ \A x \in 0 .. Word - 1 : x % Word = x
<1>1. Word \in Nat /\ Word > 0
  BY PipesAssumption
<1> QED BY <1>1

-----------------------------------------------------------------------------
(* The ring                                                                *)

RingOK == buf \in [Cells -> Byte] /\ prp \in Cells /\ pwp \in Cells

ContentOK ==
  /\ Pipe_NReady \in 0 .. size - 1
  /\ Content \in Seq(Byte) /\ Len(Content) = Pipe_NReady
  /\ \A i \in 1 .. Pipe_NReady : /\ Wrap(prp + i - 1) \in Cells
                                 /\ Content[i] = buf[Wrap(prp + i - 1)]

\* What is in the ring, seen as a sequence.
LEMMA ContentIs == RingOK => ContentOK
<1> SUFFICES ASSUME RingOK PROVE ContentOK
  OBVIOUS
<1>1. Pipe_NReady \in 0 .. size - 1
  BY PipesAssumption DEF RingOK, Pipe_NReady, Cells
<1>2. \A i \in 1 .. Pipe_NReady : Wrap(prp + i - 1) \in Cells
  BY <1>1, PipesAssumption DEF RingOK, Wrap, Cells
<1>3. Content \in [1 .. Pipe_NReady -> Byte]
  BY <1>2 DEF Content, RingOK
<1>4. Content \in Seq(Byte) /\ Len(Content) = Pipe_NReady
  BY <1>1, <1>3
<1> QED BY <1>1, <1>2, <1>4 DEF Content, ContentOK

\* Bytes that are put come behind those that are there, where pointers wrap as well.
LEMMA PutAppends ==
  ASSUME RingOK, NEW s \in Seq(Byte), Len(s) < size - Pipe_NReady,
         PipePut(s), prp' = prp
  PROVE  /\ RingOK' /\ Pipe_NReady' = Pipe_NReady + Len(s)
         /\ Content' = Content \o s
<1>0. size \in Nat /\ Len(s) \in Nat /\ Pipe_NReady \in 0 .. size - 1
  BY ContentIs, PipesAssumption DEF ContentOK
<1>1. RingOK'
  <2>1. pwp' \in Cells
    BY <1>0, PipesAssumption DEF RingOK, PipePut, Wrap, Cells, Pipe_NReady
  <2>2. ASSUME NEW c \in Cells
        PROVE  buf'[c] \in Byte
    <3>1. CASE Behind(c, pwp) < Len(s)
      <4>1. Behind(c, pwp) + 1 \in 1 .. Len(s)
        BY <1>0, <3>1 DEF RingOK, Behind, Cells
      <4> QED BY <3>1, <4>1 DEF PipePut
    <3>2. CASE ~(Behind(c, pwp) < Len(s))
      BY <3>2 DEF PipePut, RingOK
    <3> QED BY <3>1, <3>2
  <2> QED BY <2>1, <2>2 DEF RingOK, PipePut
<1>2. Pipe_NReady' = Pipe_NReady + Len(s)
  BY <1>0 DEF RingOK, PipePut, Wrap, Cells, Pipe_NReady
<1>3. /\ Content' \in Seq(Byte) /\ Len(Content') = Pipe_NReady + Len(s)
      /\ \A i \in 1 .. Pipe_NReady + Len(s) : Content'[i] = buf'[Wrap(prp + i - 1)]
  <2>1. RingOK' => ContentOK'
    BY ContentIs, PTL
  <2> QED BY <1>1, <1>2, <2>1 DEF ContentOK
<1>4. /\ Content \o s \in Seq(Byte) /\ Len(Content \o s) = Pipe_NReady + Len(s)
      /\ \A i \in 1 .. Pipe_NReady + Len(s) :
           (Content \o s)[i] = IF i <= Pipe_NReady THEN Content[i] ELSE s[i - Pipe_NReady]
  <2>1. Content \in Seq(Byte) /\ Len(Content) = Pipe_NReady
    BY ContentIs DEF ContentOK
  <2> QED BY <2>1, ConcatProperties
<1>5. ASSUME NEW i \in 1 .. Pipe_NReady + Len(s)
      PROVE  Content'[i] = (Content \o s)[i]
  <2> DEFINE c == Wrap(prp + i - 1)
  <2>1. c \in Cells
    BY <1>0, PipesAssumption DEF RingOK, Wrap, Cells
  <2>2. buf'[c] = IF Behind(c, pwp) < Len(s) THEN s[Behind(c, pwp) + 1] ELSE buf[c]
    BY <2>1 DEF PipePut
  <2>3. CASE i <= Pipe_NReady
    <3>1. ~(Behind(c, pwp) < Len(s))
      BY <1>0, <2>3 DEF RingOK, Wrap, Cells, Behind, Pipe_NReady
    <3>2. Content[i] = buf[c]
      BY <1>0, <2>3, ContentIs DEF ContentOK
    <3> QED BY <1>3, <1>4, <2>2, <2>3, <3>1, <3>2
  <2>4. CASE ~(i <= Pipe_NReady)
    <3>1. Behind(c, pwp) = i - Pipe_NReady - 1
      BY <1>0, <2>4 DEF RingOK, Wrap, Cells, Behind, Pipe_NReady
    <3>2. buf'[c] = s[i - Pipe_NReady]
      <4>1. i - Pipe_NReady - 1 < Len(s) /\ i - Pipe_NReady - 1 + 1 = i - Pipe_NReady
        BY <1>0, <2>4
      <4> QED BY <2>2, <3>1, <4>1
    <3> QED BY <1>3, <1>4, <2>4, <3>2
  <2> QED BY <2>3, <2>4
<1>6. Content' = Content \o s
  BY <1>0, <1>3, <1>4, <1>5, SeqEqual
<1> QED BY <1>1, <1>2, <1>6

\* Bytes that are taken are the first ones, and the others stay as they are.
LEMMA GetTakes ==
  ASSUME RingOK, NEW n \in 0 .. Pipe_NReady, PipeGet(n), pwp' = pwp
  PROVE  /\ RingOK' /\ Pipe_NReady' = Pipe_NReady - n
         /\ Content' = SubSeq(Content, n + 1, Pipe_NReady)
         /\ Content = SubSeq(Content, 1, n) \o Content'
<1>0. size \in Nat /\ Pipe_NReady \in 0 .. size - 1 /\ n \in Nat
  BY ContentIs, PipesAssumption DEF ContentOK
<1>1. RingOK'
  <2>1. prp' \in Cells
    BY <1>0, PipesAssumption DEF RingOK, PipeGet, Wrap, Cells, Pipe_NReady
  <2>2. \A c \in Cells : buf'[c] \in Byte
    BY DEF PipeGet, RingOK, Byte
  <2> QED BY <2>1, <2>2 DEF RingOK, PipeGet
<1>2. Pipe_NReady' = Pipe_NReady - n
  BY <1>0 DEF RingOK, PipeGet, Wrap, Cells, Pipe_NReady
<1>3. /\ Content' \in Seq(Byte) /\ Len(Content') = Pipe_NReady - n
      /\ \A i \in 1 .. Pipe_NReady - n : Content'[i] = buf'[Wrap(prp' + i - 1)]
  <2>1. RingOK' => ContentOK'
    BY ContentIs, PTL
  <2> QED BY <1>1, <1>2, <2>1 DEF ContentOK
<1>4. Content \in Seq(Byte) /\ Len(Content) = Pipe_NReady
  BY ContentIs DEF ContentOK
<1>5. \A i \in n + 1 .. Pipe_NReady : Content[i] \in Byte
  BY <1>0, <1>4
<1>6. /\ SubSeq(Content, n + 1, Pipe_NReady) \in Seq(Byte)
      /\ Len(SubSeq(Content, n + 1, Pipe_NReady)) = Pipe_NReady - n
      /\ \A i \in 1 .. Pipe_NReady - n :
           SubSeq(Content, n + 1, Pipe_NReady)[i] = Content[n + i]
  BY <1>0, <1>5, SubSeqProperties
<1>7. ASSUME NEW i \in 1 .. Pipe_NReady - n
      PROVE  Content'[i] = Content[n + i]
  <2> DEFINE c == Wrap(prp + (n + i) - 1)
  <2>1. n + i \in 1 .. Pipe_NReady
    BY <1>0
  <2>2. c \in Cells /\ Content[n + i] = buf[c]
    BY <2>1, ContentIs DEF ContentOK
  <2>3. Wrap(prp' + i - 1) = c /\ ~(Behind(c, prp) < n)
    BY <1>0 DEF RingOK, PipeGet, Wrap, Cells, Behind, Pipe_NReady
  <2>4. buf'[c] = buf[c]
    BY <2>2, <2>3 DEF PipeGet
  <2> QED BY <1>3, <2>2, <2>3, <2>4
<1>8. Content' = SubSeq(Content, n + 1, Pipe_NReady)
  BY <1>0, <1>3, <1>6, <1>7, SeqEqual
<1>9. Content = SubSeq(Content, 1, n) \o SubSeq(Content, n + 1, Pipe_NReady)
  BY <1>0, <1>4, ConcatAdjacentSubSeq, SubSeqFull
<1> QED BY <1>1, <1>2, <1>8, <1>9

\* A pipe that was just made or cleared is empty.
LEMMA NothingIn ==
  ASSUME buf \in [Cells -> Byte], prp = 0, pwp = 0
  PROVE  RingOK /\ Pipe_NReady = 0 /\ Content = <<>>
<1>1. RingOK /\ Pipe_NReady = 0
  BY PipesAssumption DEF RingOK, Cells, Pipe_NReady
<1>2. Content \in Seq(Byte) /\ Len(Content) = 0
  BY <1>1, ContentIs DEF ContentOK
<1> QED BY <1>1, <1>2

\* Looking for the end of a line cuts a text short and changes nothing of it.
LEMMA LineIs ==
  ASSUME NEW s \in Seq(Byte)
  PROVE  \E n \in 0 .. Len(s) : Line(s) = SubSeq(s, 1, n)
<1> DEFINE crs == {i \in 1 .. Len(s) : s[i] = "CR"}
<1>1. CASE crs = {}
  <2>1. Line(s) = s
    BY <1>1 DEF Line
  <2> QED BY <2>1, SubSeqFull
<1>2. CASE crs # {}
  <2>1. crs \subseteq Nat
    OBVIOUS
  <2>2. \E i \in crs : \A j \in crs : i <= j
    <3> HIDE DEF crs
    <3> QED BY <1>2, <2>1, LeastNumber
  <2> DEFINE n == CHOOSE i \in crs : \A j \in crs : i <= j
  <2>3. n \in crs
    BY <2>2
  <2>4. n \in 0 .. Len(s)
    BY <2>3
  <2>5. Line(s) = SubSeq(s, 1, n)
    BY <1>2 DEF Line
  <2> QED BY <2>4, <2>5
<1> QED BY <1>1, <1>2

-----------------------------------------------------------------------------
(* What one turn of a write or a read does                                 *)

Moved(c, s) == [c EXCEPT !.moved = @ \o s]

\* The call of p is over, or it waits on, after it has moved the bytes s.
Ends(p, c, s, d1, err, alone) == Return(p, Moved(c, s), d1, err, alone)
GoesOn(p, c, s) == Wait(p, Moved(c, s))

RingBounded == RingOK /\ Pipe_NReady <= size - SAFETY

Source(c, written, i) == IF written + i <= c.n THEN Data(c.n)[written + i] ELSE "junk"

WriteStep(p, c, written, put) ==
  /\ RingBounded' /\ Content' = Content \o put
  /\ Len(put) <= (c.n - written) % Word
  /\ \A i \in 1 .. Len(put) : put[i] = Source(c, written, i)
  /\ bwritten' = (written + Len(put)) % Word
  /\ \/ Ends(p, c, put, bwritten', "none", FALSE)
     \/ Ends(p, c, put, c.n, "E_WRITE", FALSE)
     \/ GoesOn(p, c, put)
  /\ UNCHANGED <<prp, bread, consumers, cuts, path>>

\* pWriteSysTaskExe puts bytes of the call, from where it had come to, as far as they fit.
LEMMA WriteTakesStep ==
  ASSUME RingBounded, NEW p \in Proc, NEW c \in Calls, NEW written \in Nat,
         WriteSysTask(p, c, written)
  PROVE  \E put \in Seq(Byte) : WriteStep(p, c, written, put)
<1> DEFINE rest == (c.n - written) % Word
           bytes == Smaller(NumFree, rest)
           text == [i \in 1 .. bytes |-> Source(c, written, i)]
           put == IF c.op = "writeln" THEN Line(text) ELSE text
           more == rest - Len(put) # 0 /\ (c.op = "write" \/ put = <<>> \/ put[Len(put)] # "CR")
           done == [c EXCEPT !.moved = @ \o put]
<1>1. /\ PipePut(put) /\ bwritten' = (written + Len(put)) % Word
      /\ IF ~more THEN Return(p, done, bwritten', "none", FALSE)
         ELSE IF linkcount < 2 /\ ~named THEN Return(p, done, c.n, "E_WRITE", FALSE)
         ELSE Wait(p, done)
      /\ UNCHANGED <<prp, bread, consumers, cuts, path>>
  BY DEF WriteSysTask, Source
<1>2. c.n \in Nat
  BY DEF Calls
<1>3. rest \in Nat
  <2>1. c.n - written \in Int
    BY <1>2
  <2> QED BY <2>1, Fits, PipesAssumption
<1>4. Pipe_NReady \in Nat /\ SAFETY \in Nat \ {0} /\ size \in Nat
  BY ContentIs, PipesAssumption DEF ContentOK, RingBounded
<1>5. bytes \in Nat /\ bytes <= rest /\ bytes <= size - Pipe_NReady - SAFETY
  <2> HIDE DEF rest
  <2> QED BY <1>3, <1>4 DEF Smaller, NumFree, RingBounded
<1>6. text \in Seq(Byte) /\ Len(text) = bytes
  <2> HIDE DEF bytes
  <2>1. ASSUME NEW i \in 1 .. bytes PROVE Source(c, written, i) \in Byte
    <3>1. CASE written + i <= c.n
      <4>1. written + i \in 1 .. c.n
        BY <1>2, <3>1
      <4>2. Data(c.n)[written + i] \in Byte
        BY <4>1 DEF Data, Byte
      <4> QED BY <3>1, <4>2 DEF Source
    <3>2. CASE ~(written + i <= c.n)
      BY <3>2 DEF Source, Byte
    <3> QED BY <3>1, <3>2
  <2>2. text \in [1 .. bytes -> Byte]
    BY <2>1
  <2> QED BY <1>5, <2>2
<1>7. PICK n \in 0 .. bytes : put = SubSeq(text, 1, n)
  <2> HIDE DEF text
  <2>1. Line(text) = put \/ text = put
    OBVIOUS
  <2>2. \E n \in 0 .. bytes : Line(text) = SubSeq(text, 1, n)
    BY <1>6, LineIs
  <2>3. text = SubSeq(text, 1, bytes)
    BY <1>6, SubSeqFull
  <2>4. bytes \in 0 .. bytes
    BY <1>5
  <2> QED BY <2>1, <2>2, <2>3, <2>4
<1>8. put \in Seq(Byte) /\ Len(put) = n /\ \A i \in 1 .. n : put[i] = Source(c, written, i)
  <2>1. \A i \in 1 .. n : text[i] = Source(c, written, i)
    <3> HIDE DEF bytes
    <3> QED BY <1>5
  <2>2. \A i \in 1 .. n : text[i] \in Byte
    <3> HIDE DEF text, bytes
    <3> QED BY <1>5, <1>6
  <2>3. /\ SubSeq(text, 1, n) \in Seq(Byte) /\ Len(SubSeq(text, 1, n)) = n
        /\ \A i \in 1 .. n : SubSeq(text, 1, n)[i] = text[i]
    <3> HIDE DEF text, bytes
    <3>1. n \in Nat
      BY <1>5
    <3> QED BY <2>2, <3>1, SubSeqProperties
  <2> HIDE DEF text, bytes, put
  <2> QED BY <1>7, <2>1, <2>3
<1>9. /\ RingOK' /\ Pipe_NReady' = Pipe_NReady + n /\ Content' = Content \o put
  <2> HIDE DEF put, bytes
  <2>1. Len(put) < size - Pipe_NReady
    BY <1>4, <1>5, <1>7, <1>8
  <2> QED BY <1>1, <1>8, <2>1, PutAppends DEF RingBounded
<1>10. RingBounded'
  <2> HIDE DEF bytes
  <2> QED BY <1>4, <1>5, <1>9 DEF RingBounded
<1>11. Len(put) <= rest
  <2> HIDE DEF bytes, put, rest
  <2> QED BY <1>3, <1>5, <1>8
<1>12. \/ Ends(p, c, put, bwritten', "none", FALSE)
       \/ Ends(p, c, put, c.n, "E_WRITE", FALSE)
       \/ GoesOn(p, c, put)
  <2> HIDE DEF put, more
  <2> QED BY <1>1 DEF Ends, GoesOn, Moved
<1>13. WriteStep(p, c, written, put)
  <2>1. \A i \in 1 .. Len(put) : put[i] = Source(c, written, i)
    <3> HIDE DEF put
    <3> QED BY <1>8
  <2> HIDE DEF put, more
  <2> QED BY <1>1, <1>9, <1>10, <1>11, <1>12, <2>1 DEF WriteStep
<1> QED BY <1>8, <1>13

ReadStep(p, c, read, cons, got) ==
  /\ RingBounded' /\ Content = got \o Content'
  /\ Len(got) <= (c.n - read) % Word
  /\ bread' = (read + Len(got)) % Word
  /\ \/ Ends(p, c, got, bread', "none", FALSE) /\ consumers' = Done(cons)
     \/ /\ NobodyElse(cons) /\ consumers' = Done(cons)
        /\ Ends(p, c, got, bread', IF bread' = 0 THEN "E_EOF" ELSE "none", Alone(p))
     \/ GoesOn(p, c, got) /\ consumers' = cons
  /\ UNCHANGED <<pwp, bwritten, cuts, path>>

\* pReadSysTaskExe takes the first bytes of the ring, no more than the call still asks for.
LEMMA ReadTakesStep ==
  ASSUME RingBounded, NEW p \in Proc, NEW c \in Calls, NEW read \in Nat,
         NEW cons \in Nat, ReadSysTask(p, c, read, cons)
  PROVE  \E got \in Seq(Byte) : ReadStep(p, c, read, cons, got)
<1> DEFINE rest == (c.n - read) % Word
           bytes == Smaller(Pipe_NReady, rest)
           text == SubSeq(Content, 1, bytes)
           got == IF c.op = "readln" THEN Line(text) ELSE text
           total == (read + Len(got)) % Word
           more == /\ rest - Len(got) # 0
                   /\ c.op = "read" => total = 0
                   /\ c.op = "readln" => got = <<>> \/ got[Len(got)] # "CR"
           done == [c EXCEPT !.moved = @ \o got]
<1>1. /\ PipeGet(Len(got)) /\ bread' = total
      /\ IF ~more
         THEN consumers' = Done(cons) /\ Return(p, done, total, "none", FALSE)
         ELSE IF NobodyElse(cons)
         THEN /\ consumers' = Done(cons)
              /\ Return(p, done, total, IF total = 0 THEN "E_EOF" ELSE "none", Alone(p))
         ELSE consumers' = cons /\ Wait(p, done)
      /\ UNCHANGED <<pwp, bwritten, cuts, path>>
  BY DEF ReadSysTask
<1>2. c.n \in Nat
  BY DEF Calls
<1>3. rest \in Nat
  <2>1. c.n - read \in Int
    BY <1>2
  <2> QED BY <2>1, Fits, PipesAssumption
<1>4. /\ Pipe_NReady \in Nat /\ SAFETY \in Nat \ {0} /\ size \in Nat
      /\ Content \in Seq(Byte) /\ Len(Content) = Pipe_NReady
  BY ContentIs, PipesAssumption DEF ContentOK, RingBounded
<1>5. bytes \in Nat /\ bytes <= rest /\ bytes <= Pipe_NReady
  <2> HIDE DEF rest
  <2> QED BY <1>3, <1>4 DEF Smaller
<1>6. text \in Seq(Byte) /\ Len(text) = bytes
  <2> HIDE DEF bytes
  <2>1. \A i \in 1 .. bytes : Content[i] \in Byte
    BY <1>4, <1>5
  <2> QED BY <1>5, <2>1, SubSeqProperties
<1>7. PICK n \in 0 .. bytes : got = SubSeq(text, 1, n)
  <2> HIDE DEF text
  <2>1. Line(text) = got \/ text = got
    OBVIOUS
  <2>2. \E n \in 0 .. bytes : Line(text) = SubSeq(text, 1, n)
    BY <1>6, LineIs
  <2>3. text = SubSeq(text, 1, bytes)
    BY <1>6, SubSeqFull
  <2>4. bytes \in 0 .. bytes
    BY <1>5
  <2> QED BY <2>1, <2>2, <2>3, <2>4
<1>8. n \in 0 .. Pipe_NReady /\ n <= rest
  <2> HIDE DEF bytes, rest
  <2> QED BY <1>3, <1>4, <1>5
<1>9. got = SubSeq(Content, 1, n)
  <2>1. CASE n = 0
    BY <1>7, <2>1, SubSeqEmpty
  <2>2. CASE n # 0
    <3> HIDE DEF bytes, got
    <3>1. /\ 1 \in 1 .. Len(Content) /\ bytes \in 1 .. Len(Content)
          /\ 1 \in 1 .. bytes - 1 + 1 /\ n \in 1 .. bytes - 1 + 1
      BY <1>4, <1>5, <2>2
    <3>2. SubSeq(text, 1, n) = SubSeq(Content, 1 + 1 - 1, 1 + n - 1)
      BY <1>4, <3>1, SubSeqOfSubSeq
    <3>3. 1 + 1 - 1 = 1 /\ 1 + n - 1 = n
      BY <1>5
    <3> QED BY <1>7, <3>2, <3>3
  <2> QED BY <2>1, <2>2
<1> HIDE DEF got
<1>10. got \in Seq(Byte) /\ Len(got) = n
  <2>1. \A i \in 1 .. n : Content[i] \in Byte
    BY <1>4, <1>8
  <2>2. n \in Nat
    BY <1>8
  <2> QED BY <1>9, <2>1, <2>2, SubSeqProperties
<1>11. /\ RingOK' /\ Pipe_NReady' = Pipe_NReady - n
       /\ Content = SubSeq(Content, 1, n) \o Content'
  BY <1>1, <1>8, <1>10, GetTakes DEF RingBounded
<1>12. RingBounded'
  BY <1>4, <1>8, <1>11, PipesAssumption DEF RingBounded
<1>13. \/ Ends(p, c, got, bread', "none", FALSE) /\ consumers' = Done(cons)
       \/ /\ NobodyElse(cons) /\ consumers' = Done(cons)
          /\ Ends(p, c, got, bread', IF bread' = 0 THEN "E_EOF" ELSE "none", Alone(p))
       \/ GoesOn(p, c, got) /\ consumers' = cons
  <2> HIDE DEF more, total
  <2> QED BY <1>1 DEF Ends, GoesOn, Moved
<1>14. Len(got) <= rest
  <2> HIDE DEF rest
  <2> QED BY <1>8, <1>10
<1>15. Content = got \o Content'
  BY <1>9, <1>11
<1>16. ReadStep(p, c, read, cons, got)
  <2> HIDE DEF more
  <2> QED BY <1>1, <1>12, <1>13, <1>14, <1>15 DEF ReadStep
<1> QED BY <1>10, <1>16

-----------------------------------------------------------------------------
(* The paths of all processes, counted                                     *)

Numbers == [Proc -> 0 .. MaxLinks]

\* One element for each path of each process.
Pairs(f) == {x \in Proc \X (1 .. MaxLinks) : x[2] <= f[x[1]]}

\* An interval of n numbers has n elements.
LEMMA CountUp ==
  \A a \in Int, n \in Nat : IsFiniteSet(a + 1 .. a + n) /\ Cardinality(a + 1 .. a + n) = n
<1> SUFFICES ASSUME NEW a \in Int, NEW n \in Nat
             PROVE  IsFiniteSet(a + 1 .. a + n) /\ Cardinality(a + 1 .. a + n) = n
  OBVIOUS
<1>1. \A x, y \in Int : /\ IsFiniteSet(x .. y)
                        /\ Cardinality(x .. y) = IF x > y THEN 0 ELSE y - x + 1
  BY FS_Interval
<1> QED BY <1>1

\* There are finitely many of them.
LEMMA PairsFinite ==
  ASSUME NEW f
  PROVE  IsFiniteSet(Pairs(f)) /\ Cardinality(Pairs(f)) \in Nat
<1>1. IsFiniteSet(Proc) /\ MaxLinks \in Nat
  BY PipesAssumption
<1>2. IsFiniteSet(1 .. MaxLinks)
  BY <1>1, FS_Interval
<1>3. IsFiniteSet(Proc \X (1 .. MaxLinks))
  BY <1>1, <1>2, FS_Product
<1>4. Pairs(f) \in SUBSET (Proc \X (1 .. MaxLinks))
  BY DEF Pairs
<1> QED BY <1>3, <1>4, FS_Subset, FS_CardinalityType

\* n more paths of one process are n more paths.
LEMMA PairsAdd ==
  ASSUME NEW f \in Numbers, NEW p \in Proc, NEW n \in Nat, f[p] + n <= MaxLinks
  PROVE  LET g == [f EXCEPT ![p] = f[p] + n]
         IN  g \in Numbers /\ Cardinality(Pairs(g)) = Cardinality(Pairs(f)) + n
<1> DEFINE g == [f EXCEPT ![p] = f[p] + n]
           New == {p} \X (f[p] + 1 .. f[p] + n)
<1>1. MaxLinks \in Nat /\ f[p] \in 0 .. MaxLinks
  BY PipesAssumption DEF Numbers
<1>2. g \in Numbers
  BY <1>1 DEF Numbers
<1>3. Pairs(g) = Pairs(f) \cup New /\ Pairs(f) \cap New = {}
  <2>1. \A q \in Proc : f[q] \in 0 .. MaxLinks /\ g[q] = IF q = p THEN f[p] + n ELSE f[q]
    BY DEF Numbers
  <2>2. \A q \in Proc, i \in Int : <<q, i>> \in Pairs(f) <=> i \in 1 .. f[q]
    BY <1>1, <2>1 DEF Pairs
  <2>3. \A q \in Proc, i \in Int : <<q, i>> \in Pairs(g) <=> i \in 1 .. g[q]
    <3> HIDE DEF g
    <3> QED BY <1>1, <2>1 DEF Pairs
  <2>4. \A q \in Proc, i \in Int : <<q, i>> \in New <=> (q = p /\ i \in f[p] + 1 .. f[p] + n)
    BY <1>1
  <2>5. Pairs(f) \subseteq Proc \X Int /\ Pairs(g) \subseteq Proc \X Int /\ New \subseteq Proc \X Int
    BY <1>1 DEF Pairs
  <2>6. \A q \in Proc, i \in Int :
           /\ <<q, i>> \in Pairs(g) <=> (<<q, i>> \in Pairs(f) \/ <<q, i>> \in New)
           /\ ~(<<q, i>> \in Pairs(f) /\ <<q, i>> \in New)
    <3> TAKE q \in Proc, i \in Int
    <3>1. CASE q = p
      <4>1. g[q] = f[p] + n /\ f[q] = f[p]
        BY <2>1, <3>1
      <4> HIDE DEF g, New
      <4> QED BY <1>1, <2>2, <2>3, <2>4, <3>1, <4>1
    <3>2. CASE q # p
      <4>1. g[q] = f[q]
        BY <2>1, <3>2
      <4> HIDE DEF g, New
      <4> QED BY <2>2, <2>3, <2>4, <3>2, <4>1
    <3> QED BY <3>1, <3>2
  <2> HIDE DEF g, New
  <2> QED BY <2>5, <2>6
<1>4. IsFiniteSet(New) /\ Cardinality(New) = n
  <2>1. IsFiniteSet({p}) /\ Cardinality({p}) = 1
    BY FS_Singleton
  <2>2. IsFiniteSet(f[p] + 1 .. f[p] + n) /\ Cardinality(f[p] + 1 .. f[p] + n) = n
    BY <1>1, CountUp
  <2>3. IsFiniteSet(New) /\ Cardinality(New) = Cardinality({p}) * Cardinality(f[p] + 1 .. f[p] + n)
    BY <2>1, <2>2, FS_Product
  <2> QED BY <2>1, <2>2, <2>3
<1>5. Cardinality(Pairs(g)) = Cardinality(Pairs(f)) + n
  <2> HIDE DEF g, New
  <2>1. Cardinality(Pairs(f) \cup New)
          = Cardinality(Pairs(f)) + Cardinality(New) - Cardinality(Pairs(f) \cap New)
    BY <1>4, PairsFinite, FS_Union
  <2>2. Cardinality(Pairs(f) \cap New) = 0
    BY <1>3, FS_EmptySet
  <2> QED BY <1>3, <1>4, <2>1, <2>2, PairsFinite
<1> QED BY <1>2, <1>5

\* n fewer paths of one process are n fewer paths.
LEMMA PairsLess ==
  ASSUME NEW f \in Numbers, NEW p \in Proc, NEW n \in 0 .. f[p]
  PROVE  LET g == [f EXCEPT ![p] = f[p] - n]
         IN  g \in Numbers /\ Cardinality(Pairs(g)) = Cardinality(Pairs(f)) - n
<1> DEFINE g == [f EXCEPT ![p] = f[p] - n]
<1>1. MaxLinks \in Nat /\ f[p] \in 0 .. MaxLinks /\ n \in Nat
  BY PipesAssumption DEF Numbers
<1>2. g \in Numbers /\ g[p] = f[p] - n
  BY <1>1 DEF Numbers
<1>3. f = [g EXCEPT ![p] = g[p] + n]
  <2>1. f[p] = g[p] + n
    BY <1>1, <1>2
  <2> QED BY <2>1 DEF Numbers
<1>4. g[p] + n <= MaxLinks
  BY <1>1, <1>2
<1>5. Cardinality(Pairs(f)) = Cardinality(Pairs(g)) + n
  <2> HIDE DEF g
  <2> QED BY <1>1, <1>2, <1>3, <1>4, PairsAdd
<1> QED
  <2> HIDE DEF g
  <2>1. Cardinality(Pairs(g)) = Cardinality(Pairs(f)) - n
    BY <1>1, <1>5, PairsFinite
  <2> QED BY <1>2, <2>1 DEF g

\* No process has more paths than there are, and processes with paths are not more than paths.
LEMMA PairsEach ==
  ASSUME NEW f \in Numbers
  PROVE  /\ \A p \in Proc : f[p] <= Cardinality(Pairs(f))
         /\ \A S \in SUBSET Proc : (\A p \in S : f[p] > 0) => /\ IsFiniteSet(S)
                                                              /\ Cardinality(S) <= Cardinality(Pairs(f))
<1>1. ASSUME NEW p \in Proc PROVE f[p] <= Cardinality(Pairs(f))
  <2> DEFINE g == [f EXCEPT ![p] = f[p] - f[p]]
  <2>1. f[p] \in 0 .. f[p] /\ f[p] \in Nat
    BY PipesAssumption DEF Numbers
  <2>2. Cardinality(Pairs(g)) = Cardinality(Pairs(f)) - f[p]
    BY <2>1, PairsLess
  <2> HIDE DEF g
  <2> QED BY <2>1, <2>2, PairsFinite
<1>2. ASSUME NEW S \in SUBSET Proc, \A p \in S : f[p] > 0
      PROVE  IsFiniteSet(S) /\ Cardinality(S) <= Cardinality(Pairs(f))
  <2>1. IsFiniteSet(S)
    BY PipesAssumption, FS_Subset
  <2>2. IsFiniteSet({1}) /\ Cardinality({1}) = 1
    BY FS_Singleton
  <2>3. IsFiniteSet(S \X {1}) /\ Cardinality(S \X {1}) = Cardinality(S) * 1
    BY <2>1, <2>2, FS_Product
  <2>4. S \X {1} \in SUBSET Pairs(f)
    <3>1. MaxLinks \in Nat \ {0}
      BY PipesAssumption
    <3>2. \A p \in S : f[p] \in 0 .. MaxLinks
      BY DEF Numbers
    <3> QED BY <1>2, <3>1, <3>2 DEF Pairs
  <2>5. Cardinality(S \X {1}) <= Cardinality(Pairs(f))
    BY <2>4, PairsFinite, FS_Subset
  <2> QED BY <2>1, <2>3, <2>5, FS_CardinalityType
<1> QED BY <1>1, <1>2

-----------------------------------------------------------------------------
(* The invariant                                                           *)

\* The link count is the number of paths, and while there are paths there is a pipe.
LinksOK == linkcount = Cardinality(Pairs(links)) /\ (linkcount > 0 => open)

\* Who waits has a path, for a call that fits the counters.
CallsOK == \A p \in Proc : /\ call[p].op = "none" => call[p] = NoCall
                           /\ call[p].n < Word
                           /\ call[p] # NoCall => links[p] > 0

\* Consumers are the readers that wait and those that were cut short.
ConsumersOK == consumers = Cardinality(Readers) + cuts

\* A call that began when no other waited has bread or bwritten to itself.
ReadInTurn ==
  ~together.read => \A p \in Readers : /\ \A q \in Readers : q = p
                                       /\ bread = Len(call[p].moved) /\ bread <= call[p].n
WriteInTurn ==
  ~together.write => \A p \in Writers : /\ \A q \in Writers : q = p
                                        /\ bwritten <= call[p].n
                                        /\ call[p].moved = SubSeq(Data(call[p].n), 1, bwritten)

PipesInv == /\ PipesTypeOK /\ LinksOK /\ CallsOK /\ ConsumersOK /\ ReadInTurn /\ WriteInTurn
            /\ CountsInTurn /\ NoPrematureEof

\* One field of a call is replaced.
LEMMA MovedField ==
  ASSUME NEW A, NEW B, NEW C, NEW r \in [op : A, n : B, moved : C], NEW m
  PROVE  [r EXCEPT !.moved = m] = [op |-> r.op, n |-> r.n, moved |-> m]
BY SMT

\* What an unfinished call is, after it has moved some bytes.
LEMMA MovedIs ==
  ASSUME NEW c \in Calls, NEW s \in Seq(Byte)
  PROVE  /\ Moved(c, s) \in Calls
         /\ Moved(c, s).op = c.op /\ Moved(c, s).n = c.n /\ Moved(c, s).moved = c.moved \o s
<1>1. c.op \in Ops \cup {"none"} /\ c.n \in Nat /\ c.moved \in Seq(Byte)
  BY DEF Calls
<1>2. c.moved \o s \in Seq(Byte)
  BY <1>1, ConcatProperties
<1>3. Moved(c, s) = [op |-> c.op, n |-> c.n, moved |-> c.moved \o s]
  <2> DEFINE m == c.moved \o s
  <2>1. Moved(c, s) = [c EXCEPT !.moved = m]
    BY DEF Moved
  <2>2. [c EXCEPT !.moved = m] = [op |-> c.op, n |-> c.n, moved |-> m]
    <3> HIDE DEF m
    <3> QED BY MovedField DEF Calls
  <2> QED BY <2>1, <2>2
<1> QED BY <1>1, <1>2, <1>3 DEF Calls

\* No call waits for nothing.
LEMMA NoCallIs == NoCall \in Calls /\ NoCall.op = "none" /\ NoCall.n = 0 /\ NoCall.moved = <<>>
BY EmptySeq DEF NoCall, Calls

\* The state after the end of a call.
LEMMA EndsIs ==
  ASSUME NEW p, NEW c \in Calls, NEW s \in Seq(Byte), NEW d1, NEW err, NEW alone,
         Ends(p, c, s, d1, err, alone)
  PROVE  /\ call' = [call EXCEPT ![p] = NoCall]
         /\ ret'.p = p /\ ret'.op = c.op /\ ret'.n = c.n /\ ret'.moved = c.moved \o s
         /\ ret'.d1 = d1 /\ ret'.err = err /\ ret'.alone = alone
BY MovedIs DEF Ends, Return

\* What nobody has returned from is not counted.
LEMMA NoRetIs == /\ NoRet.op = "none" /\ NoRet.err = "none"
BY DEF NoRet

\* The bytes of a text, read with any length, are the same.
LEMMA DataIs ==
  ASSUME NEW n \in Nat
  PROVE  /\ Data(n) \in Seq(Byte) /\ Len(Data(n)) = n
<1>1. Data(n) \in [1 .. n -> Byte]
  BY DEF Data, Byte
<1> QED BY <1>1

\* A write that goes on where it had come to has written a longer beginning of its bytes.
LEMMA PrefixGoesOn ==
  ASSUME NEW c \in Calls, NEW w \in 0 .. c.n, NEW put \in Seq(Byte), Len(put) <= c.n - w,
         c.moved = SubSeq(Data(c.n), 1, w),
         \A i \in 1 .. Len(put) : put[i] = Source(c, w, i)
  PROVE  c.moved \o put = SubSeq(Data(c.n), 1, w + Len(put))
<1>1. c.n \in Nat /\ c.moved \in Seq(Byte) /\ w \in Nat /\ w <= c.n /\ Len(put) \in Nat
  BY DEF Calls
<1>2. Data(c.n) \in Seq(Byte) /\ Len(Data(c.n)) = c.n
  BY <1>1, DataIs
<1>3. \A i \in 1 .. c.n : Data(c.n)[i] \in Byte
  BY <1>2
<1>4. Len(c.moved) = w /\ \A i \in 1 .. w : c.moved[i] = Data(c.n)[i]
  <2>1. \A i \in 1 .. w : Data(c.n)[i] \in Byte
    BY <1>1, <1>3
  <2> QED BY <1>1, <2>1, SubSeqProperties
<1> DEFINE t == SubSeq(Data(c.n), 1, w + Len(put))
<1>5. /\ t \in Seq(Byte) /\ Len(t) = w + Len(put)
      /\ \A i \in 1 .. w + Len(put) : t[i] = Data(c.n)[i]
  <2>1. \A i \in 1 .. w + Len(put) : Data(c.n)[i] \in Byte
    BY <1>1, <1>3
  <2>2. w + Len(put) \in Nat
    BY <1>1
  <2> QED BY <1>1, <2>1, <2>2, SubSeqProperties
<1>6. /\ c.moved \o put \in Seq(Byte) /\ Len(c.moved \o put) = w + Len(put)
      /\ \A i \in 1 .. w + Len(put) :
           (c.moved \o put)[i] = IF i <= w THEN c.moved[i] ELSE put[i - w]
  BY <1>1, <1>4, ConcatProperties
<1>7. ASSUME NEW i \in 1 .. w + Len(put) PROVE (c.moved \o put)[i] = t[i]
  <2>1. CASE i <= w
    BY <1>1, <1>4, <1>5, <1>6, <2>1
  <2>2. CASE ~(i <= w)
    <3>1. i - w \in 1 .. Len(put) /\ w + (i - w) = i /\ i <= c.n
      BY <1>1, <2>2
    <3>2. put[i - w] = Data(c.n)[i]
      BY <3>1 DEF Source
    <3> QED BY <1>5, <1>6, <2>2, <3>2
  <2> QED BY <2>1, <2>2
<1> QED BY <1>1, <1>5, <1>6, <1>7, SeqEqual

\* A turn of a write keeps the invariant, if its bytes so far are the ones it began with.
LEMMA WriteStepInv ==
  ASSUME PipesInv, NEW p \in Proc, NEW c \in Calls, c.op \in {"write", "writeln"}, c.n < Word,
         open, links[p] > 0, call[p] \in {NoCall, c},
         NEW written \in 0 .. Word - 1, NEW put \in Seq(Byte), WriteStep(p, c, written, put),
         together' \in [read : BOOLEAN, write : BOOLEAN], together'.read = together.read,
         ~together'.write => /\ Writers \subseteq {p} /\ written <= c.n
                             /\ c.moved = SubSeq(Data(c.n), 1, written)
  PROVE  PipesInv'
<1>0. PipesTypeOK /\ Word \in Nat /\ Word > 0
  BY PipesAssumption DEF PipesInv
<1>1. /\ prp' = prp /\ bread' = bread /\ consumers' = consumers /\ cuts' = cuts
      /\ open' = open /\ named' = named /\ linkcount' = linkcount /\ links' = links
  BY DEF WriteStep, path
<1>2. PICK x \in {NoCall, Moved(c, put)} :
        /\ call' = [call EXCEPT ![p] = x]
        /\ \/ /\ x = NoCall
              /\ ret'.op = c.op /\ ret'.n = c.n /\ ret'.moved = c.moved \o put
              /\ \/ ret'.d1 = bwritten' /\ ret'.err = "none"
                 \/ ret'.err = "E_WRITE"
           \/ ret' = NoRet
  <2>1. CASE Ends(p, c, put, bwritten', "none", FALSE)
    BY <2>1, EndsIs
  <2>2. CASE Ends(p, c, put, c.n, "E_WRITE", FALSE)
    BY <2>2, EndsIs
  <2>3. CASE GoesOn(p, c, put)
    BY <2>3 DEF GoesOn, Wait
  <2> QED BY <2>1, <2>2, <2>3 DEF WriteStep
<1>3. x \in Calls /\ x.op \in {"none", "write", "writeln"} /\ x.n < Word
      /\ (x.op = "none" => x = NoCall)
  BY <1>0, <1>2, MovedIs, NoCallIs
<1>4. /\ \A q \in Proc : call'[q] = IF q = p THEN x ELSE call[q]
      /\ call' \in [Proc -> Calls]
  BY <1>0, <1>2, <1>3 DEF PipesTypeOK
<1>5. Readers' = Readers /\ p \notin Readers
  BY <1>3, <1>4, NoCallIs DEF Readers, Waiting
<1>6. PipesTypeOK'
  <2>1. written + Len(put) \in Int
    OBVIOUS
  <2>2. bwritten' \in 0 .. Word - 1
    BY <2>1, Fits DEF WriteStep
  <2> QED BY <1>0, <1>1, <1>4, <2>2 DEF PipesTypeOK, WriteStep, RingBounded, RingOK
<1>7. LinksOK' /\ CallsOK' /\ ConsumersOK'
  <2>1. LinksOK'
    BY <1>1 DEF PipesInv, LinksOK, Pairs
  <2>2. CallsOK'
    BY <1>1, <1>3, <1>4 DEF PipesInv, CallsOK
  <2>3. ConsumersOK'
    BY <1>1, <1>5 DEF PipesInv, ConsumersOK
  <2> QED BY <2>1, <2>2, <2>3
<1>8. ReadInTurn'
  <2>1. \A q \in Readers : q # p /\ call'[q] = call[q]
    BY <1>4, <1>5 DEF Readers, Waiting
  <2>2. ~together.read => \A q \in Readers : /\ \A r \in Readers : r = q
                                             /\ bread = Len(call[q].moved) /\ bread <= call[q].n
    BY DEF PipesInv, ReadInTurn
  <2> QED BY <1>1, <1>5, <2>1, <2>2 DEF ReadInTurn
<1>9. ASSUME ~together'.write
      PROVE  /\ written + Len(put) <= c.n /\ bwritten' = written + Len(put)
             /\ c.moved \o put = SubSeq(Data(c.n), 1, bwritten')
             /\ Len(c.moved \o put) = bwritten'
  <2>1. written \in 0 .. c.n /\ c.n \in Nat
    BY <1>9 DEF Calls
  <2>2. (c.n - written) % Word = c.n - written
    <3>1. c.n - written \in 0 .. Word - 1
      BY <1>0, <2>1
    <3> QED BY <3>1, Fits
  <2>3. Len(put) \in Nat /\ Len(put) <= c.n - written
    BY <2>2 DEF WriteStep
  <2>4. (written + Len(put)) % Word = written + Len(put)
    <3>1. written + Len(put) \in 0 .. Word - 1
      BY <1>0, <2>1, <2>3
    <3> QED BY <3>1, Fits
  <2>5. c.moved \o put = SubSeq(Data(c.n), 1, written + Len(put))
    BY <1>9, <2>1, <2>3, PrefixGoesOn DEF WriteStep
  <2>6. Len(SubSeq(Data(c.n), 1, written + Len(put))) = written + Len(put)
    <3>1. \A i \in 1 .. written + Len(put) : Data(c.n)[i] \in Byte
      <4>1. Data(c.n) \in Seq(Byte) /\ Len(Data(c.n)) = c.n
        BY <2>1, DataIs
      <4> QED BY <2>1, <2>3, <4>1
    <3>2. written + Len(put) \in Nat
      BY <2>1, <2>3
    <3> QED BY <3>1, <3>2, SubSeqProperties
  <2> QED BY <2>1, <2>3, <2>4, <2>5, <2>6 DEF WriteStep
<1>10. WriteInTurn'
  <2> SUFFICES ASSUME ~together'.write, NEW q \in Writers'
               PROVE  /\ \A r \in Writers' : r = q
                      /\ bwritten' <= call'[q].n
                      /\ call'[q].moved = SubSeq(Data(call'[q].n), 1, bwritten')
    BY DEF WriteInTurn
  <2>1. Writers' \subseteq {p}
    BY <1>4 DEF Writers, Waiting
  <2>2. q = p /\ call'[q] = x /\ x.op # "none"
    BY <1>4, <2>1 DEF Writers, Waiting
  <2>3. x.n = c.n /\ x.moved = c.moved \o put
    BY <1>2, <2>2, MovedIs, NoCallIs
  <2> QED BY <1>9, <2>1, <2>2, <2>3
<1>11. CountsInTurn' /\ NoPrematureEof'
  <2>1. CASE ret' = NoRet
    BY <2>1, NoRetIs DEF CountsInTurn, NoPrematureEof
  <2>2. CASE ret'.err = "E_WRITE"
    BY <2>2 DEF CountsInTurn, NoPrematureEof
  <2>3. CASE /\ ret'.op = c.op /\ ret'.n = c.n /\ ret'.moved = c.moved \o put
             /\ ret'.d1 = bwritten' /\ ret'.err = "none"
    BY <1>9, <2>3 DEF CountsInTurn, CountsRight, NoPrematureEof
  <2> QED BY <1>2, <2>1, <2>2, <2>3
<1> QED BY <1>6, <1>7, <1>8, <1>10, <1>11 DEF PipesInv

\* When there are no more paths than waiting readers, all who have a path wait to read.
LEMMA NobodyWrites ==
  ASSUME PipesInv, NEW p \in Proc, links[p] > 0,
         linkcount <= Cardinality(Readers \ {p}) + 1
  PROVE  Alone(p)
<1>1. links \in Numbers
  BY DEF PipesInv, PipesTypeOK, Numbers
<1>2. \A q \in Readers : q \in Proc /\ links[q] > 0
  BY NoCallIs DEF PipesInv, CallsOK, Readers, Waiting
<1>3. linkcount = Cardinality(Pairs(links))
  BY DEF PipesInv, LinksOK
<1>4. ASSUME NEW q \in Proc \ {p}, links[q] > 0, q \notin Readers
      PROVE  FALSE
  <2> DEFINE R == Readers \ {p}
             S == (R \cup {p}) \cup {q}
  <2>1. S \in SUBSET Proc /\ \A r \in S : links[r] > 0
    BY <1>2, <1>4
  <2>2. IsFiniteSet(S) /\ Cardinality(S) <= linkcount
    <3> HIDE DEF S
    <3> QED BY <1>1, <1>3, <2>1, PairsEach
  <2>3. IsFiniteSet(R)
    BY <2>2, FS_Subset
  <2>4. IsFiniteSet(R \cup {p}) /\ Cardinality(R \cup {p}) = Cardinality(R) + 1
    BY <2>3, FS_AddElement
  <2>5. q \notin R \cup {p}
    BY <1>4
  <2>6. Cardinality(S) = Cardinality(R \cup {p}) + 1
    BY <2>4, <2>5, FS_AddElement
  <2>7. Cardinality(R) \in Nat /\ linkcount \in Nat
    BY <1>3, <2>3, FS_CardinalityType, PairsFinite
  <2> HIDE DEF S, R
  <2>8. linkcount <= Cardinality(R) + 1
    BY DEF R
  <2> QED BY <2>2, <2>4, <2>6, <2>7, <2>8
<1> QED BY <1>4 DEF Alone

\* A turn of a read keeps the invariant, and reports no end of file too early.
LEMMA ReadStepInv ==
  ASSUME PipesInv, NEW p \in Proc, NEW c \in Calls, c.op \in {"read", "readln"}, c.n < Word,
         open, links[p] > 0, call[p] \in {NoCall, c},
         NEW read \in 0 .. Word - 1,
         NEW cons \in Nat, cons = Cardinality(Readers \ {p}) + 1 + cuts,
         NEW got \in Seq(Byte), ReadStep(p, c, read, cons, got),
         together' \in [read : BOOLEAN, write : BOOLEAN], together'.write = together.write,
         ~together'.read => Readers \subseteq {p} /\ read <= c.n /\ read = Len(c.moved)
  PROVE  PipesInv'
<1>0. PipesTypeOK /\ Word \in Nat /\ Word > 0 /\ cuts \in Nat
  BY PipesAssumption DEF PipesInv, PipesTypeOK
<1>1. /\ pwp' = pwp /\ bwritten' = bwritten /\ cuts' = cuts
      /\ open' = open /\ named' = named /\ linkcount' = linkcount /\ links' = links
  BY DEF ReadStep, path
<1>2. PICK x \in {NoCall, Moved(c, got)} :
        /\ call' = [call EXCEPT ![p] = x]
        /\ \/ /\ x = NoCall /\ consumers' = cons - 1
              /\ ret'.op = c.op /\ ret'.n = c.n /\ ret'.moved = c.moved \o got
              /\ ret'.d1 = bread'
              /\ ret'.err # "E_EOF" \/ (NobodyElse(cons) /\ ret'.alone = Alone(p))
           \/ /\ x = Moved(c, got) /\ consumers' = cons
              /\ ret' = NoRet
  <2>1. CASE Ends(p, c, got, bread', "none", FALSE) /\ consumers' = Done(cons)
    <3>1. /\ call' = [call EXCEPT ![p] = NoCall]
          /\ ret'.op = c.op /\ ret'.n = c.n /\ ret'.moved = c.moved \o got
          /\ ret'.d1 = bread' /\ ret'.err = "none"
      BY <2>1, MovedIs DEF Ends, Return
    <3> QED BY <2>1, <3>1 DEF Done
  <2>2. CASE /\ NobodyElse(cons) /\ consumers' = Done(cons)
             /\ Ends(p, c, got, bread', IF bread' = 0 THEN "E_EOF" ELSE "none", Alone(p))
    <3> DEFINE err == IF bread' = 0 THEN "E_EOF" ELSE "none"
               alone == Alone(p)
    <3>1. Ends(p, c, got, bread', err, alone)
      BY <2>2
    <3> HIDE DEF err, alone
    <3>2. /\ call' = [call EXCEPT ![p] = NoCall]
          /\ ret'.op = c.op /\ ret'.n = c.n /\ ret'.moved = c.moved \o got
          /\ ret'.d1 = bread' /\ ret'.alone = alone
      BY <3>1, MovedIs DEF Ends, Return
    <3> QED BY <2>2, <3>2 DEF Done, alone
  <2>3. CASE GoesOn(p, c, got) /\ consumers' = cons
    BY <2>3 DEF GoesOn, Wait
  <2> QED BY <2>1, <2>2, <2>3 DEF ReadStep
<1>3. x \in Calls /\ x.op \in {"none", "read", "readln"} /\ x.n < Word
      /\ (x.op = "none" => x = NoCall)
  BY <1>0, <1>2, MovedIs, NoCallIs
<1>4. /\ \A q \in Proc : call'[q] = IF q = p THEN x ELSE call[q]
      /\ call' \in [Proc -> Calls]
  BY <1>0, <1>2, <1>3 DEF PipesTypeOK
<1>5. Writers' = Writers /\ p \notin Writers
  BY <1>3, <1>4, NoCallIs DEF Writers, Waiting
<1>6. Readers' = IF x = NoCall THEN Readers \ {p} ELSE (Readers \ {p}) \cup {p}
  <2>1. \A q \in Proc : q \in Readers <=> call[q].op \in {"read", "readln"}
    BY DEF Readers, Waiting
  <2>2. \A q \in Proc : q \in Readers' <=> call'[q].op \in {"read", "readln"}
    BY DEF Readers, Waiting
  <2>3. Readers \subseteq Proc /\ Readers' \subseteq Proc
    BY DEF Readers, Waiting
  <2>4. x # NoCall => x.op \in {"read", "readln"}
    BY <1>3
  <2> QED BY <1>4, <2>1, <2>2, <2>3, <2>4, NoCallIs
<1>7. /\ IsFiniteSet(Readers \ {p}) /\ Cardinality(Readers \ {p}) \in Nat
      /\ Cardinality((Readers \ {p}) \cup {p}) = Cardinality(Readers \ {p}) + 1
  <2> DEFINE R == Readers \ {p}
  <2>1. R \in SUBSET Proc /\ p \notin R
    BY DEF Readers, Waiting
  <2> HIDE DEF R
  <2>2. IsFiniteSet(R) /\ Cardinality(R) \in Nat
    BY <2>1, PipesAssumption, FS_Subset, FS_CardinalityType
  <2>3. Cardinality(R \cup {p}) = Cardinality(R) + 1
    BY <2>1, <2>2, FS_AddElement
  <2> QED BY <2>2, <2>3 DEF R
<1>8. consumers' = Cardinality(Readers') + cuts
  <2>1. CASE x = NoCall /\ consumers' = cons - 1
    BY <1>0, <1>6, <1>7, <2>1
  <2>2. CASE x = Moved(c, got) /\ consumers' = cons
    <3>1. x # NoCall
      BY <2>2, MovedIs, NoCallIs
    <3> QED BY <1>0, <1>6, <1>7, <2>2, <3>1
  <2> QED BY <1>2, <2>1, <2>2
<1>9. PipesTypeOK'
  <2>1. read + Len(got) \in Int
    OBVIOUS
  <2>2. bread' \in 0 .. Word - 1
    BY <2>1, Fits DEF ReadStep
  <2>3. consumers' \in Nat
    BY <1>0, <1>2, <1>7
  <2> QED BY <1>0, <1>1, <1>4, <2>2, <2>3 DEF PipesTypeOK, ReadStep, RingBounded, RingOK
<1>10. LinksOK' /\ CallsOK' /\ ConsumersOK'
  <2>1. LinksOK'
    BY <1>1 DEF PipesInv, LinksOK, Pairs
  <2>2. CallsOK'
    BY <1>1, <1>3, <1>4 DEF PipesInv, CallsOK
  <2>3. ConsumersOK'
    BY <1>1, <1>8 DEF ConsumersOK
  <2> QED BY <2>1, <2>2, <2>3
<1>11. WriteInTurn'
  <2>1. \A q \in Writers : q # p /\ call'[q] = call[q]
    BY <1>4, <1>5 DEF Writers, Waiting
  <2>2. ~together.write => \A q \in Writers : /\ \A r \in Writers : r = q
                                              /\ bwritten <= call[q].n
                                              /\ call[q].moved = SubSeq(Data(call[q].n), 1, bwritten)
    BY DEF PipesInv, WriteInTurn
  <2> QED BY <1>1, <1>5, <2>1, <2>2 DEF WriteInTurn
<1>12. ASSUME ~together'.read
       PROVE  /\ read + Len(got) <= c.n /\ bread' = read + Len(got)
              /\ Len(c.moved \o got) = bread'
  <2>1. read \in 0 .. c.n /\ c.n \in Nat
    BY <1>12 DEF Calls
  <2>2. (c.n - read) % Word = c.n - read
    <3>1. c.n - read \in 0 .. Word - 1
      BY <1>0, <2>1
    <3> QED BY <3>1, Fits
  <2>3. Len(got) \in Nat /\ Len(got) <= c.n - read
    BY <2>2 DEF ReadStep
  <2>4. (read + Len(got)) % Word = read + Len(got)
    <3>1. read + Len(got) \in 0 .. Word - 1
      BY <1>0, <2>1, <2>3
    <3> QED BY <3>1, Fits
  <2>5. Len(c.moved \o got) = Len(c.moved) + Len(got)
    <3>1. c.moved \in Seq(Byte)
      BY DEF Calls
    <3> QED BY <3>1, ConcatProperties
  <2> QED BY <1>12, <2>1, <2>3, <2>4, <2>5 DEF ReadStep
<1>13. ReadInTurn'
  <2> SUFFICES ASSUME ~together'.read, NEW q \in Readers'
               PROVE  /\ \A r \in Readers' : r = q
                      /\ bread' = Len(call'[q].moved) /\ bread' <= call'[q].n
    BY DEF ReadInTurn
  <2>1. Readers' \subseteq {p}
    BY <1>6
  <2>2. q = p /\ call'[q] = x /\ x.op # "none"
    BY <1>4, <2>1 DEF Readers, Waiting
  <2>3. x.n = c.n /\ x.moved = c.moved \o got
    BY <1>2, <2>2, MovedIs, NoCallIs
  <2> QED BY <1>12, <2>1, <2>2, <2>3
<1>14. CountsInTurn' /\ NoPrematureEof'
  <2>1. CASE ret' = NoRet
    BY <2>1, NoRetIs DEF CountsInTurn, NoPrematureEof
  <2>2. CASE /\ ret'.op = c.op /\ ret'.moved = c.moved \o got
             /\ ret'.d1 = bread'
             /\ ret'.err # "E_EOF" \/ (NobodyElse(cons) /\ ret'.alone = Alone(p))
    <3>1. CountsInTurn'
      BY <1>12, <2>2 DEF CountsInTurn, CountsRight
    <3>2. ASSUME ret'.err = "E_EOF", cuts' = 0 PROVE ret'.alone
      <4>1. NobodyElse(cons) /\ ret'.alone = Alone(p)
        BY <2>2, <3>2
      <4>2. cons = Cardinality(Readers \ {p}) + 1
        BY <1>1, <1>7, <3>2
      <4>3. linkcount <= Cardinality(Readers \ {p}) + 1
        BY <1>7, <4>1, <4>2 DEF NobodyElse
      <4>4. Alone(p)
        BY <4>3, NobodyWrites
      <4> QED BY <4>1, <4>4
    <3> QED BY <3>1, <3>2 DEF NoPrematureEof
  <2> QED BY <1>2, <2>1, <2>2
<1> QED BY <1>9, <1>10, <1>11, <1>13, <1>14 DEF PipesInv

\* A step that moves no bytes of a call keeps the invariant, when calls at most end.
LEMMA QuietStepInv ==
  ASSUME PipesInv, RingBounded', together' = together, ret' = NoRet,
         cuts' \in 0 .. MaxCuts, consumers' \in Nat, consumers' = Cardinality(Readers') + cuts',
         open' \in BOOLEAN, named' \in BOOLEAN, links' \in Numbers,
         linkcount' \in 0 .. MaxLinks, LinksOK',
         call' \in [Proc -> Calls],
         \A q \in Proc : /\ call'[q] \in {NoCall, call[q]}
                         /\ call'[q] # NoCall => links'[q] > 0,
         bread' \in 0 .. Word - 1, bwritten' \in 0 .. Word - 1,
         \/ bread' = bread /\ bwritten' = bwritten
         \/ \A q \in Proc : call'[q] = NoCall
  PROVE  PipesInv'
<1>1. PipesTypeOK'
  BY DEF PipesInv, PipesTypeOK, RingBounded, RingOK, Numbers
<1>2. CallsOK'
  <2>1. Word > 0
    BY PipesAssumption
  <2> QED BY <2>1, NoCallIs DEF PipesInv, CallsOK
<1>3. ConsumersOK'
  BY DEF ConsumersOK
<1>4. \A q \in Proc : call'[q] # NoCall => call'[q] = call[q]
  OBVIOUS
<1>5. /\ \A q \in Readers' : q \in Readers /\ call'[q] = call[q] /\ call'[q] # NoCall
      /\ \A q \in Writers' : q \in Writers /\ call'[q] = call[q] /\ call'[q] # NoCall
      /\ Readers' \subseteq Proc /\ Writers' \subseteq Proc
  BY <1>4, NoCallIs DEF Readers, Writers, Waiting
<1>6. ReadInTurn'
  <2> SUFFICES ASSUME ~together'.read, NEW q \in Readers'
               PROVE  /\ \A r \in Readers' : r = q
                      /\ bread' = Len(call'[q].moved) /\ bread' <= call'[q].n
    BY DEF ReadInTurn
  <2>1. q \in Readers /\ call'[q] = call[q] /\ bread' = bread /\ \A r \in Readers' : r \in Readers
    BY <1>5
  <2>2. /\ \A r \in Readers : r = q
        /\ bread = Len(call[q].moved) /\ bread <= call[q].n
    BY <2>1 DEF PipesInv, ReadInTurn
  <2> QED BY <2>1, <2>2
<1>7. WriteInTurn'
  <2> SUFFICES ASSUME ~together'.write, NEW q \in Writers'
               PROVE  /\ \A r \in Writers' : r = q
                      /\ bwritten' <= call'[q].n
                      /\ call'[q].moved = SubSeq(Data(call'[q].n), 1, bwritten')
    BY DEF WriteInTurn
  <2>1. q \in Writers /\ call'[q] = call[q] /\ bwritten' = bwritten /\ \A r \in Writers' : r \in Writers
    BY <1>5
  <2>2. /\ \A r \in Writers : r = q
        /\ bwritten <= call[q].n
        /\ call[q].moved = SubSeq(Data(call[q].n), 1, bwritten)
    BY <2>1 DEF PipesInv, WriteInTurn
  <2> QED BY <2>1, <2>2
<1>8. CountsInTurn' /\ NoPrematureEof'
  BY NoRetIs DEF CountsInTurn, NoPrematureEof
<1> QED BY <1>1, <1>2, <1>3, <1>6, <1>7, <1>8 DEF PipesInv

\* What the invariant says of the number of paths.
LEMMA LinksFacts ==
  ASSUME PipesInv
  PROVE  /\ links \in Numbers /\ linkcount \in 0 .. MaxLinks
         /\ linkcount = Cardinality(Pairs(links))
         /\ \A p \in Proc : links[p] \in Nat /\ links[p] <= linkcount
         /\ \A p \in Proc : links[p] > 0 => open
         /\ MaxLinks \in Nat \ {0} /\ RingBounded
<1>1. links \in Numbers /\ linkcount \in 0 .. MaxLinks /\ MaxLinks \in Nat \ {0} /\ RingBounded
  BY PipesAssumption DEF PipesInv, PipesTypeOK, Numbers, RingBounded, RingOK
<1>2. linkcount = Cardinality(Pairs(links)) /\ (linkcount > 0 => open)
  BY DEF PipesInv, LinksOK
<1>3. \A p \in Proc : links[p] \in Nat /\ links[p] <= linkcount
  <2>1. \A p \in Proc : links[p] <= Cardinality(Pairs(links))
    BY <1>1, PairsEach
  <2> QED BY <1>1, <1>2, <2>1 DEF Numbers
<1>4. \A p \in Proc : links[p] > 0 => open
  BY <1>1, <1>2, <1>3
<1> QED BY <1>1, <1>2, <1>3, <1>4

\* A call before it has moved anything.
LEMMA FreshCall ==
  ASSUME NEW op \in Ops, NEW n \in Nat
  PROVE  LET c == [op |-> op, n |-> n, moved |-> <<>>]
         IN  c \in Calls /\ c.op = op /\ c.n = n /\ c.moved = <<>>
BY EmptySeq DEF Calls

\* What a program passes fits the counters; a line is no longer than what it was cut from.
LEMMA LensFit ==
  ASSUME NEW n \in Lens
  PROVE  /\ n \in Nat /\ n < Word
         /\ Len(Line(Data(n))) \in Nat /\ Len(Line(Data(n))) < Word
<1>1. n \in Nat /\ n < Word /\ Word \in Nat
  BY PipesAssumption
<1>2. Data(n) \in Seq(Byte) /\ Len(Data(n)) = n
  BY <1>1, DataIs
<1>3. PICK k \in 0 .. n : Line(Data(n)) = SubSeq(Data(n), 1, k)
  BY <1>2, LineIs
<1>4. \A i \in 1 .. k : Data(n)[i] \in Byte
  BY <1>1, <1>2
<1>5. Len(SubSeq(Data(n), 1, k)) = k
  <2>1. k \in Nat
    BY <1>1
  <2> QED BY <1>4, <2>1, SubSeqProperties
<1> QED BY <1>1, <1>3, <1>5

\* The invariant at the start.
LEMMA InitInv == Init => PipesInv
<1> SUFFICES ASSUME Init PROVE PipesInv
  OBVIOUS
<1>1. /\ links = [p \in Proc |-> 0] /\ linkcount = 0 /\ call = [p \in Proc |-> NoCall]
      /\ ret = NoRet /\ consumers = 0 /\ cuts = 0 /\ bread = 0 /\ bwritten = 0
      /\ open = FALSE /\ named = FALSE
      /\ together = [read |-> FALSE, write |-> FALSE]
  BY DEF Init
<1>2. size \in Nat /\ SAFETY < size /\ SAFETY \in Nat /\ Word \in Nat /\ size < Word
      /\ MaxLinks \in Nat /\ MaxCuts \in Nat
  BY PipesAssumption
<1>3. RingBounded
  <2>1. buf \in [Cells -> Byte]
    BY DEF Init, Byte
  <2>2. RingOK /\ Pipe_NReady = 0
    BY <2>1, NothingIn DEF Init
  <2> QED BY <1>2, <2>2 DEF RingBounded
<1>4. PipesTypeOK
  <2>1. call \in [Proc -> Calls] /\ links \in [Proc -> 0 .. MaxLinks]
    BY <1>1, <1>2, NoCallIs
  <2>2. together \in [read : BOOLEAN, write : BOOLEAN]
    BY <1>1, Zenon
  <2>3. /\ bread \in 0 .. Word - 1 /\ bwritten \in 0 .. Word - 1 /\ consumers \in Nat
        /\ cuts \in 0 .. MaxCuts /\ linkcount \in 0 .. MaxLinks
    <3>1. 0 \in Nat /\ 0 \in 0 .. Word - 1 /\ 0 \in 0 .. MaxCuts /\ 0 \in 0 .. MaxLinks
      BY <1>2
    <3> QED BY <1>1, <3>1
  <2>4. open \in BOOLEAN /\ named \in BOOLEAN
    BY <1>1
  <2> QED BY <1>3, <2>1, <2>2, <2>3, <2>4 DEF PipesTypeOK, RingBounded, RingOK
<1>5. LinksOK
  <2>1. Pairs(links) = {}
    BY <1>1, <1>2 DEF Pairs
  <2> QED BY <1>1, <2>1, FS_EmptySet DEF LinksOK
<1>6. Readers = {} /\ Writers = {}
  BY <1>1, NoCallIs DEF Readers, Writers, Waiting
<1>7. CallsOK
  BY <1>1, <1>2, NoCallIs DEF CallsOK
<1>8. ConsumersOK /\ ReadInTurn /\ WriteInTurn
  BY <1>1, <1>6, FS_EmptySet DEF ConsumersOK, ReadInTurn, WriteInTurn
<1>9. CountsInTurn /\ NoPrematureEof
  BY <1>1, NoRetIs DEF CountsInTurn, NoPrematureEof
<1> QED BY <1>4, <1>5, <1>7, <1>8, <1>9 DEF PipesInv

\* I$Write and I$WritLn.
LEMMA WriteInv ==
  ASSUME PipesInv, NEW p \in Proc, NEW n \in Lens, NEW op \in {"write", "writeln"},
         Write(p, op, n)
  PROVE  PipesInv'
<1> DEFINE len == IF op = "writeln" THEN Len(Line(Data(n))) ELSE n
           c == [op |-> op, n |-> len, moved |-> <<>>]
<1>1. /\ open /\ links[p] > 0 /\ call[p] = NoCall
      /\ together' = [together EXCEPT !.write = (Writers # {})]
      /\ WriteSysTask(p, c, 0)
  BY DEF Write
<1>2. len \in Nat /\ len < Word
  BY LensFit
<1>3. c \in Calls /\ c.op = op /\ c.n = len /\ c.moved = <<>>
  <2> HIDE DEF len
  <2> QED BY <1>2, FreshCall DEF Ops
<1> HIDE DEF c, len
<1>4. RingBounded /\ 0 \in 0 .. Word - 1
  BY LinksFacts, PipesAssumption
<1>5. PICK put \in Seq(Byte) : WriteStep(p, c, 0, put)
  BY <1>1, <1>3, <1>4, WriteTakesStep
<1>6. together \in [read : BOOLEAN, write : BOOLEAN]
  BY DEF PipesInv, PipesTypeOK
<1>7. /\ together' \in [read : BOOLEAN, write : BOOLEAN] /\ together'.read = together.read
      /\ ~together'.write => Writers = {}
  BY <1>1, <1>6
<1>8. c.moved = SubSeq(Data(c.n), 1, 0)
  BY <1>3, SubSeqEmpty
<1> QED BY <1>1, <1>2, <1>3, <1>4, <1>5, <1>7, <1>8, WriteStepInv

\* pWriteSysTask, at a turn of the process.
LEMMA WriteTurnInv ==
  ASSUME PipesInv, NEW p \in Proc, WriteTurn(p)
  PROVE  PipesInv'
<1>1. /\ call[p].op \in {"write", "writeln"} /\ WriteSysTask(p, call[p], bwritten)
      /\ together' = together
  BY DEF WriteTurn
<1>2. /\ call[p] \in Calls /\ bwritten \in 0 .. Word - 1 /\ bwritten \in Nat
      /\ together \in [read : BOOLEAN, write : BOOLEAN]
  BY PipesAssumption DEF PipesInv, PipesTypeOK
<1>3. call[p].n < Word /\ links[p] > 0
  BY <1>1, NoCallIs DEF PipesInv, CallsOK
<1>4. open /\ RingBounded
  BY <1>3, LinksFacts
<1>5. PICK put \in Seq(Byte) : WriteStep(p, call[p], bwritten, put)
  BY <1>1, <1>2, <1>4, WriteTakesStep
<1>6. ~together'.write => /\ Writers \subseteq {p} /\ bwritten <= call[p].n
                          /\ call[p].moved = SubSeq(Data(call[p].n), 1, bwritten)
  <2>1. p \in Writers
    BY <1>1 DEF Writers, Waiting
  <2> QED BY <1>1, <2>1 DEF PipesInv, WriteInTurn
<1> QED BY <1>1, <1>2, <1>3, <1>4, <1>5, <1>6, WriteStepInv

\* I$Read and I$ReadLn.
LEMMA ReadInv ==
  ASSUME PipesInv, NEW p \in Proc, NEW n \in Lens, NEW op \in {"read", "readln"},
         Read(p, op, n)
  PROVE  PipesInv'
<1> DEFINE c == [op |-> op, n |-> n, moved |-> <<>>]
<1>1. /\ open /\ links[p] > 0 /\ call[p] = NoCall
      /\ together' = [together EXCEPT !.read = (Readers # {})]
      /\ ReadSysTask(p, c, 0, consumers + 1)
  BY DEF Read
<1>2. n \in Nat /\ n < Word
  BY LensFit
<1>3. c \in Calls /\ c.op = op /\ c.n = n /\ c.moved = <<>>
  BY <1>2, FreshCall DEF Ops
<1> HIDE DEF c
<1>4. RingBounded /\ 0 \in 0 .. Word - 1 /\ consumers \in Nat
  BY LinksFacts, PipesAssumption DEF PipesInv, PipesTypeOK
<1>5. consumers + 1 = Cardinality(Readers \ {p}) + 1 + cuts /\ consumers + 1 \in Nat
  <2>1. Readers \ {p} = Readers
    BY <1>1, NoCallIs DEF Readers, Waiting
  <2>2. Readers \in SUBSET Proc
    BY DEF Readers, Waiting
  <2>3. IsFiniteSet(Readers) /\ Cardinality(Readers) \in Nat /\ cuts \in Nat
    BY <2>2, PipesAssumption, FS_Subset, FS_CardinalityType DEF PipesInv, PipesTypeOK
  <2>4. Cardinality(Readers \ {p}) = Cardinality(Readers)
    BY <2>1
  <2>5. consumers = Cardinality(Readers) + cuts
    BY DEF PipesInv, ConsumersOK
  <2> QED BY <1>4, <2>3, <2>4, <2>5
<1>6. PICK got \in Seq(Byte) : ReadStep(p, c, 0, consumers + 1, got)
  BY <1>1, <1>3, <1>4, <1>5, ReadTakesStep
<1>7. together \in [read : BOOLEAN, write : BOOLEAN]
  BY DEF PipesInv, PipesTypeOK
<1>8. /\ together' \in [read : BOOLEAN, write : BOOLEAN] /\ together'.write = together.write
      /\ ~together'.read => Readers = {}
  BY <1>1, <1>7
<1>9. 0 = Len(c.moved)
  BY <1>3
<1> QED BY <1>1, <1>2, <1>3, <1>4, <1>5, <1>6, <1>8, <1>9, ReadStepInv

\* pReadSysTask, at a turn of the process.
LEMMA ReadTurnInv ==
  ASSUME PipesInv, NEW p \in Proc, ReadTurn(p)
  PROVE  PipesInv'
<1>1. /\ call[p].op \in {"read", "readln"} /\ ReadSysTask(p, call[p], bread, consumers)
      /\ together' = together
  BY DEF ReadTurn
<1>2. /\ call[p] \in Calls /\ bread \in 0 .. Word - 1 /\ bread \in Nat /\ consumers \in Nat
      /\ together \in [read : BOOLEAN, write : BOOLEAN] /\ cuts \in Nat
  BY PipesAssumption DEF PipesInv, PipesTypeOK
<1>3. call[p].n < Word /\ links[p] > 0
  BY <1>1, NoCallIs DEF PipesInv, CallsOK
<1>4. open /\ RingBounded
  BY <1>3, LinksFacts
<1>5. PICK got \in Seq(Byte) : ReadStep(p, call[p], bread, consumers, got)
  BY <1>1, <1>2, <1>4, ReadTakesStep
<1>6. p \in Readers /\ Readers \in SUBSET Proc
  BY <1>1 DEF Readers, Waiting
<1>7. ~together'.read => /\ Readers \subseteq {p} /\ bread <= call[p].n
                         /\ bread = Len(call[p].moved)
  BY <1>1, <1>6 DEF PipesInv, ReadInTurn
<1>8. consumers = Cardinality(Readers \ {p}) + 1 + cuts
  <2>1. IsFiniteSet(Readers) /\ Cardinality(Readers) \in Nat
    BY <1>6, PipesAssumption, FS_Subset, FS_CardinalityType
  <2>2. Cardinality(Readers \ {p}) = Cardinality(Readers) - 1
    BY <1>6, <2>1, FS_RemoveElement
  <2> QED BY <1>2, <2>1, <2>2 DEF PipesInv, ConsumersOK
<1> QED BY <1>1, <1>2, <1>3, <1>4, <1>5, <1>7, <1>8, ReadStepInv

\* The ring after it was made or cleared.
LEMMA EmptyBounded ==
  ASSUME prp' = 0, pwp' = 0, buf' = [c \in Cells |-> "junk"]
  PROVE  RingBounded'
<1>1. buf' \in [Cells -> Byte]
  BY DEF Byte
<1> QED BY <1>1, PipesAssumption DEF RingBounded, RingOK, Cells, Pipe_NReady

\* One more path for a process, while there is room for it.
LEMMA OneMore ==
  ASSUME PipesInv, open, NEW p \in Proc, NEW n \in Nat, linkcount + n <= MaxLinks, open' = open,
         linkcount' = linkcount + n, links' = [links EXCEPT ![p] = links[p] + n]
  PROVE  links' \in Numbers /\ LinksOK' /\ linkcount' \in 0 .. MaxLinks
<1>1. /\ links \in Numbers /\ linkcount \in 0 .. MaxLinks
      /\ links[p] \in Nat /\ links[p] <= linkcount /\ linkcount = Cardinality(Pairs(links))
  BY LinksFacts
<1>2. MaxLinks \in Nat
  BY PipesAssumption
<1>3. links[p] + n <= MaxLinks
  BY <1>1, <1>2
<1>4. links' \in Numbers /\ Cardinality(Pairs(links')) = Cardinality(Pairs(links)) + n
  BY <1>1, <1>3, PairsAdd
<1> QED BY <1>1, <1>2, <1>4 DEF LinksOK

\* SS_Size: nobody's call ends, and the number of paths stays.
LEMMA ClearInv ==
  ASSUME PipesInv, NEW p \in Proc, Clear(p)
  PROVE  PipesInv'
<1>1. /\ prp' = 0 /\ pwp' = 0 /\ buf' = [c \in Cells |-> "junk"] /\ ret' = NoRet
      /\ bread' = bread /\ bwritten' = bwritten /\ consumers' = consumers
      /\ together' = together /\ cuts' = cuts
      /\ open' = open /\ named' = named /\ linkcount' = linkcount /\ links' = links /\ call' = call
  BY DEF Clear, path
<1>2. RingBounded'
  BY <1>1, EmptyBounded
<1>3. /\ links' \in Numbers /\ linkcount' \in 0 .. MaxLinks /\ LinksOK'
  BY <1>1, LinksFacts DEF PipesInv, LinksOK
<1>4. /\ open' \in BOOLEAN /\ named' \in BOOLEAN /\ call' \in [Proc -> Calls]
      /\ bread' \in 0 .. Word - 1 /\ bwritten' \in 0 .. Word - 1 /\ cuts' \in 0 .. MaxCuts
      /\ consumers' \in Nat
  BY <1>1 DEF PipesInv, PipesTypeOK
<1>5. consumers' = Cardinality(Readers') + cuts'
  BY <1>1 DEF PipesInv, ConsumersOK, Readers, Waiting
<1>6. \A q \in Proc : call'[q] \in {NoCall, call[q]} /\ (call'[q] # NoCall => links'[q] > 0)
  BY <1>1 DEF PipesInv, CallsOK
<1> QED BY <1>1, <1>2, <1>3, <1>4, <1>5, <1>6, QuietStepInv

\* Actions that leave the ring and the calls alone.
LEMMA PathStepInv ==
  ASSUME PipesInv, UNCHANGED <<pipe, call>>, ret' = NoRet,
         open' \in BOOLEAN, named' \in BOOLEAN, links' \in Numbers,
         linkcount' \in 0 .. MaxLinks, LinksOK',
         \A q \in Proc : call[q] # NoCall => links'[q] > 0
  PROVE  PipesInv'
<1>1. /\ prp' = prp /\ pwp' = pwp /\ buf' = buf /\ call' = call
      /\ bread' = bread /\ bwritten' = bwritten /\ consumers' = consumers
      /\ together' = together /\ cuts' = cuts
  BY DEF pipe
<1>2. RingBounded'
  BY <1>1, LinksFacts DEF RingBounded, RingOK, Pipe_NReady
<1>3. /\ call' \in [Proc -> Calls]
      /\ bread' \in 0 .. Word - 1 /\ bwritten' \in 0 .. Word - 1 /\ cuts' \in 0 .. MaxCuts
      /\ consumers' \in Nat
  BY <1>1 DEF PipesInv, PipesTypeOK
<1>4. consumers' = Cardinality(Readers') + cuts'
  BY <1>1 DEF PipesInv, ConsumersOK, Readers, Waiting
<1>5. \A q \in Proc : call'[q] \in {NoCall, call[q]} /\ (call'[q] # NoCall => links'[q] > 0)
  BY <1>1
<1> QED BY <1>1, <1>2, <1>3, <1>4, <1>5, QuietStepInv

\* pPopen.
LEMMA OpenInv ==
  ASSUME PipesInv, NEW p \in Proc, Open(p)
  PROVE  PipesInv'
<1>0. /\ links \in Numbers /\ linkcount \in 0 .. MaxLinks /\ MaxLinks \in Nat \ {0}
      /\ links[p] \in Nat /\ links[p] <= linkcount /\ linkcount = Cardinality(Pairs(links))
      /\ open \in BOOLEAN /\ named \in BOOLEAN
  BY LinksFacts DEF PipesInv, PipesTypeOK
<1>1. links' = [links EXCEPT ![p] = links[p] + 1] /\ ret' = NoRet /\ call' = call
  BY DEF Open
<1>2. CASE ~open
  <2>1. /\ buf' = [c \in Cells |-> "junk"] /\ prp' = 0 /\ pwp' = 0
        /\ bread' = 0 /\ bwritten' = 0 /\ consumers' = 0 /\ cuts' = 0
        /\ together' = together /\ open' = TRUE /\ named' \in BOOLEAN /\ linkcount' = 1
    BY <1>2 DEF Open
  <2>2. linkcount = 0 /\ \A q \in Proc : ~(links[q] > 0)
    BY <1>0, <1>2, LinksFacts DEF PipesInv, LinksOK
  <2>3. \A q \in Proc : call[q] = NoCall
    BY <2>2 DEF PipesInv, CallsOK
  <2>4. RingBounded'
    BY <2>1, EmptyBounded
  <2>5. links' \in Numbers /\ LinksOK' /\ linkcount' \in 0 .. MaxLinks
    <3>1. links' \in Numbers /\ Cardinality(Pairs(links')) = Cardinality(Pairs(links)) + 1
      <4>1. links[p] + 1 <= MaxLinks /\ 1 \in Nat
        BY <1>0, <2>2
      <4> QED BY <1>0, <1>1, <4>1, PairsAdd
    <3>2. linkcount' = Cardinality(Pairs(links'))
      <4>1. linkcount' = 1 /\ 0 + 1 = 1 /\ Cardinality(Pairs(links)) = 0
        BY <1>0, <2>1, <2>2
      <4> QED BY <3>1, <4>1
    <3>3. linkcount' \in 0 .. MaxLinks
      <4>1. 1 \in 0 .. MaxLinks
        BY <1>0
      <4> QED BY <2>1, <4>1
    <3> QED BY <2>1, <3>1, <3>2, <3>3 DEF LinksOK
  <2>6. Readers' = {}
    BY <1>1, <2>3, NoCallIs DEF Readers, Waiting
  <2>7. consumers' = Cardinality(Readers') + cuts'
    BY <2>1, <2>6, FS_EmptySet
  <2>8. /\ open' \in BOOLEAN /\ call' \in [Proc -> Calls]
        /\ bread' \in 0 .. Word - 1 /\ bwritten' \in 0 .. Word - 1 /\ cuts' \in 0 .. MaxCuts
        /\ consumers' \in Nat
    BY <1>1, <2>1, PipesAssumption DEF PipesInv, PipesTypeOK
  <2> QED BY <1>1, <2>1, <2>3, <2>4, <2>5, <2>7, <2>8, QuietStepInv
<1>3. CASE open
  <2>1. /\ named /\ linkcount < MaxLinks /\ linkcount' = linkcount + 1
        /\ UNCHANGED <<pipe, open, named>>
    BY <1>3 DEF Open
  <2>2. links' \in Numbers /\ LinksOK' /\ linkcount' \in 0 .. MaxLinks
    <3>1. linkcount + 1 <= MaxLinks /\ 1 \in Nat
      BY <1>0, <2>1
    <3>2. open' = open /\ linkcount' = linkcount + 1
      BY <2>1
    <3> QED BY <1>1, <1>3, <3>1, <3>2, OneMore
  <2>3. \A q \in Proc : call[q] # NoCall => links'[q] > 0
    BY <1>0, <1>1 DEF PipesInv, CallsOK, Numbers
  <2> QED BY <1>0, <1>1, <2>1, <2>2, <2>3, PathStepInv
<1> QED BY <1>2, <1>3

\* I$Dup.
LEMMA DupInv ==
  ASSUME PipesInv, NEW p \in Proc, Dup(p)
  PROVE  PipesInv'
<1>1. /\ links[p] > 0 /\ linkcount < MaxLinks /\ linkcount' = linkcount + 1
      /\ links' = [links EXCEPT ![p] = links[p] + 1]
      /\ ret' = NoRet /\ UNCHANGED <<pipe, call>>
  BY DEF Dup
<1>2. open' = open /\ named' = named
  BY DEF Dup
<1>3. linkcount \in Nat /\ MaxLinks \in Nat /\ open /\ links \in Numbers
  BY <1>1, LinksFacts
<1>4. linkcount + 1 <= MaxLinks /\ 1 \in Nat
  BY <1>1, <1>3
<1>5. links' \in Numbers /\ LinksOK' /\ linkcount' \in 0 .. MaxLinks
  BY <1>1, <1>2, <1>3, <1>4, OneMore
<1>6. \A q \in Proc : call[q] # NoCall => links'[q] > 0
  BY <1>1, <1>3 DEF PipesInv, CallsOK, Numbers
<1>7. open' \in BOOLEAN /\ named' \in BOOLEAN
  BY <1>2 DEF PipesInv, PipesTypeOK
<1> QED BY <1>1, <1>5, <1>6, <1>7, PathStepInv

\* F$Fork.
LEMMA ForkInv ==
  ASSUME PipesInv, NEW p \in Proc, NEW child \in Proc, NEW n \in 1 .. MaxLinks,
         Fork(p, child, n)
  PROVE  PipesInv'
<1>1. /\ links[child] = 0 /\ n <= links[p] /\ linkcount + n <= MaxLinks
      /\ linkcount' = linkcount + n /\ links' = [links EXCEPT ![child] = n]
      /\ ret' = NoRet /\ UNCHANGED <<pipe, call>>
  BY DEF Fork
<1>2. open' = open /\ named' = named
  BY DEF Fork
<1>3. /\ linkcount \in Nat /\ MaxLinks \in Nat /\ n \in Nat /\ n > 0 /\ links \in Numbers
      /\ links[p] \in Nat
  BY LinksFacts
<1>4. links[p] > 0
  BY <1>1, <1>3
<1>5. open
  BY <1>4, LinksFacts
<1>6. links' = [links EXCEPT ![child] = links[child] + n]
  <2>1. links[child] + n = n
    BY <1>1, <1>3
  <2> QED BY <1>1, <2>1
<1>7. links' \in Numbers /\ LinksOK' /\ linkcount' \in 0 .. MaxLinks
  BY <1>1, <1>2, <1>3, <1>5, <1>6, OneMore
<1>8. \A q \in Proc : call[q] # NoCall => links'[q] > 0
  BY <1>1, <1>3 DEF PipesInv, CallsOK, Numbers
<1>9. open' \in BOOLEAN /\ named' \in BOOLEAN
  BY <1>2 DEF PipesInv, PipesTypeOK
<1> QED BY <1>1, <1>7, <1>8, <1>9, PathStepInv

\* syspath_close takes as many from the link count as from the process.
LEMMA CloseIs ==
  ASSUME PipesInv, NEW p \in Proc, NEW n \in 0 .. links[p], Close(p, n)
  PROVE  /\ links' \in Numbers /\ LinksOK' /\ linkcount' \in 0 .. MaxLinks
         /\ open' \in BOOLEAN /\ named' \in BOOLEAN
         /\ \A q \in Proc \ {p} : links'[q] = links[q]
<1>1. /\ links \in Numbers /\ linkcount \in 0 .. MaxLinks /\ linkcount = Cardinality(Pairs(links))
      /\ links[p] \in Nat /\ links[p] <= linkcount /\ MaxLinks \in Nat
  BY LinksFacts
<1>2. /\ linkcount' = linkcount - n /\ links' = [links EXCEPT ![p] = links[p] - n]
      /\ open' = (linkcount > n \/ (named /\ prp # pwp)) /\ named' = named
  BY DEF Close
<1>3. links' \in Numbers /\ Cardinality(Pairs(links')) = Cardinality(Pairs(links)) - n
  BY <1>1, <1>2, PairsLess
<1>4. linkcount' = Cardinality(Pairs(links')) /\ linkcount' \in 0 .. MaxLinks
  <2>1. linkcount' = linkcount - n
    BY <1>2
  <2>2. linkcount - n \in 0 .. MaxLinks
    BY <1>1
  <2> QED BY <1>1, <1>3, <2>1, <2>2
<1>5. linkcount' > 0 => open'
  <2>1. linkcount - n > 0 => linkcount > n
    BY <1>1
  <2> QED BY <1>2, <2>1
<1>6. open' \in BOOLEAN /\ named' \in BOOLEAN
  BY <1>2 DEF PipesInv, PipesTypeOK
<1>7. \A q \in Proc \ {p} : links'[q] = links[q]
  BY <1>1, <1>2 DEF Numbers
<1> QED BY <1>3, <1>4, <1>5, <1>6, <1>7 DEF LinksOK

\* I$Close.
LEMMA ClosePathInv ==
  ASSUME PipesInv, NEW p \in Proc, ClosePath(p)
  PROVE  PipesInv'
<1>1. /\ call[p] = NoCall /\ links[p] > 0 /\ Close(p, 1) /\ ret' = NoRet /\ UNCHANGED <<pipe, call>>
  BY DEF ClosePath
<1>2. 1 \in 0 .. links[p]
  BY <1>1, LinksFacts
<1>3. /\ links' \in Numbers /\ LinksOK' /\ linkcount' \in 0 .. MaxLinks
      /\ open' \in BOOLEAN /\ named' \in BOOLEAN
      /\ \A q \in Proc \ {p} : links'[q] = links[q]
  BY <1>1, <1>2, CloseIs
<1>4. \A q \in Proc : call[q] # NoCall => links'[q] > 0
  BY <1>1, <1>3 DEF PipesInv, CallsOK
<1> QED BY <1>1, <1>3, <1>4, PathStepInv

\* A call that is forgotten leaves consumers as many as readers and cuts.
LEMMA CutIs ==
  ASSUME PipesInv, NEW p \in Proc, CutShort(p), call' = [call EXCEPT ![p] = NoCall]
  PROVE  /\ RingBounded' /\ together' = together /\ bread' = bread /\ bwritten' = bwritten
         /\ cuts' \in 0 .. MaxCuts /\ consumers' \in Nat
         /\ consumers' = Cardinality(Readers') + cuts'
         /\ bread' \in 0 .. Word - 1 /\ bwritten' \in 0 .. Word - 1
         /\ call' \in [Proc -> Calls]
         /\ \A q \in Proc : call'[q] = IF q = p THEN NoCall ELSE call[q]
<1>1. /\ p \in Readers => cuts < MaxCuts
      /\ cuts' = IF p \in Readers THEN cuts + 1 ELSE cuts
      /\ buf' = buf /\ prp' = prp /\ pwp' = pwp /\ bread' = bread /\ bwritten' = bwritten
      /\ consumers' = consumers /\ together' = together
  BY DEF CutShort
<1>2. /\ call \in [Proc -> Calls] /\ cuts \in 0 .. MaxCuts /\ MaxCuts \in Nat /\ consumers \in Nat
      /\ bread \in 0 .. Word - 1 /\ bwritten \in 0 .. Word - 1
  BY PipesAssumption DEF PipesInv, PipesTypeOK
<1>3. RingBounded'
  BY <1>1, LinksFacts DEF RingBounded, RingOK, Pipe_NReady
<1>4. /\ call' \in [Proc -> Calls]
      /\ \A q \in Proc : call'[q] = IF q = p THEN NoCall ELSE call[q]
  BY <1>2, NoCallIs
<1>5. Readers' = Readers \ {p} /\ Readers \in SUBSET Proc
  BY <1>4, NoCallIs DEF Readers, Waiting
<1>6. IsFiniteSet(Readers) /\ Cardinality(Readers) \in Nat
  BY <1>5, PipesAssumption, FS_Subset, FS_CardinalityType
<1>7. Cardinality(Readers') = IF p \in Readers THEN Cardinality(Readers) - 1 ELSE Cardinality(Readers)
  BY <1>5, <1>6, FS_RemoveElement
<1>8. consumers = Cardinality(Readers) + cuts
  BY DEF PipesInv, ConsumersOK
<1>9. consumers' = Cardinality(Readers') + cuts' /\ cuts' \in 0 .. MaxCuts
  BY <1>1, <1>2, <1>6, <1>7, <1>8
<1> QED BY <1>1, <1>2, <1>3, <1>4, <1>9

\* F$Exit and a signal that kills.
LEMMA ExitInv ==
  ASSUME PipesInv, NEW p \in Proc, Exit(p)
  PROVE  PipesInv'
<1>1. /\ CutShort(p) /\ Close(p, links[p]) /\ call' = [call EXCEPT ![p] = NoCall] /\ ret' = NoRet
  BY DEF Exit
<1>2. links[p] \in 0 .. links[p]
  BY LinksFacts
<1>3. /\ links' \in Numbers /\ LinksOK' /\ linkcount' \in 0 .. MaxLinks
      /\ open' \in BOOLEAN /\ named' \in BOOLEAN
      /\ \A q \in Proc \ {p} : links'[q] = links[q]
  BY <1>1, <1>2, CloseIs
<1>4. \A q \in Proc : /\ call'[q] \in {NoCall, call[q]}
                      /\ call'[q] # NoCall => links'[q] > 0
  BY <1>1, <1>3, CutIs DEF PipesInv, CallsOK
<1> QED BY <1>1, <1>3, <1>4, CutIs, QuietStepInv

\* A signal to a process with an intercept routine.
LEMMA InterruptInv ==
  ASSUME PipesInv, NEW p \in Proc, Interrupt(p)
  PROVE  PipesInv'
<1>1. /\ CutShort(p) /\ call' = [call EXCEPT ![p] = NoCall] /\ ret' = NoRet
      /\ open' = open /\ named' = named /\ linkcount' = linkcount /\ links' = links
  BY DEF Interrupt, path
<1>2. /\ links' \in Numbers /\ LinksOK' /\ linkcount' \in 0 .. MaxLinks
      /\ open' \in BOOLEAN /\ named' \in BOOLEAN
  BY <1>1, LinksFacts DEF PipesInv, PipesTypeOK, LinksOK
<1>3. \A q \in Proc : /\ call'[q] \in {NoCall, call[q]}
                      /\ call'[q] # NoCall => links'[q] > 0
  BY <1>1, CutIs DEF PipesInv, CallsOK
<1> QED BY <1>1, <1>2, <1>3, CutIs, QuietStepInv

\* I$Delete.
LEMMA DeleteInv ==
  ASSUME PipesInv, Delete
  PROVE  PipesInv'
<1>1. /\ linkcount = 0 /\ linkcount' = linkcount /\ links' = links /\ open' = FALSE
      /\ named' = named /\ ret' = NoRet /\ UNCHANGED <<pipe, call>>
  BY DEF Delete
<1>2. links' \in Numbers /\ linkcount' \in 0 .. MaxLinks /\ linkcount' = Cardinality(Pairs(links'))
  BY <1>1, LinksFacts
<1>3. LinksOK'
  <2>1. ~(linkcount' > 0)
    BY <1>1
  <2> QED BY <1>2, <2>1 DEF LinksOK
<1>4. open' \in BOOLEAN /\ named' \in BOOLEAN
  BY <1>1 DEF PipesInv, PipesTypeOK
<1>5. \A q \in Proc : call[q] # NoCall => links'[q] > 0
  BY <1>1 DEF PipesInv, CallsOK
<1> QED BY <1>1, <1>2, <1>3, <1>4, <1>5, PathStepInv

\* Every step keeps the invariant.
LEMMA StepInv == PipesInv /\ [Next]_vars => PipesInv'
<1> SUFFICES ASSUME PipesInv, [Next]_vars PROVE PipesInv'
  OBVIOUS
<1>1. CASE UNCHANGED vars
  BY <1>1 DEF vars, pipe, path, PipesInv, PipesTypeOK, LinksOK, CallsOK, ConsumersOK, ReadInTurn,
     WriteInTurn, CountsInTurn, CountsRight, NoPrematureEof, Readers, Writers, Waiting,
     Pipe_NReady, Pairs
<1>2. ASSUME NEW p \in Proc, NEW n \in Lens, NEW op \in {"write", "writeln"}, Write(p, op, n)
      PROVE  PipesInv'
  BY <1>2, WriteInv
<1>3. ASSUME NEW p \in Proc, NEW n \in Lens, NEW op \in {"read", "readln"}, Read(p, op, n)
      PROVE  PipesInv'
  BY <1>3, ReadInv
<1>4. ASSUME NEW p \in Proc,
             \/ Turn(p) \/ Clear(p) \/ Open(p) \/ Dup(p) \/ ClosePath(p) \/ Exit(p) \/ Interrupt(p)
      PROVE  PipesInv'
  BY <1>4, ReadTurnInv, WriteTurnInv, ClearInv, OpenInv, DupInv, ClosePathInv, ExitInv,
     InterruptInv DEF Turn
<1>5. ASSUME NEW p \in Proc, NEW child \in Proc, NEW n \in 1 .. MaxLinks, Fork(p, child, n)
      PROVE  PipesInv'
  BY <1>5, ForkInv
<1>6. CASE Delete
  BY <1>6, DeleteInv
<1> QED BY <1>1, <1>2, <1>3, <1>4, <1>5, <1>6 DEF Next

\* The invariant always holds.
LEMMA AlwaysInv == Spec => []PipesInv
BY InitInv, StepInv, PTL DEF Spec

\* The pointers stay in the buffer, which is never filled beyond SAFETY, and all counters in
\* their range, whoever reads, writes, clears or closes (pipefiles.c).
THEOREM PipesTypeCorrect == Spec => []PipesTypeOK
<1>1. PipesInv => PipesTypeOK
  BY DEF PipesInv
<1> QED BY <1>1, AlwaysInv, PTL

\* A read or write that is alone in its direction reports what it has moved, however many
\* turns it took: bread and bwritten are as good as its own.
THEOREM PipesCount == Spec => []CountsInTurn
<1>1. PipesInv => CountsInTurn
  BY DEF PipesInv
<1> QED BY <1>1, AlwaysInv, PTL

\* Comparing linkcount with consumers finds the end of file only when nobody is left who
\* could write, until a reader is cut short.
THEOREM EofInTime == Spec => []NoPrematureEof
<1>1. PipesInv => NoPrematureEof
  BY DEF PipesInv
<1> QED BY <1>1, AlwaysInv, PTL

\* The functions the main loop calls for a waiting process find the pipe in place.
THEOREM PipeStays == Spec => []NoDanglingCall
<1>1. PipesInv => NoDanglingCall
  <2> SUFFICES ASSUME PipesInv PROVE NoDanglingCall
    OBVIOUS
  <2>1. \A p \in Proc : call[p] # NoCall => links[p] > 0
    BY DEF PipesInv, CallsOK
  <2> QED BY <2>1, LinksFacts DEF NoDanglingCall
<1> QED BY <1>1, AlwaysInv, PTL

-----------------------------------------------------------------------------
(* The pipe is a queue                                                     *)

Sofar == [p \in Proc |-> call[p].moved]
Reported == [p \in Proc |-> IF ret.op # "none" /\ ret.p = p THEN ret.moved ELSE call[p].moved]

\* What comes behind a sequence is the rest of the longer one.
LEMMA RestIs ==
  ASSUME NEW s \in Seq(Byte), NEW t \in Seq(Byte)
  PROVE  /\ SubSeq(s \o t, Len(s) + 1, Len(s \o t)) = t
         /\ SubSeq(s \o t, 1, Len(s \o t) - Len(t)) = s
<1>1. /\ s \o t \in Seq(Byte) /\ Len(s \o t) = Len(s) + Len(t)
      /\ \A i \in 1 .. Len(s) + Len(t) :
           (s \o t)[i] = IF i <= Len(s) THEN s[i] ELSE t[i - Len(s)]
  BY ConcatProperties
<1>2. Len(s) \in Nat /\ Len(t) \in Nat
  OBVIOUS
<1> DEFINE b == s \o t
           r == SubSeq(b, Len(s) + 1, Len(s) + Len(t))
           f == SubSeq(b, 1, Len(s))
<1>3. /\ r \in Seq(Byte) /\ Len(r) = Len(t)
      /\ \A i \in 1 .. Len(t) : r[i] = b[Len(s) + i]
  <2>1. \A i \in Len(s) + 1 .. Len(s) + Len(t) : b[i] \in Byte
    BY <1>1, <1>2
  <2> HIDE DEF b
  <2> QED BY <1>2, <2>1, SubSeqProperties
<1>4. /\ f \in Seq(Byte) /\ Len(f) = Len(s)
      /\ \A i \in 1 .. Len(s) : f[i] = b[i]
  <2>1. \A i \in 1 .. Len(s) : b[i] \in Byte
    BY <1>1, <1>2
  <2> HIDE DEF b
  <2> QED BY <1>2, <2>1, SubSeqProperties
<1>5. r = t
  <2>1. ASSUME NEW i \in 1 .. Len(t) PROVE r[i] = t[i]
    <3>1. b[Len(s) + i] = t[Len(s) + i - Len(s)] /\ Len(s) + i - Len(s) = i
      BY <1>1, <1>2
    <3> QED BY <1>3, <3>1
  <2> HIDE DEF r
  <2> QED BY <1>3, <2>1, SeqEqual
<1>6. f = s
  <2>1. ASSUME NEW i \in 1 .. Len(s) PROVE f[i] = s[i]
    <3>1. b[i] = s[i]
      BY <1>1, <1>2
    <3> QED BY <1>4, <3>1
  <2> HIDE DEF f
  <2> QED BY <1>4, <2>1, SeqEqual
<1>7. Len(s) + Len(t) - Len(t) = Len(s)
  BY <1>2
<1> QED BY <1>1, <1>5, <1>6, <1>7

\* The call of p has moved the bytes s, and waits on or is over.
LEMMA CallGoesOn ==
  ASSUME PipesInv, NEW p \in Proc, NEW c \in Calls, c.op \in Ops, c.moved = call[p].moved,
         NEW s \in Seq(Byte),
         \/ /\ call' = [call EXCEPT ![p] = NoCall]
            /\ ret'.p = p /\ ret'.op = c.op /\ ret'.moved = c.moved \o s
         \/ /\ call' = [call EXCEPT ![p] = Moved(c, s)] /\ ret' = NoRet
  PROVE  Abstract!GoesOn(p, s)
<1>1. call \in [Proc -> Calls]
  BY DEF PipesInv, PipesTypeOK
<1> DEFINE m == call[p].moved \o s
<1>2. Sofar = [q \in Proc |-> call[q].moved] /\ [Sofar EXCEPT ![p] = @ \o s] = [Sofar EXCEPT ![p] = m]
  BY DEF Sofar
<1>3. Reported' = [Sofar EXCEPT ![p] = m]
  <2>1. \A q \in Proc : Reported'[q] = IF q = p THEN m ELSE call[q].moved
    <3>1. CASE /\ call' = [call EXCEPT ![p] = NoCall]
               /\ ret'.p = p /\ ret'.op = c.op /\ ret'.moved = c.moved \o s
      <4>1. ret'.op # "none" /\ ret'.moved = m
        BY <3>1 DEF Ops
      <4>2. \A q \in Proc : q # p => call'[q] = call[q]
        BY <1>1, <3>1
      <4> QED BY <3>1, <4>1, <4>2 DEF Reported
    <3>2. CASE call' = [call EXCEPT ![p] = Moved(c, s)] /\ ret' = NoRet
      <4>1. \A q \in Proc : call'[q] = IF q = p THEN Moved(c, s) ELSE call[q]
        BY <1>1, <3>2
      <4>2. Moved(c, s).moved = m
        BY MovedIs
      <4>3. \A q \in Proc : Reported'[q] = call'[q].moved
        BY <3>2, NoRetIs DEF Reported
      <4> HIDE DEF m
      <4> QED BY <4>1, <4>2, <4>3
    <3> QED BY <3>1, <3>2
  <2> HIDE DEF m
  <2> QED BY <2>1 DEF Reported, Sofar
<1>4. Sofar' \in {Reported', [Reported' EXCEPT ![p] = <<>>]}
  <2>1. CASE call' = [call EXCEPT ![p] = NoCall]
    <3>1. \A q \in Proc : Sofar'[q] = IF q = p THEN <<>> ELSE call[q].moved
      BY <1>1, <2>1, NoCallIs DEF Sofar
    <3>2. \A q \in Proc : Reported'[q] = IF q = p THEN m ELSE call[q].moved
      <4> HIDE DEF m
      <4> QED BY <1>3 DEF Sofar
    <3>3. Sofar' = [Reported' EXCEPT ![p] = <<>>]
      <4> HIDE DEF m
      <4> QED BY <3>1, <3>2 DEF Sofar, Reported
    <3> QED BY <3>3
  <2>2. CASE call' = [call EXCEPT ![p] = Moved(c, s)] /\ ret' = NoRet
    <3>1. Sofar' = Reported'
      BY <2>2, NoRetIs DEF Sofar, Reported
    <3> QED BY <3>1
  <2> QED BY <2>1, <2>2
<1> QED
  <2> HIDE DEF m
  <2> QED BY <1>2, <1>3, <1>4 DEF Abstract!GoesOn, Sofar, Reported

\* A turn of a write puts bytes.
LEMMA WriteRefines ==
  ASSUME PipesInv, NEW p \in Proc, NEW c \in Calls, c.op \in Ops, c.moved = call[p].moved,
         NEW written \in Nat, NEW put \in Seq(Byte), WriteStep(p, c, written, put)
  PROVE  Abstract!Put(p)
<1>1. /\ Content' = Content \o put /\ RingBounded'
      /\ \/ /\ call' = [call EXCEPT ![p] = NoCall]
            /\ ret'.p = p /\ ret'.op = c.op /\ ret'.moved = c.moved \o put
         \/ /\ call' = [call EXCEPT ![p] = Moved(c, put)] /\ ret' = NoRet
  <2>1. CASE Ends(p, c, put, bwritten', "none", FALSE)
    <3>1. /\ call' = [call EXCEPT ![p] = NoCall]
          /\ ret'.p = p /\ ret'.op = c.op /\ ret'.moved = c.moved \o put
      BY <2>1, MovedIs DEF Ends, Return
    <3> QED BY <3>1 DEF WriteStep
  <2>2. CASE Ends(p, c, put, c.n, "E_WRITE", FALSE)
    <3>1. /\ call' = [call EXCEPT ![p] = NoCall]
          /\ ret'.p = p /\ ret'.op = c.op /\ ret'.moved = c.moved \o put
      BY <2>2, MovedIs DEF Ends, Return
    <3> QED BY <3>1 DEF WriteStep
  <2>3. CASE GoesOn(p, c, put)
    BY <2>3 DEF GoesOn, Wait, WriteStep
  <2> QED BY <2>1, <2>2, <2>3 DEF WriteStep
<1>2. Abstract!GoesOn(p, put)
  BY <1>1, CallGoesOn
<1>3. Content \in Seq(Byte)
  BY LinksFacts, ContentIs DEF RingBounded, ContentOK
<1>4. put = SubSeq(Content', Len(Content) + 1, Len(Content'))
  BY <1>1, <1>3, RestIs
<1>5. Len(Content') <= size - SAFETY
  <2>1. RingOK' => ContentOK'
    BY ContentIs, PTL
  <2> QED BY <1>1, <2>1 DEF RingBounded, ContentOK
<1> DEFINE s == SubSeq(Content', Len(Content) + 1, Len(Content'))
<1>6. s = put
  BY <1>4
<1> HIDE DEF s
<1>7. Content' = Content \o s
  BY <1>1, <1>6
<1>8. Abstract!GoesOn(p, s)
  BY <1>2, <1>6 DEF Abstract!GoesOn
<1> QED BY <1>5, <1>7, <1>8 DEF Abstract!Put, s

\* A turn of a read takes bytes.
LEMMA ReadRefines ==
  ASSUME PipesInv, NEW p \in Proc, NEW c \in Calls, c.op \in Ops, c.moved = call[p].moved,
         NEW read \in Nat, NEW cons \in Nat, NEW got \in Seq(Byte),
         ReadStep(p, c, read, cons, got)
  PROVE  Abstract!Take(p)
<1>1. /\ Content = got \o Content' /\ RingBounded'
      /\ \/ /\ call' = [call EXCEPT ![p] = NoCall]
            /\ ret'.p = p /\ ret'.op = c.op /\ ret'.moved = c.moved \o got
         \/ /\ call' = [call EXCEPT ![p] = Moved(c, got)] /\ ret' = NoRet
  <2>1. CASE Ends(p, c, got, bread', "none", FALSE)
    <3>1. /\ call' = [call EXCEPT ![p] = NoCall]
          /\ ret'.p = p /\ ret'.op = c.op /\ ret'.moved = c.moved \o got
      BY <2>1, MovedIs DEF Ends, Return
    <3> QED BY <3>1 DEF ReadStep
  <2>2. CASE Ends(p, c, got, bread', IF bread' = 0 THEN "E_EOF" ELSE "none", Alone(p))
    <3> DEFINE err == IF bread' = 0 THEN "E_EOF" ELSE "none"
               alone == Alone(p)
    <3>1. Ends(p, c, got, bread', err, alone)
      BY <2>2
    <3> HIDE DEF err, alone
    <3>2. /\ call' = [call EXCEPT ![p] = NoCall]
          /\ ret'.p = p /\ ret'.op = c.op /\ ret'.moved = c.moved \o got
      BY <3>1, MovedIs DEF Ends, Return
    <3> QED BY <3>2 DEF ReadStep
  <2>3. CASE GoesOn(p, c, got)
    BY <2>3 DEF GoesOn, Wait, ReadStep
  <2> QED BY <2>1, <2>2, <2>3 DEF ReadStep
<1>2. Abstract!GoesOn(p, got)
  BY <1>1, CallGoesOn
<1>3. Content' \in Seq(Byte)
  <2>1. RingOK' => ContentOK'
    BY ContentIs, PTL
  <2> QED BY <1>1, <2>1 DEF RingBounded, ContentOK
<1>4. got = SubSeq(Content, 1, Len(Content) - Len(Content'))
  BY <1>1, <1>3, RestIs
<1> DEFINE s == SubSeq(Content, 1, Len(Content) - Len(Content'))
<1>5. s = got
  BY <1>4
<1> HIDE DEF s
<1>6. Content = s \o Content'
  BY <1>1, <1>5
<1>7. Abstract!GoesOn(p, s)
  BY <1>2, <1>5 DEF Abstract!GoesOn
<1> QED BY <1>6, <1>7 DEF Abstract!Take, s

\* Steps that leave calls alone are clearing or nothing.
LEMMA QuietRefines ==
  ASSUME call' = call, ret' = NoRet, Content' = <<>> \/ Content' = Content
  PROVE  Abstract!Next
<1>1. Sofar' = Sofar /\ Reported' = Sofar
  BY NoRetIs DEF Sofar, Reported
<1> QED BY <1>1 DEF Abstract!Next, Abstract!Clear, Abstract!Else, Sofar, Reported

\* A call that is forgotten is given up.
LEMMA CutRefines ==
  ASSUME PipesInv, NEW p \in Proc, CutShort(p), call' = [call EXCEPT ![p] = NoCall], ret' = NoRet
  PROVE  Abstract!GivenUp(p)
<1>1. Content' = Content
  BY DEF CutShort, Content, Pipe_NReady
<1>2. Sofar' = [Sofar EXCEPT ![p] = <<>>] /\ Reported' = Sofar'
  <2>1. \A q \in Proc : call'[q] = IF q = p THEN NoCall ELSE call[q]
    BY CutIs
  <2>2. \A q \in Proc : Sofar'[q] = IF q = p THEN <<>> ELSE Sofar[q]
    BY <2>1, NoCallIs DEF Sofar
  <2>3. Reported' = Sofar'
    BY NoRetIs DEF Sofar, Reported
  <2> QED BY <2>2, <2>3 DEF Sofar
<1> QED BY <1>1, <1>2 DEF Abstract!GivenUp, Sofar, Reported

\* I$Write and I$WritLn, and their later turns.
LEMMA WriteIsPut ==
  ASSUME PipesInv, NEW p \in Proc, NEW c \in Calls, c.op \in {"write", "writeln"},
         c.moved = call[p].moved, NEW written \in Nat, WriteSysTask(p, c, written)
  PROVE  Abstract!Put(p)
<1>1. PICK put \in Seq(Byte) : WriteStep(p, c, written, put)
  BY LinksFacts, WriteTakesStep
<1>2. c.op \in Ops
  BY DEF Ops
<1> QED BY <1>1, <1>2, WriteRefines

\* I$Read and I$ReadLn, and their later turns.
LEMMA ReadIsTake ==
  ASSUME PipesInv, NEW p \in Proc, NEW c \in Calls, c.op \in {"read", "readln"},
         c.moved = call[p].moved, NEW read \in Nat, NEW cons \in Nat,
         ReadSysTask(p, c, read, cons)
  PROVE  Abstract!Take(p)
<1>1. PICK got \in Seq(Byte) : ReadStep(p, c, read, cons, got)
  BY LinksFacts, ReadTakesStep
<1>2. c.op \in Ops
  BY DEF Ops
<1> QED BY <1>1, <1>2, ReadRefines

\* SS_Size with 0 and what is done with paths leave no bytes or the same ones.
LEMMA PathsRefine ==
  ASSUME PipesInv, NEW p \in Proc,
         \/ Clear(p) \/ Open(p) \/ Dup(p) \/ ClosePath(p) \/ Delete
         \/ \E child \in Proc, n \in 1 .. MaxLinks : Fork(p, child, n)
  PROVE  Abstract!Next
<1>1. ASSUME UNCHANGED pipe PROVE Content' = Content
  BY <1>1 DEF pipe, Content, Pipe_NReady
<1>2. ASSUME buf' = [c \in Cells |-> "junk"], prp' = 0, pwp' = 0 PROVE Content' = <<>>
  <2>1. RingOK' /\ Pipe_NReady' = 0
    BY <1>2, EmptyBounded DEF RingBounded, Pipe_NReady
  <2>2. RingOK' => ContentOK'
    BY ContentIs, PTL
  <2>3. Content' \in Seq(Byte) /\ Len(Content') = 0
    BY <2>1, <2>2 DEF ContentOK
  <2> QED BY <2>3
<1>3. call' = call /\ ret' = NoRet
  BY DEF Clear, Open, Dup, ClosePath, Delete, Fork
<1>4. Content' = <<>> \/ Content' = Content
  <2>1. CASE Clear(p)
    BY <1>2, <2>1 DEF Clear
  <2>2. CASE Open(p)
    BY <1>1, <1>2, <2>2 DEF Open
  <2>3. CASE \/ Dup(p) \/ ClosePath(p) \/ Delete
             \/ \E child \in Proc, n \in 1 .. MaxLinks : Fork(p, child, n)
    BY <1>1, <2>3 DEF Dup, ClosePath, Delete, Fork
  <2> QED BY <2>1, <2>2, <2>3
<1> QED BY <1>3, <1>4, QuietRefines

\* Every call of the system, and every turn of one that waits, is a step of the queue.
LEMMA StepRefines == PipesInv /\ [Next]_vars => [Abstract!Next]_(Abstract!vars)
<1> SUFFICES ASSUME PipesInv, [Next]_vars PROVE [Abstract!Next]_(Abstract!vars)
  OBVIOUS
<1>1. CASE UNCHANGED vars
  BY <1>1 DEF vars, pipe, Abstract!vars, Content, Pipe_NReady
<1>2. ASSUME NEW p \in Proc, NEW n \in Lens, NEW op \in {"write", "writeln"}, Write(p, op, n)
      PROVE  Abstract!Put(p)
  <2> DEFINE len == IF op = "writeln" THEN Len(Line(Data(n))) ELSE n
             c == [op |-> op, n |-> len, moved |-> <<>>]
  <2>1. len \in Nat
    BY LensFit
  <2>2. call[p] = NoCall /\ WriteSysTask(p, c, 0)
    BY <1>2 DEF Write
  <2>3. c \in Calls /\ c.op = op /\ c.moved = <<>>
    <3> HIDE DEF len
    <3> QED BY <2>1, FreshCall DEF Ops
  <2> HIDE DEF c
  <2> QED BY <2>2, <2>3, NoCallIs, WriteIsPut
<1>3. ASSUME NEW p \in Proc, NEW n \in Lens, NEW op \in {"read", "readln"}, Read(p, op, n)
      PROVE  Abstract!Take(p)
  <2> DEFINE c == [op |-> op, n |-> n, moved |-> <<>>]
  <2>1. n \in Nat
    BY LensFit
  <2>2. call[p] = NoCall /\ ReadSysTask(p, c, 0, consumers + 1)
    BY <1>3 DEF Read
  <2>3. c \in Calls /\ c.op = op /\ c.moved = <<>>
    BY <2>1, FreshCall DEF Ops
  <2> HIDE DEF c
  <2>4. c.op \in {"read", "readln"} /\ c.moved = call[p].moved
    BY <2>2, <2>3, NoCallIs
  <2>5. consumers + 1 \in Nat
    BY DEF PipesInv, PipesTypeOK
  <2>6. PICK got \in Seq(Byte) : ReadStep(p, c, 0, consumers + 1, got)
    BY <2>2, <2>3, <2>5, LinksFacts, ReadTakesStep
  <2> QED BY <2>3, <2>4, <2>5, <2>6, ReadRefines DEF Ops
<1>4. ASSUME NEW p \in Proc, Turn(p) PROVE Abstract!Put(p) \/ Abstract!Take(p)
  <2>1. call[p] \in Calls /\ bread \in Nat /\ bwritten \in Nat /\ consumers \in Nat
    BY PipesAssumption DEF PipesInv, PipesTypeOK
  <2>2. CASE WriteTurn(p)
    BY <2>1, <2>2, WriteIsPut DEF WriteTurn
  <2>3. CASE ReadTurn(p)
    BY <2>1, <2>3, ReadIsTake DEF ReadTurn
  <2> QED BY <1>4, <2>2, <2>3 DEF Turn
<1>5. ASSUME NEW p \in Proc, Exit(p) \/ Interrupt(p) PROVE Abstract!GivenUp(p)
  BY <1>5, CutRefines DEF Exit, Interrupt
<1>6. ASSUME NEW p \in Proc,
             \/ Clear(p) \/ Open(p) \/ Dup(p) \/ ClosePath(p)
             \/ \E child \in Proc, n \in 1 .. MaxLinks : Fork(p, child, n)
      PROVE  Abstract!Next
  BY <1>6, PathsRefine
<1>7. ASSUME Delete PROVE Abstract!Next
  <2>1. Content' = Content /\ call' = call /\ ret' = NoRet
    BY <1>7 DEF Delete, pipe, Content, Pipe_NReady
  <2> QED BY <2>1, QuietRefines
<1> QED BY <1>1, <1>2, <1>3, <1>4, <1>5, <1>6, <1>7 DEF Next, Abstract!Next

\* A pipe is a queue of bytes, for any number of processes, any sizes of the buffer and of
\* the reads and writes, also where these overlap, wait, wrap or are cut short.
THEOREM PipesAreFifo == Spec => PipeIsFifo
<1>1. Init => Abstract!Init
  <2> SUFFICES ASSUME Init PROVE Abstract!Init
    OBVIOUS
  <2>1. Content = <<>>
    <3>1. buf \in [Cells -> Byte] /\ prp = 0 /\ pwp = 0
      BY DEF Init, Byte
    <3> QED BY <3>1, NothingIn
  <2>2. call = [p \in Proc |-> NoCall] /\ ret = NoRet
    BY DEF Init
  <2>3. Sofar = [p \in Proc |-> <<>>] /\ Reported = Sofar
    BY <2>2, NoCallIs, NoRetIs DEF Sofar, Reported
  <2> QED BY <2>1, <2>3 DEF Abstract!Init, Sofar, Reported
<1>2. PipesInv /\ [Next]_vars => [Abstract!Next]_(Abstract!vars)
  BY StepRefines
<1> QED BY <1>1, <1>2, InitInv, StepInv, PTL DEF Spec, PipeIsFifo, Abstract!Spec
==============================================================================
