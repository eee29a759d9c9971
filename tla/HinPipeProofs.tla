--------------------------- MODULE HinPipeProofs ---------------------------
(***************************************************************************)
(* Proofs about HinPipe, for any size of the buffers and any pipes the     *)
(* callers create.  The inductive invariant is stated of a pipe record, so *)
(* that one lemma per function of pipe.c carries it.                       *)
(*                                                                         *)
(* s is the setup of the pipe, n the body bytes its source has given up, e *)
(* whether its feeder has sent the end record.                             *)
(***************************************************************************)
EXTENDS HinPipe, SequenceTheorems, WellFoundedInduction, TLAPS

Taken(s, n) == s.header + n

(* The buffers of que hold the bytes from a up to t and no others, none of *)
(* them empty.  (The third conjunct follows from the second by induction;  *)
(* it is part of the invariant instead.) *)
Chain(que, a, t) ==
  /\ que \in Seq(Buffer)
  /\ \A i \in 1 .. Len(que) : que[i].count >= 1
  /\ \A i \in 1 .. Len(que) - 1 : que[i + 1].start = End(que[i])
  /\ \A i, j \in 1 .. Len(que) : i < j => End(que[i]) <= que[j].start
  /\ IF que = <<>> THEN a = t ELSE que[1].start = a /\ End(que[Len(que)]) = t

(* The first byte that no write was submitted for. *)
Unsent(p) == IF p.writing = <<>> THEN p.count ELSE End(p.writing[1])

WritingOK(p) ==
  p.writing # <<>> =>
    /\ Len(p.writing) = 1
    /\ p.writing[1].start = p.count /\ p.writing[1].count >= 1
    /\ "OFFSETS" \in p.outFlags => p.writing[1].pos = p.count

(* The outstanding read asks for the bytes that come next, and for none    *)
(* beyond `left`. *)
ReadingOK(p, s, n) ==
  p.reading # <<>> =>
    /\ Len(p.reading) = 1
    /\ p.reading[1].count \in 1 .. ReadSz
    /\ "INACTIVE" \notin s.inFlags
    /\ "OFFSETS" \in s.inFlags => p.reading[1].pos = s.inStart + n
    /\ "COUNT" \in s.inFlags => n + p.reading[1].count <= s.left

(* Why a pipe whose input is DONE may have taken all it will take. *)
Exhausted(p, s, n, e) ==
  \/ n >= s.srcLen
  \/ "COUNT" \in s.inFlags /\ n >= s.left
  \/ e
  \/ p.errors # {}

(* What a pipe that reads for itself has queued: below the limit of the    *)
(* back-pressure, or no more than its caller put in. *)
Bounded(p, s) ==
  "INACTIVE" \notin s.inFlags =>
    \/ Queued(p.writeQue) < 3 * ReadSz
    \/ Queued(p.writeQue) <= Taken(s, s.prefed)

(* A pipe before hin_pipe_close. *)
Open(p, s, n, e) ==
  /\ p \in PipeType
  /\ p.inFlags \ {"DONE"} = s.inFlags /\ p.outFlags \ {"DONE"} = s.outFlags
  /\ p.condense = s.condense
  /\ p.callbacks = {"finish", "error"} /\ p.finished = 0 /\ ~ p.freed
  /\ "out" \notin p.errors
  /\ WritingOK(p)
  /\ "OFFSETS" \in s.outFlags => p.outPos = Unsent(p)
  /\ Chain(p.writeQue, Unsent(p), Taken(s, n))
  /\ ReadingOK(p, s, n)
  /\ p.reading # <<>> => "DONE" \notin p.inFlags /\ Queued(p.writeQue) < 2 * ReadSz
  /\ "OFFSETS" \in s.inFlags => p.inPos = s.inStart + n
  /\ "COUNT" \in s.inFlags => p.left = s.left - n
  /\ Bounded(p, s)
  /\ "DONE" \in p.inFlags => Exhausted(p, s, n, e)

(* ... and after it: the owner was told, and only a read that was          *)
(* outstanding when a write failed is awaited. *)
Closed(p, s, n, e) ==
  /\ p \in PipeType
  /\ {"DONE", "INACTIVE"} \subseteq p.inFlags /\ {"DONE", "INACTIVE"} \subseteq p.outFlags
  /\ p.callbacks = {} /\ p.finished = 1
  /\ p.writeQue = <<>> /\ p.writing = <<>>
  /\ p.freed <=> p.reading = <<>>
  /\ ReadingOK(p, s, n)
  /\ p.count <= Taken(s, n)
  /\ "out" \notin p.errors => p.freed /\ p.count = Taken(s, n)
  /\ Exhausted(p, s, n, e)

IInv == /\ setup \in Setups
        /\ started \in BOOLEAN /\ ended \in BOOLEAN /\ src \in Nat
        /\ Open(pipe, setup, src, ended) \/ Closed(pipe, setup, src, ended)
        /\ ~ started => /\ Open(pipe, setup, src, ended)
                        /\ pipe.reading = <<>> /\ pipe.writing = <<>>
        /\ sink = {<<j, j>> : j \in 0 .. pipe.count - 1}
        /\ CountRespected

----------------------------------------------------------------------------
(* What the operations on write_que do to a chain. *)

(* A chain from a to t holds t - a bytes. *)
LEMMA ChainQueued ==
  ASSUME NEW que, NEW a \in Nat, NEW t \in Nat, Chain(que, a, t)
  PROVE  Queued(que) = t - a /\ a <= t /\ (que # <<>> => a < t)
<1>1. CASE que = <<>>
  BY <1>1 DEF Chain, Queued
<1>2. CASE que # <<>>
  <2>1. que \in Seq(Buffer) /\ Len(que) \in Nat /\ Len(que) >= 1
    BY <1>2, EmptySeq, LenProperties DEF Chain
  <2>2. que[1] \in Buffer /\ que[Len(que)] \in Buffer
    BY <2>1, ElementOfSeq
  <2>3. que[1].start = a /\ End(que[Len(que)]) = t /\ que[1].count >= 1 /\ que[Len(que)].count >= 1
    BY <1>2, <2>1 DEF Chain
  <2>4. Len(que) > 1 => End(que[1]) <= que[Len(que)].start
    BY <2>1 DEF Chain
  <2>5. a < t
    BY <2>1, <2>2, <2>3, <2>4 DEF End, Buffer
  <2> QED BY <1>2, <2>3, <2>5 DEF Queued
<1> QED BY <1>1, <1>2

(* hin_pipe_append_raw of the bytes that come next. *)
LEMMA ChainAppend ==
  ASSUME NEW que, NEW a \in Nat, NEW t \in Nat, Chain(que, a, t),
         NEW b \in Buffer, b.start = t, b.count >= 1
  PROVE  Chain(Append(que, b), a, t + b.count)
<1> DEFINE r == Append(que, b)
<1>1. que \in Seq(Buffer) /\ Len(que) \in Nat
  BY LenProperties DEF Chain
<1>2. /\ r \in Seq(Buffer) /\ r # <<>> /\ Len(r) = Len(que) + 1
      /\ \A i \in 1 .. Len(que) : r[i] = que[i]
      /\ r[Len(que) + 1] = b
  BY <1>1, AppendProperties
<1>3. \A i \in 1 .. Len(que) : que[i] \in Buffer
  BY <1>1, ElementOfSeq
<1> HIDE DEF r
<1>4. \A i \in 1 .. Len(r) : r[i].count >= 1
  BY <1>1, <1>2 DEF Chain
<1>5. Len(que) > 0 => End(que[Len(que)]) = t
  BY <1>1 DEF Chain
<1>6. \A i \in 1 .. Len(r) - 1 : r[i + 1].start = End(r[i])
  <2> TAKE i \in 1 .. Len(r) - 1
  <2>1. CASE i = Len(que)
    BY <1>1, <1>2, <1>5, <2>1
  <2>2. CASE i < Len(que)
    BY <1>1, <1>2, <2>2 DEF Chain
  <2> QED BY <1>1, <1>2, <2>1, <2>2
<1>7. \A i \in 1 .. Len(que) : End(que[i]) <= t
  <2> TAKE i \in 1 .. Len(que)
  <2>1. CASE i = Len(que)
    BY <1>1, <1>5, <2>1
  <2>2. CASE i < Len(que)
    <3>1. End(que[i]) <= que[Len(que)].start
      BY <1>1, <2>2 DEF Chain
    <3>2. Len(que) \in 1 .. Len(que) /\ Len(que) > 0
      BY <1>1
    <3>3. que[Len(que)] \in Buffer /\ que[i] \in Buffer /\ End(que[Len(que)]) = t
      BY <1>3, <1>5, <3>2
    <3>4. que[Len(que)].start <= t /\ que[Len(que)].start \in Nat /\ End(que[i]) \in Nat
      BY <3>3, SMTT(30) DEF End, Buffer
    <3> QED BY <3>1, <3>4
  <2> QED BY <1>1, <2>1, <2>2
<1>8. \A i, j \in 1 .. Len(r) : i < j => End(r[i]) <= r[j].start
  <2> SUFFICES ASSUME NEW i \in 1 .. Len(r), NEW j \in 1 .. Len(r), i < j
               PROVE  End(r[i]) <= r[j].start
    OBVIOUS
  <2>1. CASE j = Len(que) + 1
    BY <1>1, <1>2, <1>7, <2>1
  <2>2. CASE j <= Len(que)
    BY <1>1, <1>2, <2>2 DEF Chain
  <2> QED BY <1>1, <1>2, <2>1, <2>2
<1>9. r[1].start = a /\ End(r[Len(r)]) = t + b.count
  <2>1. End(r[Len(r)]) = t + b.count
    BY <1>1, <1>2 DEF End
  <2>2. CASE que = <<>>
    <3>1. Len(que) = 0 /\ a = t
      BY <2>2 DEF Chain
    <3> QED BY <1>2, <2>1, <3>1
  <2>3. CASE que # <<>>
    <3>1. Len(que) >= 1 /\ que[1].start = a
      BY <1>1, <2>3, EmptySeq DEF Chain
    <3> QED BY <1>1, <1>2, <2>1, <3>1
  <2> QED BY <2>2, <2>3
<1> QED BY <1>2, <1>4, <1>6, <1>8, <1>9 DEF Chain, r

(* Taking the first buffer of write_que. *)
LEMMA ChainTail ==
  ASSUME NEW que, NEW a \in Nat, NEW t \in Nat, Chain(que, a, t), que # <<>>
  PROVE  /\ que[1] \in Buffer /\ que[1].start = a /\ que[1].count >= 1
         /\ Chain(Tail(que), End(que[1]), t)
<1> DEFINE r == Tail(que)
<1>1. que \in Seq(Buffer) /\ Len(que) \in Nat /\ Len(que) >= 1
  BY EmptySeq, LenProperties DEF Chain
<1>2. que[1] \in Buffer /\ que[1].start = a /\ que[1].count >= 1
  BY <1>1, ElementOfSeq DEF Chain
<1>3. /\ r \in Seq(Buffer) /\ Len(r) = Len(que) - 1
      /\ \A i \in 1 .. Len(r) : r[i] = que[i + 1]
  BY <1>1, HeadTailProperties
<1> HIDE DEF r
<1>4. \A i \in 1 .. Len(r) : r[i].count >= 1
  BY <1>1, <1>3 DEF Chain
<1>5. \A i \in 1 .. Len(r) - 1 : r[i + 1].start = End(r[i])
  <2> TAKE i \in 1 .. Len(r) - 1
  <2>1. i \in 1 .. Len(r) /\ i + 1 \in 1 .. Len(r) /\ i + 1 \in 1 .. Len(que) - 1
    BY <1>1, <1>3
  <2>2. r[i] = que[i + 1] /\ r[i + 1] = que[(i + 1) + 1]
    BY <1>3, <2>1
  <2>3. que[(i + 1) + 1].start = End(que[i + 1])
    BY <2>1 DEF Chain
  <2> QED BY <2>2, <2>3
<1>6. \A i, j \in 1 .. Len(r) : i < j => End(r[i]) <= r[j].start
  <2> SUFFICES ASSUME NEW i \in 1 .. Len(r), NEW j \in 1 .. Len(r), i < j
               PROVE  End(r[i]) <= r[j].start
    OBVIOUS
  <2>1. i + 1 \in 1 .. Len(que) /\ j + 1 \in 1 .. Len(que) /\ i + 1 < j + 1
    BY <1>1, <1>3
  <2>2. End(que[i + 1]) <= que[j + 1].start
    BY <2>1 DEF Chain
  <2> QED BY <1>3, <2>2
<1>7. CASE r = <<>>
  <2>1. Len(que) = 1
    BY <1>1, <1>3, <1>7, EmptySeq
  <2>2. End(que[1]) = t
    BY <2>1 DEF Chain
  <2> QED BY <1>2, <1>3, <1>4, <1>5, <1>6, <1>7, <2>2 DEF Chain, r
<1>8. CASE r # <<>>
  <2>1. Len(r) >= 1
    BY <1>3, <1>8, EmptySeq
  <2>2. r[1].start = End(que[1]) /\ End(r[Len(r)]) = t
    BY <1>1, <1>3, <2>1 DEF Chain
  <2> QED BY <1>2, <1>3, <1>4, <1>5, <1>6, <1>8, <2>2 DEF Chain, r
<1> QED BY <1>7, <1>8

(* A buffer ends at a byte. *)
LEMMA EndType ==
  ASSUME NEW b \in Buffer
  PROVE  End(b) \in Nat /\ b.start \in Nat /\ b.count \in Nat /\ b.start <= End(b)
BY DEF End, Buffer

(* The list of the operations a pipe has on the ring, when it has one. *)
LEMMA SingleSeq ==
  ASSUME NEW w \in Seq(Buffer), Len(w) = 1
  PROVE  w # <<>> /\ w[1] \in Buffer /\ Head(w) = w[1] /\ Tail(w) = <<>>
<1>1. w # <<>> /\ w[1] \in Buffer
  BY EmptySeq, ElementOfSeq
<1>2. Tail(w) \in Seq(Buffer) /\ Len(Tail(w)) = 0
  BY <1>1, HeadTailProperties
<1>3. Tail(w) = <<>>
  BY <1>2, EmptySeq
<1>4. Head(w) = w[1]
  BY <1>1, HeadTailProperties
<1> QED BY <1>1, <1>3, <1>4

(* A set of numbers has a least one. *)
LEMMA LeastNat ==
  ASSUME NEW T \in SUBSET Nat, T # {}
  PROVE  \E n \in T : \A m \in T : n <= m
<1>1. \E n \in T : \A m \in T : ~ (<<m, n>> \in OpToRel(<, Nat))
  BY NatLessThanWellFounded, WFMin
<1>2. PICK n \in T : \A m \in T : ~ (<<m, n>> \in OpToRel(<, Nat))
  BY <1>1
<1>3. \A m \in T : ~ (m < n)
  BY <1>2 DEF OpToRel
<1> QED BY <1>3

(* The merge loop of hin_pipe_write_next consumes some number of buffers:  *)
(* the choice of CondenseUsed is made from a non-empty set. *)
LEMMA CondenseUsedGood ==
  ASSUME NEW que, NEW a \in Nat, NEW t \in Nat, Chain(que, a, t), que # <<>>,
         que[1].count < ReadSz
  PROVE  LET k == CondenseUsed(que)
         IN  /\ k \in 1 .. Len(que)
             /\ End(que[k]) <= CondenseEnd(que)
             /\ k < Len(que) => End(que[k + 1]) > CondenseEnd(que)
<1> DEFINE c == CondenseEnd(que)
           T == {k \in 1 .. Len(que) : k < Len(que) => End(que[k + 1]) > c}
<1>1. que \in Seq(Buffer) /\ Len(que) \in Nat /\ Len(que) >= 1
  BY EmptySeq, LenProperties DEF Chain
<1>2. \A i \in 1 .. Len(que) : que[i] \in Buffer /\ End(que[i]) \in Nat
  BY <1>1, ElementOfSeq, EndType
<1>3. que[1].start = a /\ End(que[Len(que)]) = t
  BY <1>1 DEF Chain
<1>4. End(que[1]) <= t
  <2>1. CASE Len(que) = 1
    BY <1>1, <1>3, <2>1
  <2>2. CASE Len(que) > 1
    <3>1. End(que[1]) <= que[Len(que)].start
      BY <1>1, <2>2 DEF Chain
    <3>2. que[1] \in Buffer /\ que[Len(que)] \in Buffer
      BY <1>1, <1>2
    <3>3. End(que[1]) \in Nat /\ que[Len(que)].start \in Nat /\ que[Len(que)].start <= t
      BY <1>3, <3>2, EndType
    <3> QED BY <3>1, <3>3
  <2>3. Len(que) = 1 \/ Len(que) > 1
    <3>1. \A l \in Nat : l >= 1 => l = 1 \/ l > 1
      OBVIOUS
    <3> QED BY <1>1, <3>1
  <2> QED BY <2>1, <2>2, <2>3
<1>5. End(que[1]) <= c
  <2>1. que[1] \in Buffer
    BY <1>1, <1>2
  <2> QED BY <1>3, <1>4, <2>1, ReadSzAssumption DEF CondenseEnd, MinOf, End, Buffer
<1>6. c \in Nat
  BY <1>3, ReadSzAssumption DEF CondenseEnd, MinOf
<1> HIDE DEF c
<1>7. Len(que) \in T /\ T \in SUBSET Nat
  BY <1>1
<1>8. PICK k \in T : \A m \in T : k <= m
  <2> HIDE DEF T
  <2> QED BY <1>7, LeastNat
<1>9. End(que[k]) <= c
  <2>1. CASE k = 1
    BY <1>5, <2>1
  <2>2. CASE k # 1
    <3>1. k - 1 \in 1 .. Len(que) /\ k - 1 < Len(que) /\ (k - 1) + 1 = k
      BY <1>1, <2>2
    <3>2. k - 1 \notin T
      BY <1>8, <3>1
    <3>3. ~ (End(que[k]) > c)
      BY <3>1, <3>2
    <3> QED BY <1>1, <1>2, <1>6, <3>3
  <2> QED BY <2>1, <2>2
<1>10. \E j \in 1 .. Len(que) : End(que[j]) <= c /\ (j < Len(que) => End(que[j + 1]) > c)
  BY <1>8, <1>9
<1> QED BY <1>10 DEF CondenseUsed, c

(* The merge takes bytes from the front of write_que and leaves the others *)
(* a chain. *)
LEMMA ChainCondense ==
  ASSUME NEW que, NEW a \in Nat, NEW t \in Nat, Chain(que, a, t), que # <<>>,
         que[1].count < ReadSz
  PROVE  /\ Condensed(que) \in Buffer
         /\ Condensed(que).start = a /\ Condensed(que).count >= 1
         /\ Chain(CondenseRest(que), End(Condensed(que)), t)
<1> DEFINE c == CondenseEnd(que)
           k == CondenseUsed(que)
           n == Len(que) - k
           r == CondenseRest(que)
<1>1. que \in Seq(Buffer) /\ Len(que) \in Nat /\ Len(que) >= 1
  BY EmptySeq, LenProperties DEF Chain
<1>2. \A i \in 1 .. Len(que) : que[i] \in Buffer /\ End(que[i]) \in Nat
  BY <1>1, ElementOfSeq, EndType
<1>3. que[1].start = a /\ End(que[Len(que)]) = t /\ que[1].count >= 1
  BY <1>1 DEF Chain
<1>4. /\ k \in 1 .. Len(que) /\ End(que[k]) <= c
      /\ k < Len(que) => End(que[k + 1]) > c
  BY CondenseUsedGood
<1>5. c \in Nat /\ c <= t
  BY <1>3, ReadSzAssumption DEF CondenseEnd, MinOf
<1>6. r = [i \in 1 .. n |-> IF que[k + i].start >= c THEN que[k + i]
                            ELSE [que[k + i] EXCEPT !.start = c, !.count = End(que[k + i]) - c]]
  BY DEF CondenseRest
<1> HIDE DEF c, k, r
<1>7. n \in Nat /\ \A i \in 1 .. n : k + i \in 1 .. Len(que)
  BY <1>1, <1>4
<1>8. \A i \in 1 .. n : i > 1 => que[k + i].start > c
  <2> SUFFICES ASSUME NEW i \in 1 .. n, i > 1 PROVE que[k + i].start > c
    OBVIOUS
  <2>1. k + 1 \in 1 .. Len(que) /\ k + i \in 1 .. Len(que) /\ k + 1 < k + i /\ k < Len(que)
    BY <1>1, <1>4
  <2>2. End(que[k + 1]) <= que[k + i].start
    BY <2>1 DEF Chain
  <2>3. que[k + i] \in Buffer /\ End(que[k + 1]) \in Nat
    BY <1>2, <2>1
  <2> QED BY <1>4, <1>5, <2>1, <2>2, <2>3 DEF Buffer
<1>9. \A i \in 1 .. n : i > 1 => r[i] = que[k + i]
  <2> TAKE i \in 1 .. n
  <2>1. que[k + i] \in Buffer
    BY <1>2, <1>7
  <2>2. i > 1 => que[k + i].start >= c
    BY <1>5, <1>8, <2>1, EndType
  <2> QED BY <1>6, <2>2
<1>10. n >= 1 => r[1] \in Buffer /\ r[1].start = c /\ End(r[1]) = End(que[k + 1]) /\ r[1].count >= 1
  <2> SUFFICES ASSUME n >= 1
               PROVE  r[1] \in Buffer /\ r[1].start = c /\ End(r[1]) = End(que[k + 1]) /\ r[1].count >= 1
    OBVIOUS
  <2>1. k \in 1 .. Len(que) - 1 /\ k < Len(que) /\ 1 \in 1 .. n /\ k + 1 \in 1 .. Len(que)
    BY <1>1, <1>4, <1>7
  <2>2. que[k + 1].start = End(que[k]) /\ que[k + 1].count >= 1
    BY <2>1 DEF Chain
  <2>3. que[k + 1] \in Buffer /\ End(que[k]) \in Nat
    BY <1>2, <2>1
  <2>4. End(que[k + 1]) > c
    BY <1>4, <2>1
  <2>5. CASE que[k + 1].start >= c
    <3>1. r[1] = que[k + 1]
      BY <1>6, <2>1, <2>5
    <3> QED BY <1>4, <1>5, <2>2, <2>3, <2>5, <3>1
  <2>6. CASE ~ (que[k + 1].start >= c)
    <3>1. r[1] = [que[k + 1] EXCEPT !.start = c, !.count = End(que[k + 1]) - c]
      BY <1>6, <2>1, <2>6
    <3>2. End(que[k + 1]) - c \in Nat /\ End(que[k + 1]) - c >= 1
      BY <1>5, <2>3, <2>4, SMTT(30) DEF End, Buffer
    <3>3. r[1] \in Buffer /\ r[1].start = c /\ r[1].count = End(que[k + 1]) - c
      BY <1>5, <2>3, <3>1, <3>2 DEF Buffer
    <3>4. End(r[1]) = c + (End(que[k + 1]) - c) /\ End(que[k + 1]) \in Nat
      BY <2>3, <3>3, EndType DEF End
    <3> QED BY <1>5, <3>2, <3>3, <3>4
  <2> QED BY <2>5, <2>6
<1>11. \A i \in 1 .. n : r[i] \in Buffer /\ r[i].count >= 1 /\ End(r[i]) = End(que[k + i])
  <2> TAKE i \in 1 .. n
  <2>1. CASE i = 1
    BY <1>7, <1>10, <2>1
  <2>2. CASE i > 1
    BY <1>2, <1>7, <1>9, <2>2 DEF Chain
  <2> QED BY <1>7, <2>1, <2>2
<1>12. r \in Seq(Buffer) /\ Len(r) = n /\ (r = <<>> <=> n = 0)
  <2>1. r \in [1 .. n -> Buffer]
    BY <1>6, <1>11
  <2> HIDE DEF n
  <2>2. r \in Seq(Buffer)
    BY <1>7, <2>1
  <2>3. Len(r) = n
    BY <1>7, <2>1, <2>2, LenProperties
  <2> QED BY <2>2, <2>3, EmptySeq
<1>13. \A i \in 1 .. Len(r) - 1 : r[i + 1].start = End(r[i])
  <2> TAKE i \in 1 .. Len(r) - 1
  <2>1. /\ i \in 1 .. n /\ i + 1 \in 1 .. n /\ i + 1 > 1 /\ (k + i) + 1 = k + (i + 1)
        /\ k + i \in 1 .. Len(que) - 1
    BY <1>1, <1>4, <1>7, <1>12
  <2>2. que[(k + i) + 1].start = End(que[k + i])
    BY <2>1 DEF Chain
  <2> QED BY <1>9, <1>11, <2>1, <2>2
<1>14. \A i, j \in 1 .. Len(r) : i < j => End(r[i]) <= r[j].start
  <2> SUFFICES ASSUME NEW i \in 1 .. n, NEW j \in 1 .. n, i < j
               PROVE  End(r[i]) <= r[j].start
    BY <1>12
  <2>1. k + i \in 1 .. Len(que) /\ k + j \in 1 .. Len(que) /\ k + i < k + j /\ j > 1
    BY <1>4, <1>7
  <2>2. End(que[k + i]) <= que[k + j].start
    BY <2>1 DEF Chain
  <2> QED BY <1>9, <1>11, <2>1, <2>2
<1>15. IF r = <<>> THEN c = t ELSE r[1].start = c /\ End(r[Len(r)]) = t
  <2>1. CASE r = <<>>
    <3>1. k = Len(que)
      BY <1>1, <1>4, <1>12, <2>1
    <3> QED BY <1>3, <1>4, <1>5, <2>1, <3>1
  <2>2. CASE r # <<>>
    <3>1. n >= 1 /\ n \in 1 .. n /\ k + n = Len(que)
      BY <1>1, <1>4, <1>7, <1>12, <2>2
    <3> QED BY <1>3, <1>10, <1>11, <1>12, <2>2, <3>1
  <2> QED BY <2>1, <2>2
<1>16. Chain(r, c, t)
  BY <1>11, <1>12, <1>13, <1>14, <1>15 DEF Chain
<1>17. c >= End(que[1])
  <2>1. CASE k = 1
    BY <1>4, <2>1
  <2>2. CASE k > 1
    <3>1. End(que[1]) <= que[k].start /\ que[k] \in Buffer /\ que[1] \in Buffer
      BY <1>1, <1>2, <1>4, <2>2 DEF Chain
    <3> QED BY <1>4, <1>5, <3>1 DEF End, Buffer
  <2> QED BY <1>4, <2>1, <2>2
<1>18. /\ Condensed(que) \in Buffer /\ Condensed(que).start = a
       /\ Condensed(que).count >= 1 /\ End(Condensed(que)) = c
  <2>1. Condensed(que) = [que[1] EXCEPT !.count = c - que[1].start]
    BY DEF Condensed, c
  <2>2. que[1] \in Buffer /\ c - que[1].start \in Nat /\ c - que[1].start >= 1
    BY <1>1, <1>2, <1>3, <1>5, <1>17 DEF End, Buffer
  <2> QED BY <1>3, <1>5, <2>1, <2>2 DEF End, Buffer
<1> QED BY <1>16, <1>18 DEF r

----------------------------------------------------------------------------
(* One lemma for each function of pipe.c. *)

(* The fields of an open pipe that most lemmas need. *)
LEMMA OpenType ==
  ASSUME NEW p, NEW s \in SetupType, NEW n \in Nat, NEW e, Open(p, s, n, e)
  PROVE  /\ p \in PipeType /\ p.count \in Nat /\ Unsent(p) \in Nat /\ Taken(s, n) \in Nat
         /\ p.count <= Unsent(p) /\ Unsent(p) <= Taken(s, n)
         /\ Queued(p.writeQue) = Taken(s, n) - Unsent(p)
         /\ p.writing # <<>> => p.writing[1] \in Buffer
<1>1. p \in PipeType /\ p.count \in Nat /\ Taken(s, n) \in Nat /\ p.writing \in Seq(Buffer)
  BY DEF Open, PipeType, Taken, SetupType
<1>2. p.writing # <<>> => p.writing[1] \in Buffer /\ Len(p.writing) = 1
  <2> SUFFICES ASSUME p.writing # <<>> PROVE p.writing[1] \in Buffer /\ Len(p.writing) = 1
    OBVIOUS
  <2>1. Len(p.writing) = 1
    BY DEF Open, WritingOK
  <2> QED BY <1>1, <2>1, ElementOfSeq
<1>3. Unsent(p) \in Nat /\ p.count <= Unsent(p)
  <2>1. CASE p.writing = <<>>
    BY <1>1, <2>1 DEF Unsent
  <2>2. CASE p.writing # <<>>
    <3>1. p.writing[1].start = p.count
      BY <2>2 DEF Open, WritingOK
    <3> QED BY <1>2, <2>2, <3>1, EndType DEF Unsent
  <2> QED BY <2>1, <2>2
<1>4. Chain(p.writeQue, Unsent(p), Taken(s, n))
  BY DEF Open
<1> QED BY <1>1, <1>2, <1>3, <1>4, ChainQueued

(* A write is submitted: the buffer goes from the queue to the ring. *)
LEMMA SubmitGood ==
  ASSUME NEW p, NEW s \in SetupType, NEW n \in Nat, NEW e, Open(p, s, n, e),
         p.writing = <<>>,
         NEW b \in Buffer, b.start = p.count, b.count >= 1,
         NEW rest, Chain(rest, End(b), Taken(s, n))
  PROVE  LET q == Submit(p, b, rest)
         IN  Open(q, s, n, e) /\ q.count = p.count /\ q.errors = p.errors
<1> DEFINE q == Submit(p, b, rest)
           w == [b EXCEPT !.pos = p.outPos]
           out == IF "OFFSETS" \in p.outFlags THEN p.outPos + b.count ELSE p.outPos
<1>1. p \in PipeType /\ p.count \in Nat /\ Taken(s, n) \in Nat /\ p.outPos \in Nat
  BY OpenType DEF PipeType
<1>2. /\ w \in Buffer /\ w.start = b.start /\ w.count = b.count /\ w.pos = p.outPos
      /\ End(w) = End(b) /\ End(b) = p.count + b.count /\ End(b) \in Nat /\ b.count \in Nat
  BY <1>1 DEF Buffer, End
<1>3. <<w>> \in Seq(Buffer) /\ Len(<<w>>) = 1 /\ <<w>>[1] = w /\ <<w>> # <<>>
  <2> HIDE DEF w
  <2> QED BY <1>2
<1>4. Append(p.writing, w) = <<w>>
  <2> HIDE DEF w
  <2> QED OBVIOUS
<1>5. q = [p EXCEPT !.writeQue = rest, !.writing = <<w>>, !.outPos = out,
                    !.outFlags = @ \ {"DONE"}]
  BY <1>1, <1>4 DEF Submit, PipeType
<1>6. out \in Nat
  BY <1>1, <1>2
<1> HIDE DEF w, q
<1>7. /\ q \in PipeType /\ q.writeQue = rest /\ q.writing = <<w>> /\ q.outPos = out
      /\ q.outFlags = p.outFlags \ {"DONE"} /\ q.inFlags = p.inFlags
      /\ q.condense = p.condense /\ q.left = p.left /\ q.count = p.count
      /\ q.inPos = p.inPos /\ q.reading = p.reading /\ q.callbacks = p.callbacks
      /\ q.finished = p.finished /\ q.errors = p.errors /\ q.freed = p.freed
  <2>1. rest \in Seq(Buffer)
    BY DEF Chain
  <2> HIDE DEF out
  <2> QED BY <1>1, <1>3, <1>5, <1>6, <2>1 DEF PipeType
<1>8. "OFFSETS" \in p.outFlags <=> "OFFSETS" \in s.outFlags
  BY DEF Open
<1>9. "OFFSETS" \in s.outFlags => p.outPos = p.count
  BY DEF Open, Unsent
<1>10. Unsent(q) = End(b)
  BY <1>2, <1>3, <1>7 DEF Unsent
<1>11. WritingOK(q)
  BY <1>2, <1>3, <1>7, <1>8, <1>9 DEF WritingOK
<1>12. "OFFSETS" \in s.outFlags => q.outPos = Unsent(q)
  BY <1>2, <1>7, <1>8, <1>9, <1>10
<1>13. Queued(q.writeQue) <= Queued(p.writeQue) /\ Queued(q.writeQue) \in Int /\ Queued(p.writeQue) \in Int
  <2>1. Queued(rest) = Taken(s, n) - End(b)
    BY <1>1, <1>2, ChainQueued
  <2>2. Queued(p.writeQue) = Taken(s, n) - p.count
    BY OpenType DEF Unsent
  <2> QED BY <1>1, <1>2, <1>7, <2>1, <2>2
<1>14. ReadingOK(q, s, n) /\ Exhausted(q, s, n, e) = Exhausted(p, s, n, e)
  BY <1>7 DEF Open, ReadingOK, Exhausted
<1>15. q.reading # <<>> => "DONE" \notin q.inFlags /\ Queued(q.writeQue) < 2 * ReadSz
  BY <1>7, <1>13, ReadSzAssumption DEF Open
<1>16. Chain(q.writeQue, Unsent(q), Taken(s, n))
  BY <1>7, <1>10
<1>17. Bounded(q, s)
  <2>1. Bounded(p, s) /\ Taken(s, s.prefed) \in Int /\ 3 * ReadSz \in Int
    BY ReadSzAssumption DEF Open, Taken, SetupType
  <2> QED BY <1>13, <2>1 DEF Bounded
<1> QED BY <1>7, <1>11, <1>12, <1>14, <1>15, <1>16, <1>17 DEF Open, q

(* hin_pipe_write_next *)
LEMMA WriteNextGood ==
  ASSUME NEW p, NEW s \in SetupType, NEW n \in Nat, NEW e, Open(p, s, n, e),
         p.writing = <<>>, p.writeQue # <<>>
  PROVE  LET q == hin_pipe_write_next(p)
         IN  Open(q, s, n, e) /\ q.count = p.count /\ q.errors = p.errors
<1> DEFINE que == p.writeQue
<1>1. Chain(que, p.count, Taken(s, n)) /\ p.count \in Nat /\ Taken(s, n) \in Nat
  BY OpenType DEF Open, Unsent
<1>2. CASE HeldBack(p)
  BY <1>2 DEF hin_pipe_write_next
<1>3. CASE ~ HeldBack(p) /\ p.condense /\ que[1].count < ReadSz
  <2>1. /\ Condensed(que) \in Buffer
        /\ Condensed(que).start = p.count /\ Condensed(que).count >= 1
        /\ Chain(CondenseRest(que), End(Condensed(que)), Taken(s, n))
    BY <1>1, <1>3, ChainCondense
  <2>2. hin_pipe_write_next(p) = Submit(p, Condensed(que), CondenseRest(que))
    BY <1>3 DEF hin_pipe_write_next
  <2> QED BY <2>1, <2>2, SubmitGood
<1>4. CASE ~ HeldBack(p) /\ ~ (p.condense /\ que[1].count < ReadSz)
  <2>1. /\ que[1] \in Buffer /\ que[1].start = p.count /\ que[1].count >= 1
        /\ Chain(Tail(que), End(que[1]), Taken(s, n))
    BY <1>1, ChainTail
  <2>2. hin_pipe_write_next(p) = Submit(p, que[1], Tail(que))
    BY <1>4 DEF hin_pipe_write_next
  <2> QED BY <2>1, <2>2, SubmitGood
<1> QED BY <1>2, <1>3, <1>4

(* The write half of hin_pipe_advance. *)
LEMMA AdvanceWriteGood ==
  ASSUME NEW p, NEW s \in SetupType, NEW n \in Nat, NEW e, Open(p, s, n, e)
  PROVE  LET q == AdvanceWrite(p)
         IN  Open(q, s, n, e) /\ q.count = p.count /\ q.errors = p.errors
BY WriteNextGood DEF AdvanceWrite

(* A change of the flags and of nothing else. *)
LEMMA FlagsGood ==
  ASSUME NEW p, NEW s \in SetupType, NEW n \in Nat, NEW e, Open(p, s, n, e),
         NEW q \in PipeType,
         q.inFlags \ {"DONE"} = p.inFlags \ {"DONE"},
         q.outFlags \ {"DONE"} = p.outFlags \ {"DONE"},
         q.condense = p.condense, q.left = p.left, q.count = p.count,
         q.inPos = p.inPos, q.outPos = p.outPos, q.writeQue = p.writeQue,
         q.writing = p.writing, q.reading = p.reading,
         q.callbacks = p.callbacks, q.finished = p.finished,
         q.errors = p.errors, q.freed = p.freed,
         "DONE" \in q.inFlags \ p.inFlags => p.reading = <<>> /\ Exhausted(p, s, n, e)
  PROVE  Open(q, s, n, e)
<1>1. q.inFlags \ {"DONE"} = s.inFlags /\ q.outFlags \ {"DONE"} = s.outFlags
  BY DEF Open
<1>2. "OFFSETS" \in q.outFlags <=> "OFFSETS" \in p.outFlags
  OBVIOUS
<1>3. Unsent(q) = Unsent(p)
  BY DEF Unsent
<1>4. WritingOK(q) /\ ReadingOK(q, s, n) /\ Exhausted(q, s, n, e) = Exhausted(p, s, n, e)
  BY <1>2 DEF Open, WritingOK, ReadingOK, Exhausted
<1>5. /\ "OFFSETS" \in s.outFlags => q.outPos = Unsent(q)
      /\ Chain(q.writeQue, Unsent(q), Taken(s, n))
  BY <1>3 DEF Open
<1>6. q.reading # <<>> => "DONE" \notin q.inFlags /\ Queued(q.writeQue) < 2 * ReadSz
  BY DEF Open
<1>7. "DONE" \in q.inFlags => Exhausted(q, s, n, e)
  BY <1>4 DEF Open
<1>8. Bounded(q, s)
  BY DEF Open, Bounded
<1> QED BY <1>1, <1>4, <1>5, <1>6, <1>7, <1>8 DEF Open

(* A counted pipe that has nothing left has no read outstanding. *)
LEMMA NothingLeft ==
  ASSUME NEW p, NEW s \in SetupType, NEW n \in Nat, NEW e, Open(p, s, n, e),
         "COUNT" \in p.inFlags, p.left <= 0
  PROVE  p.reading = <<>> /\ Exhausted(p, s, n, e)
<1>1. "COUNT" \in s.inFlags /\ s.left \in Nat /\ p.left = s.left - n
  BY DEF Open, SetupType
<1>2. p.reading # <<>> => p.reading[1].count \in 1 .. ReadSz /\ n + p.reading[1].count <= s.left
  BY <1>1 DEF Open, ReadingOK
<1> QED BY <1>1, <1>2, ReadSzAssumption DEF Exhausted

(* The first part of hin_pipe_advance: a counted pipe with nothing left is *)
(* at its end. *)
LEMMA CountedOutGood ==
  ASSUME NEW p, NEW s \in SetupType, NEW n \in Nat, NEW e, Open(p, s, n, e)
  PROVE  LET q == CountedOut(p)
         IN  /\ Open(q, s, n, e) /\ q.count = p.count /\ q.errors = p.errors
             /\ q.writeQue = p.writeQue /\ q.writing = p.writing
             /\ "COUNT" \in q.inFlags /\ "DONE" \notin q.inFlags => q.left > 0
<1>1. p \in PipeType /\ p.left \in Int
  BY DEF Open, PipeType
<1>2. CASE "COUNT" \in p.inFlags /\ p.left <= 0
  <2> DEFINE q == [p EXCEPT !.inFlags = @ \cup {"DONE"}]
  <2>1. CountedOut(p) = q
    BY <1>2 DEF CountedOut
  <2>2. /\ q \in PipeType /\ q.inFlags = p.inFlags \cup {"DONE"}
        /\ q.outFlags = p.outFlags /\ q.condense = p.condense /\ q.left = p.left
        /\ q.count = p.count /\ q.inPos = p.inPos /\ q.outPos = p.outPos
        /\ q.writeQue = p.writeQue /\ q.writing = p.writing /\ q.reading = p.reading
        /\ q.callbacks = p.callbacks /\ q.finished = p.finished
        /\ q.errors = p.errors /\ q.freed = p.freed
    BY <1>1 DEF PipeType, InFlag
  <2> HIDE DEF q
  <2>3. Open(q, s, n, e)
    BY <1>2, <2>2, NothingLeft, FlagsGood
  <2> QED BY <2>1, <2>2, <2>3
<1>3. CASE ~ ("COUNT" \in p.inFlags /\ p.left <= 0)
  BY <1>1, <1>3 DEF CountedOut
<1> QED BY <1>2, <1>3

(* The read half of hin_pipe_advance: a read is for the next bytes, for    *)
(* one at least, for no more than is left. *)
LEMMA AdvanceReadGood ==
  ASSUME NEW p, NEW s \in SetupType, NEW n \in Nat, NEW e, Open(p, s, n, e),
         "COUNT" \in p.inFlags /\ "DONE" \notin p.inFlags => p.left > 0
  PROVE  LET q == AdvanceRead(p)
         IN  Open(q, s, n, e) /\ q.count = p.count /\ q.errors = p.errors
<1> DEFINE may == /\ p.inFlags \cap {"DONE", "INACTIVE"} = {}
                  /\ p.reading = <<>>
                  /\ Queued(p.writeQue) < 2 * ReadSz
           queued == Queued(p.writeQue)
           room == IF p.condense /\ queued > 0 /\ queued < ReadSz
                   THEN ReadSz - queued ELSE ReadSz
           ask == IF "COUNT" \in p.inFlags /\ p.left < ReadSz THEN p.left ELSE room
           b == [start |-> 0, count |-> ask, pos |-> p.inPos]
           q == [p EXCEPT !.reading = <<b>>]
<1>1. p \in PipeType /\ p.left \in Int /\ p.inPos \in Nat
  BY DEF Open, PipeType
<1>2. CASE ~ may
  BY <1>2 DEF AdvanceRead
<1>3. CASE may
  <2>1. AdvanceRead(p) = q
    <3>1. Append(p.reading, b) = <<b>>
      <4> HIDE DEF b
      <4> QED BY <1>3
    <3> QED BY <1>1, <1>3, <3>1 DEF AdvanceRead, hin_pipe_read_next, PipeType
  <2>2. queued \in Int
    <3>1. Unsent(p) \in Nat /\ Taken(s, n) \in Nat /\ Queued(p.writeQue) = Taken(s, n) - Unsent(p)
      BY OpenType
    <3> QED BY <3>1
  <2>3. ask \in 1 .. ReadSz /\ ("COUNT" \in p.inFlags => ask <= p.left)
    <3> HIDE DEF queued
    <3> QED BY <1>1, <1>3, <2>2, ReadSzAssumption
  <2> HIDE DEF ask
  <2>4. b \in Buffer /\ b.count = ask /\ b.pos = p.inPos
    BY <1>1, <2>3 DEF Buffer
  <2> HIDE DEF b
  <2>5. <<b>> \in Seq(Buffer) /\ Len(<<b>>) = 1 /\ <<b>>[1] = b
    BY <2>4
  <2>6. /\ q \in PipeType /\ q.inFlags = p.inFlags
        /\ q.outFlags = p.outFlags /\ q.condense = p.condense /\ q.left = p.left
        /\ q.count = p.count /\ q.inPos = p.inPos /\ q.outPos = p.outPos
        /\ q.writeQue = p.writeQue /\ q.writing = p.writing /\ q.reading = <<b>>
        /\ q.callbacks = p.callbacks /\ q.finished = p.finished
        /\ q.errors = p.errors /\ q.freed = p.freed
    BY <1>1, <2>5 DEF PipeType
  <2> HIDE DEF q
  <2>7. WritingOK(q) /\ Unsent(q) = Unsent(p) /\ Exhausted(q, s, n, e) = Exhausted(p, s, n, e)
    BY <2>6 DEF Open, WritingOK, Unsent, Exhausted
  <2>8. ReadingOK(q, s, n)
    <3>1. s.left \in Nat /\ ("COUNT" \in s.inFlags => "COUNT" \in p.inFlags /\ p.left = s.left - n)
      BY DEF Open, SetupType
    <3>2. "INACTIVE" \notin s.inFlags /\ ("OFFSETS" \in s.inFlags => p.inPos = s.inStart + n)
      BY <1>3 DEF Open
    <3>3. "COUNT" \in s.inFlags => n + ask <= s.left
      BY <2>3, <3>1, ReadSzAssumption
    <3> QED BY <2>3, <2>4, <2>5, <2>6, <3>2, <3>3 DEF ReadingOK
  <2>9. "DONE" \notin q.inFlags /\ Queued(q.writeQue) < 2 * ReadSz
    BY <1>3, <2>6
  <2>10. Bounded(q, s)
    BY <2>6 DEF Open, Bounded
  <2>11. Open(q, s, n, e)
    BY <2>6, <2>7, <2>8, <2>9, <2>10 DEF Open
  <2> QED BY <2>1, <2>6, <2>11
<1> QED BY <1>2, <1>3

(* What hin_pipe_close does to a pipe its owner still waits for. *)
LEMMA CloseFields ==
  ASSUME NEW p \in PipeType, p.writing = <<>>, "finish" \in p.callbacks, p.finished = 0
  PROVE  LET q == hin_pipe_close(p)
         IN  /\ q \in PipeType /\ {"DONE", "INACTIVE"} \subseteq q.inFlags
             /\ {"DONE", "INACTIVE"} \subseteq q.outFlags
             /\ q.callbacks = {} /\ q.finished = 1
             /\ q.writeQue = <<>> /\ q.writing = <<>>
             /\ q.reading = p.reading /\ (q.freed <=> p.reading = <<>>)
             /\ q.count = p.count /\ q.errors = p.errors
<1> DEFINE f == p.reading = <<>> /\ p.writing = <<>>
           q == [p EXCEPT !.inFlags = @ \cup {"DONE", "INACTIVE"},
                          !.outFlags = @ \cup {"DONE", "INACTIVE"},
                          !.finished = 1, !.callbacks = {}, !.writeQue = <<>>,
                          !.freed = f]
<1>1. hin_pipe_close(p) = q
  BY DEF hin_pipe_close
<1>2. f \in BOOLEAN /\ (f <=> p.reading = <<>>)
  OBVIOUS
<1> HIDE DEF f
<1>3. /\ q.inFlags = p.inFlags \cup {"DONE", "INACTIVE"}
      /\ q.outFlags = p.outFlags \cup {"DONE", "INACTIVE"}
      /\ q.callbacks = {} /\ q.finished = 1
      /\ q.writeQue = <<>> /\ q.writing = <<>>
      /\ q.reading = p.reading /\ q.freed = f
      /\ q.count = p.count /\ q.errors = p.errors
  BY DEF PipeType
<1>4. q \in PipeType
  BY <1>2 DEF PipeType, InFlag, OutFlag
<1> HIDE DEF q
<1> QED BY <1>1, <1>2, <1>3, <1>4

(* hin_pipe_close when all is written. *)
LEMMA CloseGood ==
  ASSUME NEW p, NEW s \in SetupType, NEW n \in Nat, NEW e, Open(p, s, n, e),
         MayClose(p)
  PROVE  LET q == hin_pipe_close(p)
         IN  Closed(q, s, n, e) /\ q.count = p.count /\ q.errors = p.errors
<1> DEFINE q == hin_pipe_close(p)
<1>1. /\ p \in PipeType /\ p.writeQue = <<>> /\ p.writing = <<>> /\ p.reading = <<>>
      /\ p.callbacks = {"finish", "error"} /\ p.finished = 0 /\ "out" \notin p.errors
      /\ Exhausted(p, s, n, e)
  BY DEF MayClose, Open
<1>2. p.count = Taken(s, n) /\ Taken(s, n) \in Nat
  BY <1>1, OpenType DEF Open, Unsent, Chain
<1>4. /\ q \in PipeType /\ {"DONE", "INACTIVE"} \subseteq q.inFlags
      /\ {"DONE", "INACTIVE"} \subseteq q.outFlags
      /\ q.callbacks = {} /\ q.finished = 1 /\ q.writeQue = <<>> /\ q.writing = <<>>
      /\ q.reading = <<>> /\ q.freed /\ q.count = p.count /\ q.errors = p.errors
  BY <1>1, CloseFields
<1> HIDE DEF q
<1>5. ReadingOK(q, s, n) /\ Exhausted(q, s, n, e)
  BY <1>1, <1>4 DEF ReadingOK, Exhausted
<1> QED BY <1>2, <1>4, <1>5 DEF Closed, q

(* hin_pipe_advance on an open pipe ends it only when nothing is queued. *)
LEMMA AdvanceGood ==
  ASSUME NEW p, NEW s \in SetupType, NEW n \in Nat, NEW e, Open(p, s, n, e)
  PROVE  LET q == hin_pipe_advance(p)
         IN  /\ Open(q, s, n, e) \/ (Closed(q, s, n, e) /\ p.writeQue = <<>>)
             /\ q.count = p.count /\ q.errors = p.errors
<1> DEFINE c == CountedOut(p)
<1>1. /\ Open(c, s, n, e) /\ c.count = p.count /\ c.errors = p.errors
      /\ c.writeQue = p.writeQue
      /\ "COUNT" \in c.inFlags /\ "DONE" \notin c.inFlags => c.left > 0
  BY CountedOutGood
<1> HIDE DEF c
<1>2. CASE MayClose(c)
  <2>1. hin_pipe_advance(p) = hin_pipe_close(c)
    BY <1>2 DEF hin_pipe_advance, c
  <2> QED BY <1>1, <1>2, <2>1, CloseGood DEF MayClose
<1>3. CASE ~ MayClose(c)
  <2> DEFINE r == AdvanceRead(c)
             q == AdvanceWrite(r)
  <2>1. hin_pipe_advance(p) = q
    BY <1>3 DEF hin_pipe_advance, c
  <2>2. Open(r, s, n, e) /\ r.count = c.count /\ r.errors = c.errors
    BY <1>1, AdvanceReadGood
  <2> HIDE DEF r
  <2>3. Open(q, s, n, e) /\ q.count = r.count /\ q.errors = r.errors
    BY <2>2, AdvanceWriteGood
  <2> QED BY <1>1, <2>1, <2>2, <2>3
<1> QED BY <1>2, <1>3

(* hin_pipe_process_buffer of the bytes that come next: they are queued    *)
(* behind the others and counted. *)
LEMMA IntakeGood ==
  ASSUME NEW p, NEW s \in SetupType, NEW n \in Nat, NEW e, Open(p, s, n, e),
         p.reading = <<>>,
         NEW b \in Buffer, b.start = Taken(s, n), b.count >= 1,
         "INACTIVE" \notin s.inFlags =>
           \/ Queued(p.writeQue) < 2 * ReadSz /\ b.count <= ReadSz
           \/ n + b.count = s.prefed
  PROVE  LET q == hin_pipe_process_buffer(p, b)
         IN  /\ Open(q, s, n + b.count, e) /\ q.writeQue # <<>>
             /\ q.count = p.count /\ q.errors = p.errors
             /\ q.reading = <<>> /\ q.writing = p.writing
<1> DEFINE m == n + b.count
           left == IF "COUNT" \in p.inFlags THEN p.left - b.count ELSE p.left
           done == "COUNT" \in p.inFlags /\ left <= 0
           inPos == IF "OFFSETS" \in p.inFlags THEN p.inPos + b.count ELSE p.inPos
           flags == IF done THEN p.inFlags \cup {"DONE"} ELSE p.inFlags
           que == Append(p.writeQue, b)
           q == [p EXCEPT !.inPos = inPos, !.left = left, !.inFlags = flags, !.writeQue = que]
<1>1. /\ p \in PipeType /\ p.left \in Int /\ p.inPos \in Nat /\ b.count \in Nat
      /\ p.inFlags \in SUBSET InFlag
  BY EndType DEF Open, PipeType
<1>2. "INACTIVE" \notin p.outFlags
  BY DEF Open, SetupType
<1>3. hin_pipe_process_buffer(p, b) = q
  BY <1>1, <1>2 DEF hin_pipe_process_buffer, hin_pipe_copy_raw, hin_pipe_append_raw, PipeType
<1>4. Chain(que, Unsent(p), Taken(s, n) + b.count) /\ Taken(s, m) = Taken(s, n) + b.count
  <2>1. Chain(p.writeQue, Unsent(p), Taken(s, n)) /\ Unsent(p) \in Nat /\ Taken(s, n) \in Nat
    BY OpenType DEF Open
  <2>2. Taken(s, m) = Taken(s, n) + b.count
    BY <1>1 DEF Taken, SetupType
  <2> QED BY <2>1, <2>2, ChainAppend
<1>5. que \in Seq(Buffer) /\ que # <<>>
  <2>1. p.writeQue \in Seq(Buffer)
    BY <1>1 DEF PipeType
  <2> QED BY <2>1, AppendProperties
<1>6. inPos \in Nat /\ left \in Int /\ flags \in SUBSET InFlag /\ flags \ {"DONE"} = p.inFlags \ {"DONE"}
  BY <1>1 DEF InFlag
<1> HIDE DEF que, inPos, left, flags
<1>7. /\ q \in PipeType /\ q.inFlags = flags /\ q.outFlags = p.outFlags
      /\ q.condense = p.condense /\ q.left = left /\ q.count = p.count
      /\ q.inPos = inPos /\ q.outPos = p.outPos /\ q.writeQue = que
      /\ q.writing = p.writing /\ q.reading = p.reading
      /\ q.callbacks = p.callbacks /\ q.finished = p.finished
      /\ q.errors = p.errors /\ q.freed = p.freed
  BY <1>1, <1>5, <1>6 DEF PipeType
<1> HIDE DEF q
<1>8. Unsent(q) = Unsent(p) /\ WritingOK(q) /\ ReadingOK(q, s, m)
  BY <1>7 DEF Open, Unsent, WritingOK, ReadingOK
<1>9. "OFFSETS" \in s.inFlags => q.inPos = s.inStart + m
  BY <1>1, <1>7 DEF Open, SetupType, inPos
<1>10. "COUNT" \in s.inFlags => q.left = s.left - m
  BY <1>1, <1>7 DEF Open, SetupType, left
<1>11. "DONE" \in q.inFlags => Exhausted(q, s, m, e)
  <2>1. s.srcLen \in Nat /\ s.left \in Nat
    BY DEF SetupType
  <2>2. CASE "DONE" \in p.inFlags
    <3>1. Exhausted(p, s, n, e)
      BY <2>2 DEF Open
    <3> QED BY <1>1, <1>7, <2>1, <3>1 DEF Exhausted
  <2>3. CASE done
    <3>1. "COUNT" \in s.inFlags
      BY <2>3 DEF Open
    <3>2. s.left - m <= 0
      BY <1>7, <1>10, <2>3, <3>1
    <3> QED BY <1>1, <2>1, <3>1, <3>2 DEF Exhausted
  <2>4. "DONE" \in q.inFlags => "DONE" \in p.inFlags \/ done
    BY <1>7 DEF flags
  <2> QED BY <2>2, <2>3, <2>4
<1>12. q.inFlags \ {"DONE"} = s.inFlags
  BY <1>6, <1>7 DEF Open
<1>13. m \in Nat
  BY <1>1
<1>14. /\ q.outFlags \ {"DONE"} = s.outFlags /\ q.condense = s.condense
       /\ q.callbacks = {"finish", "error"} /\ q.finished = 0 /\ ~ q.freed
       /\ "out" \notin q.errors /\ q.reading = <<>>
       /\ "OFFSETS" \in s.outFlags => q.outPos = Unsent(q)
  BY <1>7, <1>8 DEF Open
<1>15. Chain(q.writeQue, Unsent(q), Taken(s, m))
  BY <1>4, <1>7, <1>8
<1>16. Bounded(q, s)
  <2>1. /\ Unsent(p) \in Nat /\ Taken(s, n) \in Nat
        /\ Queued(p.writeQue) = Taken(s, n) - Unsent(p)
    BY OpenType
  <2>2. Queued(q.writeQue) = (Taken(s, n) + b.count) - Unsent(p)
    BY <1>1, <1>4, <1>7, <2>1, ChainQueued
  <2>3. m = s.prefed => Queued(q.writeQue) <= Taken(s, s.prefed)
    BY <1>1, <1>4, <2>1, <2>2
  <2>4. Queued(p.writeQue) < 2 * ReadSz /\ b.count <= ReadSz => Queued(q.writeQue) < 3 * ReadSz
    BY <1>1, <2>1, <2>2, ReadSzAssumption
  <2> QED BY <2>3, <2>4 DEF Bounded
<1>17. Open(q, s, m, e)
  BY <1>7, <1>8, <1>9, <1>10, <1>11, <1>12, <1>14, <1>15, <1>16 DEF Open
<1> QED BY <1>3, <1>5, <1>7, <1>17

(* ... and of an empty buffer, which only looks at the count. *)
LEMMA IntakeNothing ==
  ASSUME NEW p, NEW s \in SetupType, NEW n \in Nat, NEW e, Open(p, s, n, e),
         NEW b \in Buffer, b.count = 0
  PROVE  LET q == hin_pipe_process_buffer(p, b)
         IN  /\ Open(q, s, n, e) /\ q.count = p.count /\ q.errors = p.errors
<1> DEFINE left == IF "COUNT" \in p.inFlags THEN p.left - b.count ELSE p.left
           done == "COUNT" \in p.inFlags /\ left <= 0
           inPos == IF "OFFSETS" \in p.inFlags THEN p.inPos + b.count ELSE p.inPos
           flags == IF done THEN p.inFlags \cup {"DONE"} ELSE p.inFlags
           q == [p EXCEPT !.inPos = inPos, !.left = left, !.inFlags = flags]
<1>1. /\ p \in PipeType /\ p.left \in Int /\ p.inPos \in Nat /\ p.inFlags \in SUBSET InFlag
  BY DEF Open, PipeType
<1>2. "INACTIVE" \notin p.outFlags
  BY DEF Open, SetupType
<1>3. hin_pipe_process_buffer(p, b) = q
  BY <1>1, <1>2 DEF hin_pipe_process_buffer, hin_pipe_copy_raw, PipeType
<1>4. /\ flags \in SUBSET InFlag /\ flags \ {"DONE"} = p.inFlags \ {"DONE"}
      /\ left = p.left /\ inPos = p.inPos
  BY <1>1 DEF InFlag
<1> HIDE DEF flags, left, inPos
<1>5. /\ q \in PipeType /\ q.inFlags = flags /\ q.outFlags = p.outFlags
      /\ q.condense = p.condense /\ q.left = p.left /\ q.count = p.count
      /\ q.inPos = p.inPos /\ q.outPos = p.outPos /\ q.writeQue = p.writeQue
      /\ q.writing = p.writing /\ q.reading = p.reading
      /\ q.callbacks = p.callbacks /\ q.finished = p.finished
      /\ q.errors = p.errors /\ q.freed = p.freed
  BY <1>1, <1>4 DEF PipeType
<1> HIDE DEF q
<1>6. "DONE" \in q.inFlags \ p.inFlags => p.reading = <<>> /\ Exhausted(p, s, n, e)
  <2>1. "DONE" \in q.inFlags \ p.inFlags => done
    BY <1>5 DEF flags
  <2> QED BY <1>4, <2>1, NothingLeft
<1>7. Open(q, s, n, e)
  BY <1>4, <1>5, <1>6, FlagsGood
<1> QED BY <1>3, <1>5, <1>7

(* The first part of hin_pipe_read_callback: the read is over, and at the  *)
(* end of the source or with an error so is the input. *)
LEMMA ReadEndedGood ==
  ASSUME NEW p, NEW s \in SetupType, NEW n \in Nat, NEW e, Open(p, s, n, e),
         p.reading # <<>>,
         NEW ret \in Int, ret = 0 => n >= s.srcLen
  PROVE  LET q == ReadEnded(p, ret)
         IN  /\ Open(q, s, n, e) /\ q.reading = <<>> /\ q.count = p.count
             /\ q.writeQue = p.writeQue
             /\ ret >= 0 => q.errors = p.errors
<1> DEFINE flags == IF ret <= 0 THEN p.inFlags \cup {"DONE"} ELSE p.inFlags
           errors == IF ret < 0 THEN p.errors \cup {"in"} ELSE p.errors
           q == [p EXCEPT !.reading = <<>>, !.inFlags = flags, !.errors = errors]
<1>1. p \in PipeType /\ p.reading \in Seq(Buffer) /\ Len(p.reading) = 1 /\ "error" \in p.callbacks
  BY DEF Open, ReadingOK, PipeType
<1>2. Tail(p.reading) = <<>> /\ <<>> \in Seq(Buffer)
  BY <1>1, SingleSeq, EmptySeq
<1>3. ReadEnded(p, ret) = q
  BY <1>1, <1>2 DEF ReadEnded, PipeType
<1>4. /\ flags \in SUBSET InFlag /\ flags \ {"DONE"} = p.inFlags \ {"DONE"}
      /\ errors \in SUBSET {"in", "out"} /\ ("out" \in errors <=> "out" \in p.errors)
  BY <1>1 DEF PipeType, InFlag
<1> HIDE DEF flags, errors
<1>5. /\ q \in PipeType /\ q.inFlags = flags /\ q.outFlags = p.outFlags
      /\ q.condense = p.condense /\ q.left = p.left /\ q.count = p.count
      /\ q.inPos = p.inPos /\ q.outPos = p.outPos /\ q.writeQue = p.writeQue
      /\ q.writing = p.writing /\ q.reading = <<>>
      /\ q.callbacks = p.callbacks /\ q.finished = p.finished
      /\ q.errors = errors /\ q.freed = p.freed
  BY <1>1, <1>2, <1>4 DEF PipeType
<1> HIDE DEF q
<1>6. Unsent(q) = Unsent(p) /\ WritingOK(q) /\ ReadingOK(q, s, n)
  BY <1>5 DEF Open, Unsent, WritingOK, ReadingOK
<1>7. "DONE" \in q.inFlags => Exhausted(q, s, n, e)
  <2>1. "DONE" \notin p.inFlags
    BY DEF Open
  <2>2. "DONE" \in q.inFlags => ret < 0 \/ ret = 0
    BY <1>5, <2>1 DEF flags
  <2>3. ret < 0 => q.errors # {}
    BY <1>5 DEF errors
  <2> QED BY <2>2, <2>3 DEF Exhausted
<1>8. Open(q, s, n, e)
  <2>1. Bounded(q, s)
    BY <1>5 DEF Open, Bounded
  <2> QED BY <1>4, <1>5, <1>6, <1>7, <2>1 DEF Open
<1>9. ret >= 0 => q.errors = p.errors
  BY <1>5 DEF errors
<1> QED BY <1>3, <1>5, <1>8, <1>9

(* A pipe whose output is marked idle, as hin_pipe_start,                  *)
(* hin_pipe_read_callback and hin_pipe_finish do. *)
LEMMA IdleGood ==
  ASSUME NEW p, NEW s \in SetupType, NEW n \in Nat, NEW e, Open(p, s, n, e)
  PROVE  LET q == [p EXCEPT !.outFlags = @ \cup {"DONE"}]
         IN  /\ Open(q, s, n, e) /\ q.writeQue = p.writeQue
             /\ q.count = p.count /\ q.errors = p.errors
<1> DEFINE q == [p EXCEPT !.outFlags = @ \cup {"DONE"}]
<1>1. p \in PipeType
  BY DEF Open
<1>2. /\ q \in PipeType /\ q.inFlags = p.inFlags /\ q.outFlags = p.outFlags \cup {"DONE"}
      /\ q.condense = p.condense /\ q.left = p.left /\ q.count = p.count
      /\ q.inPos = p.inPos /\ q.outPos = p.outPos /\ q.writeQue = p.writeQue
      /\ q.writing = p.writing /\ q.reading = p.reading
      /\ q.callbacks = p.callbacks /\ q.finished = p.finished
      /\ q.errors = p.errors /\ q.freed = p.freed
  BY <1>1 DEF PipeType, OutFlag
<1> HIDE DEF q
<1>3. Open(q, s, n, e)
  BY <1>2, FlagsGood
<1> QED BY <1>2, <1>3 DEF q

(* hin_pipe_read_callback with data: the pipe stays open, since it has     *)
(* something to write. *)
LEMMA ReadDataGood ==
  ASSUME NEW p, NEW s \in SetupType, NEW n \in Nat, NEW e, Open(p, s, n, e),
         p.reading # <<>>, NEW ret \in Nat, ret >= 1, ret <= p.reading[1].count
  PROVE  LET q == hin_pipe_read_callback(p, Taken(s, n), ret)
         IN  Open(q, s, n + ret, e) /\ q.count = p.count /\ q.errors = p.errors
<1> DEFINE b == [Head(p.reading) EXCEPT !.start = Taken(s, n), !.count = ret]
           r == ReadEnded(p, ret)
           i == hin_pipe_process_buffer(r, b)
           o == OutIdle(i)
<1>1. p.reading \in Seq(Buffer) /\ Len(p.reading) = 1 /\ Taken(s, n) \in Nat
  BY OpenType DEF Open, ReadingOK, PipeType
<1>2. Head(p.reading) \in Buffer
  BY <1>1, SingleSeq
<1>3. b \in Buffer /\ b.start = Taken(s, n) /\ b.count = ret
  BY <1>1, <1>2 DEF Buffer
<1>4. hin_pipe_read_callback(p, Taken(s, n), ret) = hin_pipe_advance(o)
  <2>1. (IF ret <= 0 THEN 0 ELSE ret) = ret
    OBVIOUS
  <2> QED BY <2>1 DEF hin_pipe_read_callback
<1> HIDE DEF b
<1>5. /\ Open(r, s, n, e) /\ r.reading = <<>> /\ r.count = p.count /\ r.errors = p.errors
      /\ r.writeQue = p.writeQue
  BY ReadEndedGood
<1> HIDE DEF r
<1>6. /\ Open(i, s, n + ret, e) /\ i.writeQue # <<>>
      /\ i.count = p.count /\ i.errors = p.errors
  <2>1. Queued(r.writeQue) < 2 * ReadSz /\ b.count <= ReadSz
    BY <1>3, <1>5, ReadSzAssumption DEF Open, ReadingOK
  <2> QED BY <1>3, <1>5, <2>1, IntakeGood
<1>7. o = i
  BY <1>6 DEF OutIdle
<1> HIDE DEF i, o
<1> QED BY <1>4, <1>6, <1>7, AdvanceGood

(* ... and at the end of the source or with an error. *)
LEMMA ReadEndGood ==
  ASSUME NEW p, NEW s \in SetupType, NEW n \in Nat, NEW e, Open(p, s, n, e),
         p.reading # <<>>, NEW ret \in {0, -1}, ret = 0 => n >= s.srcLen
  PROVE  LET q == hin_pipe_read_callback(p, 0, ret)
         IN  /\ Open(q, s, n, e) \/ Closed(q, s, n, e)
             /\ q.count = p.count /\ "out" \notin q.errors
<1> DEFINE b == [Head(p.reading) EXCEPT !.start = 0, !.count = 0]
           r == ReadEnded(p, ret)
           i == hin_pipe_process_buffer(r, b)
           o == OutIdle(i)
<1>1. p.reading \in Seq(Buffer) /\ Len(p.reading) = 1
  BY OpenType DEF Open, ReadingOK, PipeType
<1>2. Head(p.reading) \in Buffer
  BY <1>1, SingleSeq
<1>3. b \in Buffer /\ b.count = 0
  BY <1>2 DEF Buffer
<1>4. hin_pipe_read_callback(p, 0, ret) = hin_pipe_advance(o)
  <2>1. (IF ret <= 0 THEN 0 ELSE ret) = 0
    OBVIOUS
  <2> QED BY <2>1 DEF hin_pipe_read_callback
<1> HIDE DEF b
<1>5. Open(r, s, n, e) /\ r.count = p.count
  <2>1. ret \in Int
    OBVIOUS
  <2> QED BY <2>1, ReadEndedGood
<1> HIDE DEF r
<1>6. Open(i, s, n, e) /\ i.count = p.count
  BY <1>3, <1>5, IntakeNothing
<1> HIDE DEF i
<1>7. Open(o, s, n, e) /\ o.count = p.count
  BY <1>6, IdleGood DEF OutIdle
<1>8. "out" \notin o.errors
  BY <1>7 DEF Open
<1> HIDE DEF o
<1> QED BY <1>4, <1>7, <1>8, AdvanceGood

(* A late completion leaves a closed pipe closed and adds nothing. *)
StaysClosed(q, p, s, n, e) ==
  Closed(q, s, n, e) /\ q.count = p.count /\ q.errors = p.errors

(* A read that was outstanding when a write failed: whatever it brings is  *)
(* dropped, the pipe is closed again without telling its owner twice, and  *)
(* now it is freed. *)
LEMMA LateReadGood ==
  ASSUME NEW p, NEW s \in SetupType, NEW n \in Nat, NEW e, Closed(p, s, n, e),
         p.reading # <<>>, NEW first \in Nat, NEW ret \in Int, NEW got \in Nat
  PROVE  StaysClosed(hin_pipe_read_callback(p, first, ret), p, s, n + got, e)
<1> DEFINE b == [Head(p.reading) EXCEPT !.start = first, !.count = IF ret <= 0 THEN 0 ELSE ret]
           r == ReadEnded(p, ret)
           i == hin_pipe_process_buffer(r, b)
           o == OutIdle(i)
           c == CountedOut(o)
           q == hin_pipe_close(c)
<1>1. /\ p \in PipeType /\ p.reading \in Seq(Buffer) /\ Len(p.reading) = 1
      /\ p.callbacks = {} /\ p.finished = 1 /\ p.writeQue = <<>> /\ p.writing = <<>>
      /\ {"DONE", "INACTIVE"} \subseteq p.inFlags /\ {"DONE", "INACTIVE"} \subseteq p.outFlags
      /\ p.count \in Nat
  BY DEF Closed, ReadingOK, PipeType
<1>2. Tail(p.reading) = <<>> /\ <<>> \in Seq(Buffer)
  BY <1>1, SingleSeq, EmptySeq
<1>3. r = [p EXCEPT !.reading = <<>>]
  <2>1. p.inFlags \cup {"DONE"} = p.inFlags /\ "error" \notin p.callbacks
    BY <1>1
  <2>2. (IF ret <= 0 THEN p.inFlags \cup {"DONE"} ELSE p.inFlags) = p.inFlags
    BY <2>1
  <2>3. (IF ret < 0 /\ "error" \in p.callbacks THEN p.errors \cup {"in"} ELSE p.errors) = p.errors
    BY <2>1
  <2>4. r = [p EXCEPT !.reading = <<>>, !.inFlags = p.inFlags, !.errors = p.errors]
    BY <1>1, <1>2, <2>2, <2>3 DEF ReadEnded, PipeType
  <2> QED BY <1>1, <2>4 DEF PipeType
<1> HIDE DEF r
<1>4. /\ r \in PipeType /\ r.reading = <<>> /\ r.writeQue = <<>> /\ r.writing = <<>>
      /\ r.callbacks = {} /\ r.finished = 1 /\ r.count = p.count /\ r.errors = p.errors
      /\ {"DONE", "INACTIVE"} \subseteq r.inFlags /\ {"DONE", "INACTIVE"} \subseteq r.outFlags
  BY <1>1, <1>2, <1>3 DEF PipeType
<1>5. i = r
  BY <1>4 DEF hin_pipe_process_buffer
<1> HIDE DEF i
<1>6. /\ o \in PipeType /\ o.reading = <<>> /\ o.writeQue = <<>> /\ o.writing = <<>>
      /\ o.callbacks = {} /\ o.finished = 1 /\ o.count = p.count /\ o.errors = p.errors
      /\ {"DONE", "INACTIVE"} \subseteq o.inFlags /\ {"DONE", "INACTIVE"} \subseteq o.outFlags
  BY <1>4, <1>5 DEF OutIdle, PipeType, OutFlag
<1> HIDE DEF o
<1>7. /\ c \in PipeType /\ c.reading = <<>> /\ c.writeQue = <<>> /\ c.writing = <<>>
      /\ c.callbacks = {} /\ c.finished = 1 /\ c.count = p.count /\ c.errors = p.errors
      /\ {"DONE", "INACTIVE"} \subseteq c.inFlags /\ {"DONE", "INACTIVE"} \subseteq c.outFlags
  BY <1>6 DEF CountedOut, PipeType, InFlag
<1>8. hin_pipe_read_callback(p, first, ret) = q
  <2>1. hin_pipe_read_callback(p, first, ret) = hin_pipe_advance(o)
    BY DEF hin_pipe_read_callback, o, i, r
  <2>2. MayClose(c)
    BY <1>7 DEF MayClose
  <2> QED BY <2>1, <2>2 DEF hin_pipe_advance
<1> HIDE DEF c
<1>9. /\ q \in PipeType /\ q.reading = <<>> /\ q.writeQue = <<>> /\ q.writing = <<>>
      /\ q.callbacks = {} /\ q.finished = 1 /\ q.count = p.count /\ q.errors = p.errors
      /\ {"DONE", "INACTIVE"} \subseteq q.inFlags /\ {"DONE", "INACTIVE"} \subseteq q.outFlags
      /\ q.freed
  <2> DEFINE f == c.reading = <<>> /\ c.writing = <<>>
  <2>1. f = TRUE
    BY <1>7
  <2>2. "finish" \notin c.callbacks /\ c.finished + 0 = 1 /\ <<>> \in Seq(Buffer)
    BY <1>2, <1>7
  <2>3. q = [c EXCEPT !.inFlags = @ \cup {"DONE", "INACTIVE"},
                      !.outFlags = @ \cup {"DONE", "INACTIVE"},
                      !.finished = @ + 0, !.callbacks = {}, !.writeQue = <<>>, !.freed = f]
    BY <2>2 DEF hin_pipe_close
  <2> HIDE DEF f, q
  <2> QED BY <1>7, <2>1, <2>2, <2>3 DEF PipeType, InFlag, OutFlag
<1> HIDE DEF q
<1>10. "out" \in p.errors /\ p.count <= Taken(s, n)
  BY DEF Closed
<1>11. p.count <= Taken(s, n + got)
  BY <1>1, <1>10 DEF Taken, SetupType
<1>12. Exhausted(q, s, n + got, e)
  BY <1>9, <1>10 DEF Exhausted
<1>13. ReadingOK(q, s, n + got)
  BY <1>9 DEF ReadingOK
<1> QED BY <1>8, <1>9, <1>10, <1>11, <1>12, <1>13 DEF Closed, StaysClosed

(* hin_pipe_start *)
LEMMA StartGood ==
  ASSUME NEW p, NEW s \in SetupType, NEW n \in Nat, NEW e, Open(p, s, n, e)
  PROVE  LET q == hin_pipe_start(p)
         IN  /\ Open(q, s, n, e) \/ Closed(q, s, n, e)
             /\ q.count = p.count /\ q.errors = p.errors
<1> DEFINE i == [p EXCEPT !.outFlags = @ \cup {"DONE"}]
<1>1. Open(i, s, n, e) /\ i.count = p.count /\ i.errors = p.errors
  BY IdleGood
<1>2. hin_pipe_start(p) = hin_pipe_advance(i)
  BY DEF hin_pipe_start
<1> HIDE DEF i
<1> QED BY <1>1, <1>2, AdvanceGood

(* hin_pipe_finish: from now on the feeder has ended. *)
LEMMA FinishGood ==
  ASSUME NEW p, NEW s \in SetupType, NEW n \in Nat, NEW e, Open(p, s, n, e),
         p.reading = <<>>
  PROVE  LET q == hin_pipe_finish(p)
         IN  /\ Open(q, s, n, TRUE) \/ Closed(q, s, n, TRUE)
             /\ q.count = p.count /\ q.errors = p.errors
<1> DEFINE b == [start |-> 0, count |-> 0, pos |-> 0]
           d == [p EXCEPT !.inFlags = @ \cup {"DONE"}]
           i == hin_pipe_process_buffer(d, b)
           o == IF i.writing = <<>> THEN [i EXCEPT !.outFlags = @ \cup {"DONE"}] ELSE i
<1>1. p \in PipeType /\ b \in Buffer /\ b.count = 0
  BY DEF Open, Buffer
<1>2. hin_pipe_finish(p) = hin_pipe_advance(o)
  BY DEF hin_pipe_finish
<1> HIDE DEF b
<1>3. /\ d \in PipeType /\ d.inFlags = p.inFlags \cup {"DONE"}
      /\ d.outFlags = p.outFlags /\ d.condense = p.condense /\ d.left = p.left
      /\ d.count = p.count /\ d.inPos = p.inPos /\ d.outPos = p.outPos
      /\ d.writeQue = p.writeQue /\ d.writing = p.writing /\ d.reading = p.reading
      /\ d.callbacks = p.callbacks /\ d.finished = p.finished
      /\ d.errors = p.errors /\ d.freed = p.freed
  BY <1>1 DEF PipeType, InFlag
<1> HIDE DEF d
<1>4. Open(p, s, n, TRUE) /\ Exhausted(p, s, n, TRUE)
  BY DEF Open, Exhausted
<1>5. Open(d, s, n, TRUE)
  BY <1>3, <1>4, FlagsGood
<1>6. Open(i, s, n, TRUE) /\ i.count = p.count /\ i.errors = p.errors
  <2>1. Open(i, s, n, TRUE) /\ i.count = d.count /\ i.errors = d.errors
    BY <1>1, <1>5, IntakeNothing, Zenon
  <2> QED BY <1>3, <2>1
<1> HIDE DEF i
<1>7. Open(o, s, n, TRUE) /\ o.count = p.count /\ o.errors = p.errors
  BY <1>6, IdleGood
<1> HIDE DEF o
<1> QED BY <1>2, <1>7, AdvanceGood

(* hin_pipe_write_callback when the sink refuses the write: the owner is   *)
(* told, and a read that is outstanding keeps the pipe. *)
LEMMA WriteFailedGood ==
  ASSUME NEW p, NEW s \in SetupType, NEW n \in Nat, NEW e, Open(p, s, n, e),
         p.writing # <<>>
  PROVE  LET q == hin_pipe_write_callback(p, -1)
         IN  Closed(q, s, n, e) /\ q.count = p.count /\ "out" \in q.errors
<1> DEFINE d == [p EXCEPT !.outFlags = @ \cup {"DONE"}, !.writing = <<>>,
                          !.errors = @ \cup {"out"}]
           q == hin_pipe_close(d)
<1>1. /\ p \in PipeType /\ p.writing \in Seq(Buffer) /\ Len(p.writing) = 1
      /\ p.callbacks = {"finish", "error"} /\ p.finished = 0
      /\ p.count \in Nat /\ p.count <= Taken(s, n)
  <2>1. p.count \in Nat /\ Unsent(p) \in Nat /\ Taken(s, n) \in Nat
        /\ p.count <= Unsent(p) /\ Unsent(p) <= Taken(s, n)
    BY OpenType
  <2>2. p.count <= Taken(s, n)
    BY <2>1
  <2> QED BY <2>1, <2>2 DEF Open, WritingOK, PipeType
<1>2. Tail(p.writing) = <<>> /\ <<>> \in Seq(Buffer)
  BY <1>1, SingleSeq, EmptySeq
<1>3. hin_pipe_write_callback(p, -1) = q
  <2>1. WriteFailed(p) = q
    BY <1>1, <1>2 DEF WriteFailed
  <2> QED BY <2>1 DEF hin_pipe_write_callback
<1>4. /\ d \in PipeType /\ d.writing = <<>> /\ d.errors = p.errors \cup {"out"}
      /\ d.callbacks = p.callbacks /\ d.finished = p.finished
      /\ d.reading = p.reading /\ d.count = p.count
  BY <1>1, <1>2 DEF PipeType, OutFlag
<1> HIDE DEF d
<1>5. /\ q \in PipeType /\ {"DONE", "INACTIVE"} \subseteq q.inFlags
      /\ {"DONE", "INACTIVE"} \subseteq q.outFlags
      /\ q.callbacks = {} /\ q.finished = 1
      /\ q.writeQue = <<>> /\ q.writing = <<>>
      /\ q.reading = p.reading /\ (q.freed <=> p.reading = <<>>)
      /\ q.count = p.count /\ q.errors = p.errors \cup {"out"}
  BY <1>1, <1>4, CloseFields
<1> HIDE DEF q
<1>6. ReadingOK(q, s, n)
  BY <1>5 DEF Open, ReadingOK
<1>7. Exhausted(q, s, n, e) /\ "out" \in q.errors
  BY <1>5 DEF Exhausted
<1>8. Closed(q, s, n, e)
  BY <1>1, <1>5, <1>6, <1>7 DEF Closed
<1> QED BY <1>3, <1>5, <1>7, <1>8

(* ... when it takes a part: the same buffer goes out again, with the      *)
(* bytes and for the place that come next. *)
LEMMA WriteShortGood ==
  ASSUME NEW p, NEW s \in SetupType, NEW n \in Nat, NEW e, Open(p, s, n, e),
         p.writing # <<>>, NEW ret \in Nat, ret >= 1, ret < p.writing[1].count
  PROVE  LET q == hin_pipe_write_callback(p, ret)
         IN  Open(q, s, n, e) /\ q.count = p.count + ret /\ q.errors = p.errors
<1> DEFINE b == p.writing[1]
           pos == IF "OFFSETS" \in p.outFlags THEN b.pos + ret ELSE b.pos
           w == [b EXCEPT !.start = @ + ret, !.count = @ - ret, !.pos = pos]
           q == [p EXCEPT !.outFlags = @ \cup {"DONE"}, !.count = @ + ret, !.writing = <<w>>]
<1>1. /\ p \in PipeType /\ p.writing \in Seq(Buffer) /\ Len(p.writing) = 1 /\ p.count \in Nat
      /\ b.start = p.count
      /\ "OFFSETS" \in p.outFlags => b.pos = p.count
  BY DEF Open, WritingOK, PipeType
<1>2. /\ b \in Buffer /\ Head(p.writing) = b /\ Tail(p.writing) = <<>>
      /\ b.start \in Nat /\ b.count \in Nat /\ b.pos \in Nat
  BY <1>1, SingleSeq DEF Buffer
<1> HIDE DEF b
<1>3. PartialWrite(b, ret, "OFFSETS" \in p.outFlags) = w
  BY <1>2 DEF PartialWrite, Buffer
<1>4. /\ pos \in Nat /\ b.count - ret \in Nat /\ b.count - ret >= 1 /\ b.start + ret \in Nat
      /\ "OFFSETS" \in p.outFlags => pos = p.count + ret
  <2>1. ret < b.count /\ ("OFFSETS" \in p.outFlags => b.pos = p.count)
    BY <1>1 DEF b
  <2> QED BY <1>1, <1>2, <2>1
<1> HIDE DEF pos
<1>5. /\ w \in Buffer /\ w.start = b.start + ret /\ w.count = b.count - ret /\ w.pos = pos
      /\ End(w) = End(b)
  <2>1. w \in Buffer /\ w.start = b.start + ret /\ w.count = b.count - ret /\ w.pos = pos
    <3> DEFINE st == b.start + ret
               ct == b.count - ret
    <3>1. w = [b EXCEPT !.start = st, !.count = ct, !.pos = pos]
      OBVIOUS
    <3>2. st \in Nat /\ ct \in Nat /\ pos \in Nat
      BY <1>4
    <3> HIDE DEF st, ct, w
    <3>3. w \in Buffer /\ w.start = st /\ w.count = ct /\ w.pos = pos
      BY <1>2, <3>1, <3>2 DEF Buffer
    <3> QED BY <3>3 DEF st, ct
  <2>2. (b.start + ret) + (b.count - ret) = b.start + b.count
    BY <1>2
  <2> QED BY <2>1, <2>2 DEF End
<1> HIDE DEF w
<1>6. <<w>> \in Seq(Buffer) /\ Len(<<w>>) = 1 /\ <<w>>[1] = w /\ <<w>> # <<>> /\ <<w>> \o <<>> = <<w>>
  BY <1>5
<1>7. hin_pipe_write_callback(p, ret) = q
  <2>1. WriteShort(p, ret) = q
    BY <1>2, <1>3, <1>6 DEF WriteShort
  <2>2. ~ (ret < 0) /\ ret < Head(p.writing).count
    BY <1>2 DEF b
  <2> QED BY <2>1, <2>2 DEF hin_pipe_write_callback
<1>8. /\ q \in PipeType /\ q.inFlags = p.inFlags /\ q.outFlags = p.outFlags \cup {"DONE"}
      /\ q.condense = p.condense /\ q.left = p.left /\ q.count = p.count + ret
      /\ q.inPos = p.inPos /\ q.outPos = p.outPos /\ q.writeQue = p.writeQue
      /\ q.writing = <<w>> /\ q.reading = p.reading
      /\ q.callbacks = p.callbacks /\ q.finished = p.finished
      /\ q.errors = p.errors /\ q.freed = p.freed
  <2>1. p.count + ret \in Nat
    BY <1>1
  <2> QED BY <1>1, <1>6, <2>1 DEF PipeType, OutFlag
<1> HIDE DEF q
<1>9. Unsent(q) = Unsent(p)
  BY <1>5, <1>6, <1>8 DEF Unsent, b
<1>10. WritingOK(q)
  BY <1>1, <1>4, <1>5, <1>6, <1>8 DEF WritingOK
<1>11. ReadingOK(q, s, n) /\ Exhausted(q, s, n, e) = Exhausted(p, s, n, e)
  BY <1>8 DEF Open, ReadingOK, Exhausted
<1>12. q.outFlags \ {"DONE"} = s.outFlags
  BY <1>8 DEF Open
<1>13. Open(q, s, n, e)
  <2>1. Bounded(q, s)
    BY <1>8 DEF Open, Bounded
  <2> QED BY <1>8, <1>9, <1>10, <1>11, <1>12, <2>1 DEF Open
<1> QED BY <1>7, <1>8, <1>13

(* ... and when it takes all of it: the next write is submitted, or the    *)
(* pipe ends. *)
LEMMA WriteFullGood ==
  ASSUME NEW p, NEW s \in SetupType, NEW n \in Nat, NEW e, Open(p, s, n, e),
         p.writing # <<>>
  PROVE  LET ret == p.writing[1].count
             q == hin_pipe_write_callback(p, ret)
         IN  /\ Open(q, s, n, e) \/ Closed(q, s, n, e)
             /\ q.count = p.count + ret /\ q.errors = p.errors
<1> DEFINE b == p.writing[1]
           ret == b.count
           d == [p EXCEPT !.outFlags = @ \cup {"DONE"}, !.count = @ + ret, !.writing = <<>>]
           f == IF d.writeQue # <<>> THEN hin_pipe_write_next(d) ELSE d
<1>1. /\ p \in PipeType /\ p.writing \in Seq(Buffer) /\ Len(p.writing) = 1 /\ p.count \in Nat
      /\ b.start = p.count
  BY DEF Open, WritingOK, PipeType
<1>2. /\ b \in Buffer /\ Head(p.writing) = b /\ Tail(p.writing) = <<>>
      /\ ret \in Nat /\ <<>> \in Seq(Buffer)
  BY <1>1, SingleSeq, EmptySeq DEF Buffer
<1>3. hin_pipe_write_callback(p, ret) = hin_pipe_advance(f)
  <2>1. WriteFull(p, ret) = hin_pipe_advance(f)
    BY <1>2 DEF WriteFull
  <2>2. ~ (ret < 0) /\ ~ (ret < Head(p.writing).count)
    BY <1>2
  <2> QED BY <2>1, <2>2 DEF hin_pipe_write_callback
<1>4. /\ d \in PipeType /\ d.inFlags = p.inFlags /\ d.outFlags = p.outFlags \cup {"DONE"}
      /\ d.condense = p.condense /\ d.left = p.left /\ d.count = p.count + ret
      /\ d.inPos = p.inPos /\ d.outPos = p.outPos /\ d.writeQue = p.writeQue
      /\ d.writing = <<>> /\ d.reading = p.reading
      /\ d.callbacks = p.callbacks /\ d.finished = p.finished
      /\ d.errors = p.errors /\ d.freed = p.freed
  <2>1. p.count + ret \in Nat
    BY <1>1, <1>2
  <2> HIDE DEF ret
  <2> QED BY <1>1, <1>2, <2>1 DEF PipeType, OutFlag
<1> HIDE DEF d
<1>5. Unsent(d) = Unsent(p)
  BY <1>1, <1>4 DEF Unsent, End
<1>6. WritingOK(d)
  BY <1>4 DEF WritingOK
<1>7. ReadingOK(d, s, n) /\ Exhausted(d, s, n, e) = Exhausted(p, s, n, e)
  BY <1>4 DEF Open, ReadingOK, Exhausted
<1>8. d.outFlags \ {"DONE"} = s.outFlags
  BY <1>4 DEF Open
<1>9. Open(d, s, n, e)
  <2>1. Bounded(d, s)
    BY <1>4 DEF Open, Bounded
  <2> QED BY <1>4, <1>5, <1>6, <1>7, <1>8, <2>1 DEF Open
<1>10. Open(f, s, n, e) /\ f.count = d.count /\ f.errors = d.errors
  BY <1>4, <1>9, WriteNextGood
<1> HIDE DEF f, ret
<1>11. (\/ Open(hin_pipe_advance(f), s, n, e)
        \/ Closed(hin_pipe_advance(f), s, n, e))
       /\ hin_pipe_advance(f).count = f.count /\ hin_pipe_advance(f).errors = f.errors
  BY <1>10, AdvanceGood
<1> QED BY <1>3, <1>4, <1>10, <1>11 DEF ret, b

----------------------------------------------------------------------------
(* The inductive invariant. *)

(* What the callers put into a pipe before hin_pipe_start. *)
LEMMA InitInv == Init => IInv
<1> SUFFICES ASSUME Init PROVE IInv
  OBVIOUS
<1> DEFINE s == setup
           z == hin_pipe_init(s)
           h == WithHeader(z, s)
<1>1. /\ s \in Setups /\ s \in SetupType /\ src = s.prefed /\ src \in Nat
      /\ started = FALSE /\ ended = FALSE /\ sink = {}
      /\ pipe = WithPrefed(h, s)
      /\ s.header \in Nat /\ s.prefed \in Nat /\ s.left \in Nat /\ s.inStart \in Nat
      /\ s.inFlags \in SUBSET {"INACTIVE", "COUNT", "OFFSETS"}
      /\ s.outFlags \in SUBSET {"OFFSETS"} /\ s.condense \in BOOLEAN
  BY SetupsAssumption DEF Init, SetupType
<1>2. <<>> \in Seq(Buffer) /\ Chain(<<>>, 0, 0)
  BY EmptySeq DEF Chain
<1>3. /\ z \in PipeType /\ z.inFlags = s.inFlags /\ z.outFlags = s.outFlags
      /\ z.condense = s.condense /\ z.left = (IF "COUNT" \in s.inFlags THEN s.left ELSE 0)
      /\ z.count = 0 /\ z.inPos = s.inStart /\ z.outPos = 0 /\ z.writeQue = <<>>
      /\ z.writing = <<>> /\ z.reading = <<>> /\ z.callbacks = {"finish", "error"}
      /\ z.finished = 0 /\ z.errors = {} /\ z.freed = FALSE
  <2>1. (IF "COUNT" \in s.inFlags THEN s.left ELSE 0) \in Int
    BY <1>1
  <2> HIDE DEF s
  <2> QED BY <1>1, <1>2, <2>1 DEF hin_pipe_init, PipeType, InFlag, OutFlag
<1> HIDE DEF z
<1>4. /\ h \in PipeType /\ h.inFlags = s.inFlags /\ h.outFlags = s.outFlags
      /\ h.condense = s.condense /\ h.left = z.left
      /\ h.count = 0 /\ h.inPos = s.inStart /\ h.outPos = 0
      /\ h.writing = <<>> /\ h.reading = <<>> /\ h.callbacks = {"finish", "error"}
      /\ h.finished = 0 /\ h.errors = {} /\ h.freed = FALSE
      /\ Chain(h.writeQue, 0, s.header)
  <2>1. CASE s.header = 0
    BY <1>2, <1>3, <2>1 DEF WithHeader
  <2>2. CASE s.header # 0
    <3> DEFINE b == [start |-> 0, count |-> s.header, pos |-> 0]
    <3>1. b \in Buffer /\ b.start = 0 /\ b.count = s.header /\ b.count >= 1
      BY <1>1, <2>2 DEF Buffer
    <3> HIDE DEF b
    <3>2. Chain(Append(z.writeQue, b), 0, 0 + b.count)
      <4>1. 0 \in Nat /\ Chain(z.writeQue, 0, 0)
        BY <1>2, <1>3
      <4> QED BY <3>1, <4>1, ChainAppend, Zenon
    <3>3. 0 + b.count = s.header
      BY <1>1, <3>1
    <3>4. h = [z EXCEPT !.writeQue = Append(@, b)]
      BY <2>2 DEF WithHeader, hin_pipe_append_raw, b
    <3>5. Append(z.writeQue, b) \in Seq(Buffer)
      BY <3>2 DEF Chain
    <3> HIDE DEF h
    <3> QED BY <1>3, <3>2, <3>3, <3>4, <3>5 DEF PipeType
  <2> QED BY <2>1, <2>2
<1> HIDE DEF h, s
<1>5. Open(h, s, 0, ended)
  <2>1. Unsent(h) = 0 /\ Taken(s, 0) = s.header
    BY <1>1, <1>4 DEF Unsent, Taken
  <2>2. WritingOK(h) /\ ReadingOK(h, s, 0)
    BY <1>4 DEF WritingOK, ReadingOK
  <2>3. "COUNT" \in s.inFlags => h.left = s.left - 0
    BY <1>1, <1>3, <1>4
  <2>4. s.inStart + 0 = s.inStart
    BY <1>1
  <2>5. "DONE" \notin s.inFlags /\ "DONE" \notin s.outFlags
    BY <1>1
  <2>6. Bounded(h, s)
    <3>1. Queued(h.writeQue) = s.header - 0
      BY <1>1, <1>4, ChainQueued
    <3>2. Queued(h.writeQue) <= Taken(s, s.prefed)
      BY <1>1, <3>1 DEF Taken
    <3> QED BY <3>2 DEF Bounded
  <2> QED BY <1>4, <2>1, <2>2, <2>3, <2>4, <2>5, <2>6 DEF Open
<1>6. /\ Open(pipe, s, s.prefed, ended) /\ pipe.count = 0
      /\ pipe.reading = <<>> /\ pipe.writing = <<>>
  <2>1. CASE s.prefed = 0
    BY <1>1, <1>4, <1>5, <2>1 DEF WithPrefed
  <2>2. CASE s.prefed # 0
    <3> DEFINE b == [start |-> s.header, count |-> s.prefed, pos |-> 0]
    <3>1. b \in Buffer /\ b.start = Taken(s, 0) /\ b.count = s.prefed /\ b.count >= 1
      BY <1>1, <2>2 DEF Buffer, Taken
    <3>2. pipe = hin_pipe_process_buffer(h, b)
      BY <1>1, <2>2 DEF WithPrefed
    <3> HIDE DEF b
    <3>3. PICK m \in Nat : m = 0
      OBVIOUS
    <3>4. m + b.count = s.prefed
      BY <1>1, <3>1, <3>3
    <3>5. /\ Open(pipe, s, m + b.count, ended) /\ pipe.count = h.count
          /\ pipe.reading = <<>> /\ pipe.writing = h.writing
      BY <1>1, <1>4, <1>5, <3>1, <3>2, <3>3, <3>4, IntakeGood
    <3> QED BY <1>4, <3>4, <3>5
  <2> QED BY <2>1, <2>2
<1>7. sink = {<<j, j>> : j \in 0 .. pipe.count - 1}
  <2>1. 0 .. pipe.count - 1 = {}
    BY <1>6
  <2> QED BY <1>1, <2>1
<1>8. Open(pipe, setup, src, ended) /\ CountRespected
  BY <1>1, <1>6 DEF s, CountRespected
<1> QED BY <1>1, <1>6, <1>7, <1>8 DEF IInv, s

(* What an open or a closed pipe is known to have. *)
LEMMA InvFacts ==
  ASSUME IInv
  PROVE  /\ setup \in SetupType /\ pipe \in PipeType /\ pipe.count \in Nat
         /\ Taken(setup, src) \in Nat /\ pipe.count <= Taken(setup, src)
         /\ ReadingOK(pipe, setup, src)
         /\ Open(pipe, setup, src, ended) => pipe.finished = 0
         /\ Closed(pipe, setup, src, ended) => pipe.finished = 1
<1>1. setup \in SetupType /\ src \in Nat
  BY SetupsAssumption DEF IInv
<1>2. Taken(setup, src) \in Nat
  BY <1>1 DEF Taken, SetupType
<1>3. CASE Open(pipe, setup, src, ended)
  <2>1. /\ pipe \in PipeType /\ pipe.count \in Nat /\ Unsent(pipe) \in Nat
        /\ pipe.count <= Unsent(pipe) /\ Unsent(pipe) <= Taken(setup, src)
    BY <1>1, <1>3, OpenType
  <2>2. pipe.count <= Taken(setup, src)
    BY <1>2, <2>1
  <2>3. ~ Closed(pipe, setup, src, ended)
    BY <1>3 DEF Open, Closed
  <2> QED BY <1>1, <1>2, <1>3, <2>1, <2>2, <2>3 DEF Open
<1>4. CASE Closed(pipe, setup, src, ended)
  <2>1. ~ Open(pipe, setup, src, ended)
    BY <1>4 DEF Open, Closed
  <2> QED BY <1>1, <1>2, <1>4, <2>1 DEF Closed, PipeType
<1> QED BY <1>3, <1>4 DEF IInv

(* The outstanding read is for the bytes that come next. *)
LEMMA ReadFromNext ==
  ASSUME IInv, pipe.reading # <<>>
  PROVE  /\ ReadFrom(Head(pipe.reading)) = src
         /\ Head(pipe.reading).count \in 1 .. ReadSz
         /\ "COUNT" \in setup.inFlags => src + Head(pipe.reading).count <= setup.left
<1>1. setup \in SetupType /\ pipe \in PipeType /\ ReadingOK(pipe, setup, src) /\ src \in Nat
  BY InvFacts DEF IInv
<1>2. pipe.reading \in Seq(Buffer) /\ Len(pipe.reading) = 1
  BY <1>1 DEF PipeType, ReadingOK
<1>3. Head(pipe.reading) = pipe.reading[1]
  BY <1>2, SingleSeq
<1>4. setup.inStart \in Nat
  BY <1>1 DEF SetupType
<1>5. "OFFSETS" \in setup.inFlags => pipe.reading[1].pos = setup.inStart + src
  BY <1>1 DEF ReadingOK
<1>6. ReadFrom(pipe.reading[1]) = src
  BY <1>1, <1>4, <1>5 DEF ReadFrom
<1> QED BY <1>1, <1>3, <1>6 DEF ReadingOK

(* Acknowledged bytes extend the sink by the ones that come next. *)
LEMMA SinkGrows ==
  ASSUME NEW c \in Nat, NEW ret \in Nat
  PROVE  {<<j, j>> : j \in 0 .. c - 1} \cup {<<c + j, c + j>> : j \in 0 .. ret - 1}
           = {<<j, j>> : j \in 0 .. (c + ret) - 1}
<1>1. \A j \in 0 .. (c + ret) - 1 :
        j \in 0 .. c - 1 \/ (j - c \in 0 .. ret - 1 /\ c + (j - c) = j)
  OBVIOUS
<1>2. \A j \in 0 .. c - 1 : j \in 0 .. (c + ret) - 1
  OBVIOUS
<1>3. \A j \in 0 .. ret - 1 : c + j \in 0 .. (c + ret) - 1
  OBVIOUS
<1> QED BY <1>1, <1>2, <1>3

(* The abbreviations the step lemmas speak of: the pipe before and after a *)
(* step is open or closed. *)
IsOpen == Open(pipe, setup, src, ended)
IsClosed == Closed(pipe, setup, src, ended)

(* hin_pipe_start *)
LEMMA StartInv ==
  ASSUME IInv, Start
  PROVE  /\ IInv' /\ IsOpen
         /\ pipe'.count = pipe.count /\ "out" \notin pipe'.errors
<1>1. setup \in SetupType /\ src \in Nat
  BY InvFacts DEF IInv
<1>2. /\ ~ started /\ started' = TRUE /\ pipe' = hin_pipe_start(pipe)
      /\ UNCHANGED <<setup, ended, src, sink>>
  BY DEF Start
<1>3. IsOpen
  BY <1>2 DEF IInv, IsOpen
<1>4. /\ Open(pipe', setup, src, ended) \/ Closed(pipe', setup, src, ended)
      /\ pipe'.count = pipe.count /\ pipe'.errors = pipe.errors
  BY <1>1, <1>2, <1>3, StartGood DEF IsOpen
<1>5. "out" \notin pipe'.errors
  BY <1>3, <1>4 DEF IsOpen, Open
<1> QED BY <1>2, <1>3, <1>4, <1>5 DEF IInv, CountRespected

(* hin_pipe_read_callback with data. *)
LEMMA ReadDataInv ==
  ASSUME IInv, ReadData
  PROVE  /\ IInv'
         /\ \/ IsOpen /\ IsOpen'
            \/ IsClosed /\ IsClosed' /\ "out" \in pipe.errors
         /\ pipe'.count = pipe.count /\ pipe'.errors = pipe.errors
         /\ src' \in Nat /\ src' > src
<1>1. setup \in SetupType /\ src \in Nat /\ setup.srcLen \in Nat /\ setup.left \in Nat
  BY InvFacts DEF IInv, SetupType
<1>2. pipe.reading # <<>> /\ UNCHANGED <<setup, started, ended, sink>>
  BY DEF ReadData
<1> DEFINE b == Head(pipe.reading)
<1>3. /\ ReadFrom(b) = src /\ b.count \in 1 .. ReadSz
      /\ "COUNT" \in setup.inFlags => src + b.count <= setup.left
  BY <1>2, ReadFromNext
<1>4. PICK ret \in 1 .. MinOf(b.count, setup.srcLen - src) :
        /\ pipe' = hin_pipe_read_callback(pipe, setup.header + src, ret)
        /\ src' = src + ret
  BY <1>3 DEF ReadData
<1> HIDE DEF b
<1>5. ret \in Nat /\ ret >= 1 /\ ret <= b.count
  BY <1>1, <1>3, <1>4, ReadSzAssumption DEF MinOf
<1>6. setup.header + src = Taken(setup, src) /\ Taken(setup, src) \in Nat
  BY InvFacts DEF Taken
<1>7. IsOpen \/ IsClosed
  BY DEF IInv, IsOpen, IsClosed
<1>8. /\ pipe'.count = pipe.count /\ pipe'.errors = pipe.errors
      /\ \/ IsOpen /\ Open(pipe', setup, src + ret, ended)
         \/ IsClosed /\ Closed(pipe', setup, src + ret, ended)
  <2>1. CASE IsOpen
    <3> DEFINE q == hin_pipe_read_callback(pipe, Taken(setup, src), ret)
    <3>1. pipe' = q
      BY <1>4, <1>6
    <3>2. /\ Open(q, setup, src + ret, ended)
          /\ q.count = pipe.count /\ q.errors = pipe.errors
      <4>1. ret <= pipe.reading[1].count
        <5>1. pipe.reading \in Seq(Buffer) /\ Len(pipe.reading) = 1
          BY <1>2, InvFacts DEF PipeType, ReadingOK
        <5> QED BY <1>5, <5>1, SingleSeq DEF b
      <4> QED BY <1>1, <1>2, <1>5, <2>1, <4>1, ReadDataGood DEF IsOpen
    <3> HIDE DEF q
    <3> QED BY <2>1, <3>1, <3>2
  <2>2. CASE IsClosed
    <3> DEFINE first == setup.header + src
    <3>1. ret \in Int /\ first \in Nat
      BY <1>5, <1>6
    <3> HIDE DEF first
    <3> DEFINE q == hin_pipe_read_callback(pipe, first, ret)
    <3>2. pipe' = q
      BY <1>4 DEF first
    <3>3. Closed(pipe, setup, src, ended)
      BY <2>2 DEF IsClosed
    <3>4. /\ Closed(q, setup, src + ret, ended)
          /\ q.count = pipe.count /\ q.errors = pipe.errors
      <4>1. setup \in SetupType /\ src \in Nat /\ pipe.reading # <<>> /\ ret \in Nat
        BY <1>1, <1>2, <1>5
      <4>2. StaysClosed(q, pipe, setup, src + ret, ended)
        BY <3>1, <3>3, <4>1, LateReadGood, Zenon
      <4> QED BY <4>2 DEF StaysClosed
    <3> HIDE DEF q
    <3> QED BY <2>2, <3>2, <3>4
  <2> QED BY <1>7, <2>1, <2>2
<1>9. \/ IsOpen /\ IsOpen'
      \/ IsClosed /\ IsClosed' /\ "out" \in pipe.errors
  BY <1>2, <1>4, <1>8 DEF IsOpen, IsClosed, Closed
<1>10. src' \in Nat /\ src' > src
  BY <1>1, <1>4, <1>5
<1>11. CountRespected'
  <2>1. "COUNT" \in setup.inFlags => src + ret <= setup.left
    BY <1>1, <1>3, <1>5, ReadSzAssumption
  <2> QED BY <1>2, <1>4, <2>1 DEF CountRespected
<1>12. started'
  BY <1>2 DEF IInv
<1>13. sink' = {<<j, j>> : j \in 0 .. pipe'.count - 1}
  BY <1>2, <1>8 DEF IInv
<1> QED BY <1>2, <1>8, <1>9, <1>10, <1>11, <1>12, <1>13 DEF IInv, IsOpen, IsClosed

(* ... at the end of the source or with an error. *)
LEMMA ReadEndInv ==
  ASSUME IInv, ReadEnd
  PROVE  /\ IInv' /\ pipe'.count = pipe.count
         /\ \/ IsOpen /\ "out" \notin pipe'.errors
            \/ IsClosed /\ IsClosed' /\ pipe'.errors = pipe.errors
<1>1. setup \in SetupType /\ src \in Nat
  BY InvFacts DEF IInv
<1>2. pipe.reading # <<>> /\ UNCHANGED <<setup, started, ended, src, sink>>
  BY DEF ReadEnd
<1>3. ReadFrom(Head(pipe.reading)) = src
  BY <1>2, ReadFromNext
<1>4. PICK ret \in {0, -1} :
        /\ ret = 0 => src >= setup.srcLen
        /\ pipe' = hin_pipe_read_callback(pipe, 0, ret)
  BY <1>3 DEF ReadEnd
<1>5. IsOpen \/ IsClosed
  BY DEF IInv, IsOpen, IsClosed
<1>6. /\ pipe'.count = pipe.count
      /\ \/ /\ IsOpen /\ "out" \notin pipe'.errors
            /\ Open(pipe', setup, src, ended) \/ Closed(pipe', setup, src, ended)
         \/ /\ IsClosed /\ pipe'.errors = pipe.errors
            /\ Closed(pipe', setup, src, ended)
  <2>1. CASE IsOpen
    BY <1>1, <1>2, <1>4, <2>1, ReadEndGood DEF IsOpen
  <2>2. CASE IsClosed
    <3>1. PICK z \in Nat : z = 0
      OBVIOUS
    <3>2. ret \in Int /\ src + z = src
      BY <1>1, <3>1
    <3>3. pipe' = hin_pipe_read_callback(pipe, z, ret)
      BY <1>4, <3>1
    <3>4. Closed(pipe, setup, src, ended)
      BY <2>2 DEF IsClosed
    <3> DEFINE q == hin_pipe_read_callback(pipe, z, ret)
    <3>5. /\ Closed(q, setup, src + z, ended)
          /\ q.count = pipe.count /\ q.errors = pipe.errors
      <4>1. setup \in SetupType /\ src \in Nat /\ pipe.reading # <<>> /\ z \in Nat
        BY <1>1, <1>2, <3>1
      <4>2. StaysClosed(q, pipe, setup, src + z, ended)
        BY <3>2, <3>4, <4>1, LateReadGood, Zenon
      <4> QED BY <4>2 DEF StaysClosed
    <3> HIDE DEF q
    <3>6. pipe' = q
      BY <3>3 DEF q
    <3> QED BY <2>2, <3>2, <3>5, <3>6
  <2> QED BY <1>5, <2>1, <2>2
<1>7. /\ IsOpen' \/ IsClosed'
      /\ \/ IsOpen /\ "out" \notin pipe'.errors
         \/ IsClosed /\ IsClosed' /\ pipe'.errors = pipe.errors
  BY <1>2, <1>6 DEF IsOpen, IsClosed
<1>8. started' /\ sink' = {<<j, j>> : j \in 0 .. pipe'.count - 1}
  BY <1>2, <1>6 DEF IInv
<1> QED BY <1>2, <1>6, <1>7, <1>8 DEF IInv, IsOpen, IsClosed, CountRespected

(* hin_pipe_write_callback, fully or in part. *)
LEMMA WriteDataInv ==
  ASSUME IInv, WriteData
  PROVE  /\ IInv' /\ IsOpen /\ pipe'.errors = pipe.errors
         /\ pipe'.count > pipe.count
<1>1. setup \in SetupType /\ pipe \in PipeType /\ pipe.count \in Nat
  BY InvFacts
<1>2. pipe.writing # <<>> /\ UNCHANGED <<setup, started, ended, src>>
  BY DEF WriteData
<1>3. IsOpen
  BY <1>2 DEF IInv, IsOpen, Closed
<1> DEFINE b == pipe.writing[1]
           at == IF "OFFSETS" \in setup.outFlags THEN b.pos ELSE pipe.count
<1>4. /\ pipe.writing \in Seq(Buffer) /\ Len(pipe.writing) = 1
      /\ b.start = pipe.count
      /\ "OFFSETS" \in pipe.outFlags => b.pos = pipe.count
      /\ "OFFSETS" \in setup.outFlags => "OFFSETS" \in pipe.outFlags
  BY <1>1, <1>2, <1>3 DEF IsOpen, Open, WritingOK, PipeType
<1>5. Head(pipe.writing) = b /\ b \in Buffer /\ b.count \in Nat
  BY <1>4, SingleSeq DEF Buffer
<1>6. at = pipe.count
  BY <1>4
<1>7. PICK ret \in 1 .. b.count :
        /\ pipe' = hin_pipe_write_callback(pipe, ret)
        /\ sink' = sink \cup {<<at + j, b.start + j>> : j \in 0 .. ret - 1}
  BY <1>5 DEF WriteData
<1> HIDE DEF at
<1>8. ret \in Nat /\ ret >= 1 /\ ret <= b.count
  BY <1>5, <1>7
<1>9. /\ IsOpen' \/ IsClosed'
      /\ pipe'.count = pipe.count + ret /\ pipe'.errors = pipe.errors
  <2>1. src \in Nat
    BY DEF IInv
  <2>2. CASE ret < b.count
    <3>1. /\ Open(pipe', setup, src, ended)
          /\ pipe'.count = pipe.count + ret /\ pipe'.errors = pipe.errors
      BY <1>1, <1>2, <1>3, <1>7, <1>8, <2>1, <2>2, WriteShortGood DEF IsOpen
    <3> QED BY <1>2, <3>1 DEF IsOpen
  <2>3. CASE ret = b.count
    <3>1. /\ Open(pipe', setup, src, ended) \/ Closed(pipe', setup, src, ended)
          /\ pipe'.count = pipe.count + b.count /\ pipe'.errors = pipe.errors
      BY <1>1, <1>2, <1>3, <1>7, <2>1, <2>3, WriteFullGood DEF IsOpen
    <3> QED BY <1>2, <2>3, <3>1 DEF IsOpen, IsClosed
  <2> QED BY <1>5, <1>8, <2>2, <2>3
<1>10. sink' = {<<j, j>> : j \in 0 .. pipe'.count - 1}
  <2>1. sink = {<<j, j>> : j \in 0 .. pipe.count - 1}
    BY DEF IInv
  <2>2. sink' = sink \cup {<<pipe.count + j, pipe.count + j>> : j \in 0 .. ret - 1}
    BY <1>4, <1>6, <1>7
  <2> QED BY <1>1, <1>8, <1>9, <2>1, <2>2, SinkGrows
<1>11. started' /\ pipe'.count > pipe.count
  BY <1>1, <1>2, <1>8, <1>9 DEF IInv
<1> QED BY <1>2, <1>3, <1>9, <1>10, <1>11 DEF IInv, IsOpen, IsClosed, CountRespected

(* ... and when the sink refuses. *)
LEMMA WriteErrorInv ==
  ASSUME IInv, WriteError
  PROVE  /\ IInv' /\ IsOpen /\ IsClosed' /\ "out" \in pipe'.errors
         /\ pipe'.count = pipe.count
<1>1. setup \in SetupType /\ src \in Nat
  BY InvFacts DEF IInv
<1>2. /\ pipe.writing # <<>> /\ UNCHANGED <<setup, started, ended, src, sink>>
      /\ pipe' = hin_pipe_write_callback(pipe, -1)
  BY DEF WriteError
<1>3. IsOpen
  BY <1>2 DEF IInv, IsOpen, Closed
<1>4. /\ Closed(pipe', setup, src, ended)
      /\ pipe'.count = pipe.count /\ "out" \in pipe'.errors
  BY <1>1, <1>2, <1>3, WriteFailedGood DEF IsOpen
<1>5. started' /\ IsClosed' /\ sink' = {<<j, j>> : j \in 0 .. pipe'.count - 1}
  BY <1>2, <1>4 DEF IInv, IsClosed
<1> QED BY <1>2, <1>3, <1>4, <1>5 DEF IInv, IsClosed, CountRespected

(* A fed pipe that is not freed is open: it has no read of its own. *)
LEMMA FedOpen ==
  ASSUME IInv, "INACTIVE" \in setup.inFlags, ~ pipe.freed
  PROVE  IsOpen /\ pipe.reading = <<>>
<1>1. pipe.reading = <<>>
  BY InvFacts DEF ReadingOK
<1> QED BY <1>1 DEF IInv, IsOpen, Closed

(* A record of the feeder. *)
LEMMA FeedInv ==
  ASSUME IInv, Feed
  PROVE  /\ IInv' /\ IsOpen /\ IsOpen' /\ pipe'.count = pipe.count
         /\ src' \in Nat /\ src' > src
<1>1. setup \in SetupType /\ src \in Nat /\ setup.srcLen \in Nat /\ Taken(setup, src) \in Nat
  BY InvFacts DEF IInv, SetupType
<1>2. /\ started /\ ~ pipe.freed /\ "INACTIVE" \in setup.inFlags
      /\ UNCHANGED <<setup, started, ended, sink>>
  BY DEF Feed
<1>3. IsOpen /\ pipe.reading = <<>>
  BY <1>2, FedOpen
<1>4. PICK n \in 1 .. setup.srcLen - src :
        /\ pipe' = hin_pipe_advance(hin_pipe_process_buffer(pipe,
                     [start |-> setup.header + src, count |-> n, pos |-> 0]))
        /\ src' = src + n
  BY DEF Feed
<1> DEFINE b == [start |-> setup.header + src, count |-> n, pos |-> 0]
           i == hin_pipe_process_buffer(pipe, b)
<1>5. /\ n \in Nat /\ n >= 1
      /\ b \in Buffer /\ b.start = Taken(setup, src) /\ b.count = n /\ b.count >= 1
  BY <1>1, <1>4 DEF Buffer, Taken
<1>6. pipe' = hin_pipe_advance(i)
  BY <1>4
<1> HIDE DEF b
<1>7. /\ Open(i, setup, src + n, ended) /\ i.writeQue # <<>>
      /\ i.count = pipe.count /\ i.errors = pipe.errors
  BY <1>1, <1>2, <1>3, <1>5, IntakeGood DEF IsOpen
<1>8. src + n \in Nat /\ src + n > src
  BY <1>1, <1>5
<1> HIDE DEF i
<1>9. Open(pipe', setup, src + n, ended) /\ pipe'.count = pipe.count
  BY <1>1, <1>6, <1>7, <1>8, AdvanceGood
<1>10. IsOpen' /\ started' /\ sink' = {<<j, j>> : j \in 0 .. pipe'.count - 1}
  BY <1>2, <1>4, <1>9 DEF IInv, IsOpen
<1>11. CountRespected'
  BY <1>2, SetupsAssumption DEF IInv, CountRespected
<1> QED BY <1>2, <1>3, <1>4, <1>8, <1>9, <1>10, <1>11 DEF IInv, IsOpen

(* The end record of the feeder. *)
LEMMA FinishInv ==
  ASSUME IInv, Finish
  PROVE  /\ IInv' /\ IsOpen /\ pipe'.count = pipe.count /\ "out" \notin pipe'.errors
<1>1. setup \in SetupType /\ src \in Nat
  BY InvFacts DEF IInv
<1>2. /\ started /\ ~ pipe.freed /\ "INACTIVE" \in setup.inFlags
      /\ ended' = TRUE /\ pipe' = hin_pipe_finish(pipe)
      /\ UNCHANGED <<setup, started, src, sink>>
  BY DEF Finish
<1>3. IsOpen /\ pipe.reading = <<>>
  BY <1>2, FedOpen
<1>4. /\ Open(pipe', setup, src, TRUE) \/ Closed(pipe', setup, src, TRUE)
      /\ pipe'.count = pipe.count /\ pipe'.errors = pipe.errors
  BY <1>1, <1>2, <1>3, FinishGood DEF IsOpen
<1>5. "out" \notin pipe'.errors
  BY <1>3, <1>4 DEF IsOpen, Open
<1>6. IsOpen' \/ IsClosed'
  BY <1>2, <1>4 DEF IsOpen, IsClosed
<1> QED BY <1>2, <1>3, <1>4, <1>5, <1>6 DEF IInv, IsOpen, IsClosed, CountRespected

(* Every step preserves the invariant. *)
LEMMA NextInv == IInv /\ [Next]_vars => IInv'
<1> SUFFICES ASSUME IInv, [Next]_vars PROVE IInv'
  OBVIOUS
<1>1. CASE Start
  BY <1>1, StartInv
<1>2. CASE ReadData
  BY <1>2, ReadDataInv
<1>3. CASE ReadEnd
  BY <1>3, ReadEndInv
<1>4. CASE WriteData
  BY <1>4, WriteDataInv
<1>5. CASE WriteError
  BY <1>5, WriteErrorInv
<1>6. CASE Feed
  BY <1>6, FeedInv
<1>7. CASE Finish
  BY <1>7, FinishInv
<1>8. CASE UNCHANGED vars
  BY <1>8 DEF vars, IInv, CountRespected
<1> QED BY <1>1, <1>2, <1>3, <1>4, <1>5, <1>6, <1>7, <1>8 DEF Next

(* ... so it holds always. *)
LEMMA AlwaysInv == Spec => []IInv
BY InitInv, NextInv, PTL DEF Spec

----------------------------------------------------------------------------
(* The theorems. *)

(* Every field of the pipe keeps its type, and a read asks for at least    *)
(* one byte and at most for a buffer (hin_pipe_read_next): for no length   *)
(* of the body, no `left` and no queue is it a read of zero bytes, which   *)
(* would be taken for the end of the source. *)
THEOREM TypeCorrect == Spec => []TypeOK
<1>1. IInv => TypeOK
  <2> SUFFICES ASSUME IInv PROVE TypeOK
    OBVIOUS
  <2>1. pipe \in PipeType /\ pipe.count \in Nat /\ ReadingOK(pipe, setup, src)
    BY InvFacts
  <2>2. \A i \in 1 .. Len(pipe.reading) : pipe.reading[i].count \in 1 .. ReadSz
    <3>1. CASE pipe.reading = <<>>
      BY <3>1
    <3>2. CASE pipe.reading # <<>>
      BY <2>1, <3>2 DEF ReadingOK
    <3> QED BY <3>1, <3>2
  <2>3. sink \subseteq Nat \X Nat
    <3>1. sink = {<<j, j>> : j \in 0 .. pipe.count - 1}
      BY DEF IInv
    <3>2. 0 .. pipe.count - 1 \subseteq Nat
      BY <2>1
    <3> QED BY <3>1, <3>2
  <2> QED BY <2>1, <2>2, <2>3 DEF IInv, TypeOK
<1> QED BY <1>1, AlwaysInv, PTL

(* Whatever the order of the completions, the short counts and the merges, *)
(* each byte lands where it was meant to. *)
THEOREM CopyFaithful == Spec => []FaithfulCopy
<1>1. IInv => FaithfulCopy
  BY DEF IInv, FaithfulCopy
<1> QED BY <1>1, AlwaysInv, PTL

(* What a pipe takes in: a counted one leaves the next request in the      *)
(* socket, and however slow its sink, one that reads for itself never      *)
(* queues three buffers of bytes, if its caller did not put as many into   *)
(* it before hin_pipe_start.  The queue has no gaps. *)
THEOREM IntakeCorrect ==
  ASSUME \A s \in Setups : s.header + s.prefed < 3 * ReadSz
  PROVE  Spec => []IntakeExact
<1>1. IInv => QueueBounded
  <2> SUFFICES ASSUME IInv, "INACTIVE" \notin setup.inFlags
               PROVE  Queued(pipe.writeQue) < 3 * ReadSz
    BY DEF QueueBounded
  <2>1. CASE Open(pipe, setup, src, ended)
    <3>1. /\ Unsent(pipe) \in Nat /\ Taken(setup, src) \in Nat /\ setup \in SetupType
          /\ Queued(pipe.writeQue) = Taken(setup, src) - Unsent(pipe)
      BY <2>1, OpenType, InvFacts DEF IInv
    <3>2. Taken(setup, setup.prefed) < 3 * ReadSz /\ Taken(setup, setup.prefed) \in Nat
      BY <3>1 DEF IInv, Taken, SetupType
    <3>3. Queued(pipe.writeQue) \in Int /\ 3 * ReadSz \in Int
      BY <3>1, ReadSzAssumption
    <3>4. Bounded(pipe, setup)
      BY <2>1 DEF Open
    <3> QED BY <3>2, <3>3, <3>4 DEF Bounded
  <2>2. CASE Closed(pipe, setup, src, ended)
    BY <2>2, ReadSzAssumption DEF Closed, Queued
  <2> QED BY <2>1, <2>2 DEF IInv
<1>2. IInv => \A i \in 1 .. Len(pipe.writeQue) - 1 :
                End(pipe.writeQue[i]) = pipe.writeQue[i + 1].start
  <2> SUFFICES ASSUME IInv, NEW i \in 1 .. Len(pipe.writeQue) - 1
               PROVE  End(pipe.writeQue[i]) = pipe.writeQue[i + 1].start
    OBVIOUS
  <2>1. CASE Open(pipe, setup, src, ended)
    BY <2>1 DEF Open, Chain
  <2>2. CASE Closed(pipe, setup, src, ended)
    BY <2>2 DEF Closed
  <2> QED BY <2>1, <2>2 DEF IInv
<1>3. IInv => IntakeExact
  BY <1>1, <1>2 DEF IInv, IntakeExact
<1> QED BY <1>3, AlwaysInv, PTL

(* finish_callback without an error means that the output is complete and  *)
(* the source exhausted. *)
THEOREM FinishCorrect == Spec => []FinishedComplete
<1>1. IInv => FinishedComplete
  <2> SUFFICES ASSUME IInv, pipe.finished > 0
               PROVE  /\ "out" \notin pipe.errors =>
                           {w[1] : w \in sink} = 0 .. setup.header + src - 1
                      /\ pipe.errors = {} =>
                           \/ src >= setup.srcLen
                           \/ "COUNT" \in setup.inFlags /\ src >= setup.left
                           \/ ended
    BY DEF FinishedComplete
  <2>1. Closed(pipe, setup, src, ended)
    BY InvFacts DEF IInv
  <2>2. "out" \notin pipe.errors => {w[1] : w \in sink} = 0 .. setup.header + src - 1
    <3> SUFFICES ASSUME "out" \notin pipe.errors
                 PROVE  {w[1] : w \in sink} = 0 .. setup.header + src - 1
      OBVIOUS
    <3> DEFINE m == setup.header + src
    <3>1. pipe.count = m
      BY <2>1 DEF Closed, Taken
    <3> HIDE DEF m
    <3>2. sink = {<<j, j>> : j \in 0 .. m - 1}
      BY <3>1 DEF IInv
    <3>3. {w[1] : w \in {<<j, j>> : j \in 0 .. m - 1}} = 0 .. m - 1
      <4>1. \A j \in 0 .. m - 1 : <<j, j>>[1] = j
        OBVIOUS
      <4> QED BY <4>1
    <3>4. {w[1] : w \in sink} = 0 .. m - 1
      BY ONLY <3>2, <3>3
    <3>5. m - 1 = setup.header + src - 1
      <4>1. setup.header \in Nat /\ src \in Nat
        BY InvFacts DEF IInv, SetupType
      <4> QED BY <4>1 DEF m
    <3> QED BY <3>4, <3>5
  <2>3. Exhausted(pipe, setup, src, ended)
    BY <2>1 DEF Closed
  <2> QED BY <2>2, <2>3 DEF Exhausted
<1> QED BY <1>1, AlwaysInv, PTL

(* A pipe is freed only when nothing on the ring points at it, and after   *)
(* its owner was told. *)
THEOREM FreeCorrect == Spec => []SafeFree
<1>1. IInv => SafeFree
  BY DEF IInv, SafeFree, Open, Closed
<1> QED BY <1>1, AlwaysInv, PTL

(* finish_callback runs once, and no callback after it, also for a read    *)
(* that completes after the pipe was closed. *)
THEOREM OwnerCorrect == Spec => OwnerNotifiedOnce
<1> DEFINE Once == pipe.finished > 0 =>
                     pipe'.finished = pipe.finished /\ pipe'.errors = pipe.errors
<1>1. IInv /\ [Next]_vars => [Once]_vars
  <2> SUFFICES ASSUME IInv, Next, pipe.finished > 0
               PROVE  pipe'.finished = pipe.finished /\ pipe'.errors = pipe.errors
    OBVIOUS
  <2>1. IsClosed /\ ~ IsOpen /\ pipe.finished = 1
    BY InvFacts DEF IInv, IsOpen, IsClosed
  <2>2. IsClosed' => pipe'.finished = 1
    BY DEF IsClosed, Closed
  <2>3. CASE ReadData
    BY <2>1, <2>2, <2>3, ReadDataInv
  <2>4. CASE ReadEnd
    BY <2>1, <2>2, <2>4, ReadEndInv
  <2>5. CASE Start \/ WriteData \/ WriteError \/ Feed \/ Finish
    BY <2>1, <2>5, StartInv, WriteDataInv, WriteErrorInv, FeedInv, FinishInv
  <2> QED BY <2>3, <2>4, <2>5 DEF Next
<1> QED BY <1>1, AlwaysInv, PTL DEF Spec, OwnerNotifiedOnce

(* The pipe implements the copy it is used as: bytes are taken and         *)
(* delivered in order, and the owner is told `done` only when everything   *)
(* taken was delivered. *)
THEOREM CopyImplemented == Spec => ImplementsCopy
<1> DEFINE taken == setup.header + src
           status == IF pipe.finished = 0 THEN "open"
                     ELSE IF "out" \in pipe.errors THEN "failed" ELSE "done"
<1>1. Init => Copy!Init
  <2> SUFFICES ASSUME Init PROVE Copy!Init
    OBVIOUS
  <2>1. IInv /\ sink = {} /\ ~ started
    BY InitInv DEF Init
  <2>2. pipe.count \in Nat /\ taken \in Nat /\ pipe.finished = 0
    BY <2>1, InvFacts DEF IInv, Taken
  <2>3. pipe.count = 0
    <3>1. pipe.count # 0 => 0 \in 0 .. pipe.count - 1
      BY <2>2
    <3>2. pipe.count # 0 => <<0, 0>> \in sink
      BY <2>1, <3>1 DEF IInv
    <3> QED BY <2>1, <3>2
  <2> QED BY <2>2, <2>3 DEF Copy!Init
<1>2. IInv /\ [Next]_vars => [Copy!Next]_(Copy!vars)
  <2> SUFFICES ASSUME IInv, [Next]_vars PROVE [Copy!Next]_(Copy!vars)
    OBVIOUS
  <2>1. IInv'
    BY NextInv
  <2>2. /\ (IsOpen \/ IsClosed) /\ pipe.count \in Nat /\ taken \in Nat /\ pipe.count <= taken
        /\ IsOpen => status = "open"
        /\ IsClosed => status = (IF "out" \in pipe.errors THEN "failed" ELSE "done")
        /\ IsClosed /\ "out" \notin pipe.errors => pipe.count = taken
    <3>1. /\ IsOpen => pipe.finished = 0
          /\ IsClosed => pipe.finished = 1
      BY InvFacts DEF IsOpen, IsClosed
    <3>2. IsClosed /\ "out" \notin pipe.errors => pipe.count = taken
      BY DEF IsClosed, Closed, Taken
    <3>3. (IsOpen \/ IsClosed) /\ pipe.count \in Nat /\ taken \in Nat /\ pipe.count <= taken
      BY InvFacts DEF IInv, IsOpen, IsClosed, Taken
    <3> QED BY <3>1, <3>2, <3>3
  <2>3. /\ (IsOpen \/ IsClosed)' /\ pipe'.count \in Nat /\ taken' \in Nat /\ pipe'.count <= taken'
        /\ IsOpen' => status' = "open"
        /\ IsClosed' => status' = (IF "out" \in pipe'.errors THEN "failed" ELSE "done")
        /\ IsClosed' /\ "out" \notin pipe'.errors => pipe'.count = taken'
    <3>1. /\ IsOpen' => pipe'.finished = 0
          /\ IsClosed' => pipe'.finished = 1
      BY DEF IsOpen, IsClosed, Open, Closed
    <3>2. IsClosed' /\ "out" \notin pipe'.errors => pipe'.count = taken'
      BY DEF IsClosed, Closed, Taken
    <3>3. (IsOpen \/ IsClosed)'
      BY <2>1 DEF IInv, IsOpen, IsClosed
    <3>4. pipe'.count \in Nat /\ taken' \in Nat /\ pipe'.count <= taken'
      <4>1. setup' \in SetupType /\ src' \in Nat
        BY <2>1, SetupsAssumption DEF IInv
      <4>2. Taken(setup', src') = taken' /\ taken' \in Nat
        BY <4>1 DEF Taken, SetupType
      <4>3. CASE IsOpen'
        <5>1. Open(pipe', setup', src', ended')
          BY <4>3 DEF IsOpen
        <5>2. /\ pipe'.count \in Nat /\ Unsent(pipe') \in Nat
              /\ pipe'.count <= Unsent(pipe') /\ Unsent(pipe') <= Taken(setup', src')
          BY <4>1, <5>1, OpenType
        <5> QED BY <4>2, <5>2
      <4>4. CASE IsClosed'
        BY <4>2, <4>4 DEF IsClosed, Closed, PipeType
      <4> QED BY <3>3, <4>3, <4>4
    <3> QED BY <3>1, <3>2, <3>3, <3>4
  <2>4. UNCHANGED setup /\ setup.header \in Nat /\ src \in Nat
    <3>1. UNCHANGED setup
      BY DEF Next, vars, Start, ReadData, ReadEnd, WriteData, WriteError, Feed, Finish
    <3> QED BY <3>1, InvFacts DEF IInv, SetupType
  <2>5. Copy!vars = <<taken, pipe.count, status>>
    BY DEF Copy!vars
  <2> HIDE DEF status
  <2>6. CASE ReadData
    <3>1. /\ pipe'.count = pipe.count /\ pipe'.errors = pipe.errors /\ src' \in Nat /\ src' > src
          /\ \/ IsOpen /\ IsOpen'
             \/ IsClosed /\ IsClosed' /\ "out" \in pipe.errors
      BY <2>6, ReadDataInv
    <3>2. status' = status /\ status \in {"open", "failed"}
      BY <2>2, <2>3, <3>1
    <3>3. taken' > taken
      BY <2>4, <3>1
    <3>4. Copy!Take
      BY <2>3, <3>1, <3>2, <3>3 DEF Copy!Take, status
    <3> QED BY <3>4 DEF Copy!Next
  <2>7. CASE Feed
    <3>1. IsOpen /\ IsOpen' /\ pipe'.count = pipe.count /\ src' \in Nat /\ src' > src
      BY <2>7, FeedInv
    <3>2. status' = status /\ status \in {"open", "failed"}
      BY <2>2, <2>3, <3>1
    <3>3. taken' > taken
      BY <2>4, <3>1
    <3>4. Copy!Take
      BY <2>3, <3>1, <3>2, <3>3 DEF Copy!Take, status
    <3> QED BY <3>4 DEF Copy!Next
  <2>8. CASE WriteData
    <3>1. IsOpen /\ pipe'.errors = pipe.errors /\ pipe'.count > pipe.count /\ "out" \notin pipe.errors
      BY <2>8, WriteDataInv DEF IsOpen, Open
    <3>2. taken' = taken
      BY <2>4, <2>8 DEF WriteData
    <3>3. pipe'.count \in (pipe.count + 1) .. taken
      BY <2>2, <2>3, <3>1, <3>2
    <3>4. status = "open" /\ status' \in {"open", "done"}
      BY <2>2, <2>3, <3>1
    <3>5. status' = "done" => pipe'.count = taken
      BY <2>3, <3>1, <3>2
    <3>6. Copy!Deliver
      BY <3>2, <3>3, <3>4, <3>5 DEF Copy!Deliver, status
    <3> QED BY <3>6 DEF Copy!Next
  <2>9. CASE WriteError
    <3>1. IsOpen /\ IsClosed' /\ "out" \in pipe'.errors /\ pipe'.count = pipe.count
      BY <2>9, WriteErrorInv
    <3>2. taken' = taken
      BY <2>4, <2>9 DEF WriteError
    <3>3. status = "open" /\ status' = "failed"
      BY <2>2, <2>3, <3>1
    <3>4. Copy!Fail
      BY <3>1, <3>2, <3>3 DEF Copy!Fail, status
    <3> QED BY <3>4 DEF Copy!Next
  <2>10. ASSUME IsOpen, pipe'.count = pipe.count, "out" \notin pipe'.errors, taken' = taken
         PROVE  [Copy!Next]_(Copy!vars)
    <3>1. CASE IsOpen'
      <4>1. status' = status
        BY <2>2, <2>3, <2>10, <3>1
      <4> QED BY <2>10, <4>1 DEF Copy!vars, status
    <3>2. CASE IsClosed'
      <4>1. status = "open" /\ status' = "done" /\ pipe.count = taken
        BY <2>2, <2>3, <2>10, <3>2
      <4>2. Copy!End
        BY <2>10, <4>1 DEF Copy!End, status
      <4> QED BY <4>2 DEF Copy!Next
    <3> QED BY <2>3, <3>1, <3>2
  <2>11. CASE Start
    BY <2>4, <2>10, <2>11, StartInv DEF Start
  <2>12. CASE Finish
    BY <2>4, <2>10, <2>12, FinishInv DEF Finish
  <2>13. CASE ReadEnd
    <3>1. taken' = taken /\ pipe'.count = pipe.count
      BY <2>4, <2>13, ReadEndInv DEF ReadEnd
    <3>2. CASE IsOpen /\ "out" \notin pipe'.errors
      BY <2>10, <3>1, <3>2
    <3>3. CASE IsClosed /\ IsClosed' /\ pipe'.errors = pipe.errors
      <4>1. status' = status
        BY <2>2, <2>3, <3>3
      <4> QED BY <3>1, <4>1 DEF Copy!vars, status
    <3> QED BY <2>13, <3>2, <3>3, ReadEndInv
  <2>14. CASE UNCHANGED vars
    BY <2>14 DEF vars, Copy!vars
  <2> QED BY <2>6, <2>7, <2>8, <2>9, <2>11, <2>12, <2>13, <2>14 DEF Next
<1> QED BY <1>1, <1>2, AlwaysInv, PTL DEF Spec, ImplementsCopy, Copy!Spec
=============================================================================
