-------------------------- MODULE HinUringProofs --------------------------
(***************************************************************************)
(* Proofs about HinUring, for any sets of buffers, any depth of the ring   *)
(* of two or more and any bound on the requests.                           *)
(***************************************************************************)
EXTENDS HinUring, FiniteSetTheorems, SequenceTheorems, TLAPS

(* The inductive invariant.  The tick stays out of the overflow list       *)
(* because the ring is empty whenever the loop sleeps: hin_event_wait has  *)
(* given the kernel all of it, and completions put nothing on it. *)
IInv == /\ RequestsExact
        /\ TickNeverQueued
        /\ pc = "blocked" => sq = <<>>

One(e, b) == IF e = b THEN 1 ELSE 0

----------------------------------------------------------------------------
(* What Count returns for the sequences the code's lists go through. *)

(* The positions Count looks at are finitely many. *)
LEMMA CountType ==
  ASSUME NEW S, NEW s \in Seq(S), NEW b
  PROVE  IsFiniteSet({i \in DOMAIN s : s[i] = b}) /\ Count(s, b) \in Nat
<1>1. DOMAIN s = 1 .. Len(s) /\ Len(s) \in Nat
  BY LenProperties
<1>2. IsFiniteSet(1 .. Len(s))
  BY <1>1, FS_Interval
<1>3. {i \in DOMAIN s : s[i] = b} \in SUBSET (1 .. Len(s))
  BY <1>1
<1> QED BY <1>2, <1>3, FS_Subset, FS_CardinalityType DEF Count

(* Nothing is on an empty list. *)
LEMMA CountEmpty ==
  ASSUME NEW b
  PROVE  Count(<<>>, b) = 0
<1>1. {i \in DOMAIN <<>> : <<>>[i] = b} = {}
  OBVIOUS
<1> QED BY <1>1, FS_EmptySet DEF Count

(* An entry put at the end counts once. *)
LEMMA CountAppend ==
  ASSUME NEW S, NEW s \in Seq(S), NEW e \in S, NEW b
  PROVE  Count(Append(s, e), b) = Count(s, b) + One(e, b)
<1> DEFINE I == {i \in DOMAIN s : s[i] = b}
           t == Append(s, e)
           J == {i \in DOMAIN t : t[i] = b}
<1>1. /\ Len(s) \in Nat /\ Len(t) = Len(s) + 1
      /\ DOMAIN s = 1 .. Len(s) /\ DOMAIN t = 1 .. Len(s) + 1
      /\ \A i \in 1 .. Len(s) : t[i] = s[i]
      /\ t[Len(s) + 1] = e
  BY LenProperties, AppendProperties
<1>2. IsFiniteSet(I) /\ Cardinality(I) \in Nat
  BY CountType DEF Count
<1>3. J = IF e = b THEN I \cup {Len(s) + 1} ELSE I
  BY <1>1
<1>4. Len(s) + 1 \notin I
  BY <1>1
<1>5. Count(s, b) = Cardinality(I) /\ Count(t, b) = Cardinality(J)
  BY DEF Count
<1> HIDE DEF I, J, t
<1>6. CASE e = b
  <2>1. Cardinality(I \cup {Len(s) + 1}) = Cardinality(I) + 1
    BY <1>2, <1>4, FS_AddElement
  <2> QED BY <2>1, <1>3, <1>5, <1>6 DEF One, t
<1>7. CASE e # b
  BY <1>2, <1>3, <1>5, <1>7 DEF One, t
<1> QED BY <1>6, <1>7

(* An entry put in front of the others counts once. *)
LEMMA CountFirst ==
  ASSUME NEW S, NEW s \in Seq(S), NEW e \in S, NEW b
  PROVE  Count(<<e>> \o s, b) = Count(s, b) + One(e, b)
<1> DEFINE I == {i \in DOMAIN s : s[i] = b}
           t == <<e>> \o s
           J == {i \in DOMAIN t : t[i] = b}
           K == {i \in 2 .. Len(s) + 1 : s[i - 1] = b}
           f == [i \in I |-> i + 1]
<1>1. <<e>> \in Seq(S) /\ Len(<<e>>) = 1 /\ <<e>>[1] = e
  OBVIOUS
<1>2. /\ t \in Seq(S) /\ Len(t) = 1 + Len(s)
      /\ \A i \in 1 .. 1 + Len(s) : t[i] = IF i <= 1 THEN <<e>>[i] ELSE s[i - 1]
  BY <1>1, ConcatProperties
<1>3. /\ Len(s) \in Nat
      /\ DOMAIN s = 1 .. Len(s) /\ DOMAIN t = 1 .. 1 + Len(s)
  BY <1>2, LenProperties
<1>4. IsFiniteSet(I) /\ Cardinality(I) \in Nat
  BY CountType DEF Count
<1>5. IsFiniteSet(K) /\ Cardinality(K) = Cardinality(I)
  <2>1. f \in Bijection(I, K)
    <3>1. f \in [I -> K]
      BY <1>3
    <3>2. \A x, y \in I : f[x] = f[y] => x = y
      BY <1>3
    <3>3. \A k \in K : \E x \in I : f[x] = k
      <4> TAKE k \in K
      <4>1. k - 1 \in I
        BY <1>3
      <4> QED BY <4>1, <1>3
    <3> HIDE DEF f, I, K
    <3> QED BY <3>1, <3>2, <3>3 DEF Bijection, Injection, Surjection, IsInjective
  <2>2. ExistsBijection(I, K)
    BY <2>1 DEF ExistsBijection
  <2> HIDE DEF I, K
  <2> QED BY <2>2, <1>4, FS_Bijection
<1>6. J = IF e = b THEN K \cup {1} ELSE K
  BY <1>1, <1>2, <1>3
<1>7. 1 \notin K
  BY <1>3
<1>8. Count(s, b) = Cardinality(I) /\ Count(t, b) = Cardinality(J)
  BY DEF Count
<1> HIDE DEF I, J, K, t
<1>9. Cardinality(K \cup {1}) = Cardinality(K) + 1
  BY <1>5, <1>7, FS_AddElement
<1>10. CASE e = b
  BY <1>5, <1>6, <1>8, <1>9, <1>10 DEF One, t
<1>11. CASE e # b
  BY <1>4, <1>5, <1>6, <1>8, <1>11 DEF One, t
<1> QED BY <1>10, <1>11

(* An entry taken from the front counts once less. *)
LEMMA CountTail ==
  ASSUME NEW S, NEW s \in Seq(S), s # <<>>, NEW b
  PROVE  /\ Head(s) \in S /\ Tail(s) \in Seq(S) /\ Len(Tail(s)) = Len(s) - 1
         /\ Count(s, b) = Count(Tail(s), b) + One(Head(s), b)
<1>1. /\ Head(s) \in S /\ Tail(s) \in Seq(S) /\ Len(Tail(s)) = Len(s) - 1
      /\ \A i \in 1 .. Len(Tail(s)) : Tail(s)[i] = s[i + 1]
  BY HeadTailProperties
<1> DEFINE t == <<Head(s)>> \o Tail(s)
<1>2. <<Head(s)>> \in Seq(S) /\ Len(<<Head(s)>>) = 1 /\ <<Head(s)>>[1] = s[1]
  BY <1>1
<1>3. /\ t \in Seq(S) /\ Len(t) = 1 + Len(Tail(s))
      /\ \A i \in 1 .. 1 + Len(Tail(s)) :
           t[i] = IF i <= 1 THEN <<Head(s)>>[i] ELSE Tail(s)[i - 1]
  BY <1>1, <1>2, ConcatProperties
<1>4. Len(s) \in Nat
  BY LenProperties
<1>5. Len(t) = Len(s) /\ \A i \in 1 .. Len(s) : s[i] = t[i]
  BY <1>1, <1>2, <1>3, <1>4
<1>6. s = t
  BY <1>3, <1>4, <1>5, SeqEqual
<1> QED BY <1>1, <1>6, CountFirst

----------------------------------------------------------------------------
(* hin_request_sqe puts b in one place, and on the list only when the ring *)
(* is full. *)
LEMMA SqeGood ==
  ASSUME NEW b \in OnRing, NEW r \in Seq(OnRing), NEW q \in Seq(OnRing),
         Len(r) <= Depth,
         hin_request_sqe(b, r, q)
  PROVE  /\ sq' \in Seq(OnRing) /\ queue' \in Seq(OnRing)
         /\ Len(sq') <= Depth
         /\ \A c : Count(sq', c) + Count(queue', c)
                     = Count(r, c) + Count(q, c) + One(b, c)
         /\ Len(r) < Depth => queue' = q
<1>1. Len(r) \in Nat /\ Depth \in Nat
  BY LenProperties, UringAssumption
<1>2. \A c : Count(r, c) \in Nat /\ Count(q, c) \in Nat
  BY CountType
<1>3. \A c : One(b, c) \in Nat
  BY DEF One
<1>4. CASE Len(r) < Depth
  <2>1. sq' = Append(r, b) /\ queue' = q
    BY <1>4 DEF hin_request_sqe
  <2>2. sq' \in Seq(OnRing) /\ Len(sq') = Len(r) + 1
    BY <2>1, AppendProperties
  <2>3. \A c : Count(sq', c) = Count(r, c) + One(b, c)
    BY <2>1, CountAppend
  <2> QED BY <1>1, <1>2, <1>3, <1>4, <2>1, <2>2, <2>3
<1>5. CASE ~ (Len(r) < Depth)
  <2>1. sq' = r /\ queue' = <<b>> \o q
    BY <1>5 DEF hin_request_sqe
  <2>2. <<b>> \in Seq(OnRing)
    OBVIOUS
  <2>3. queue' \in Seq(OnRing)
    BY <2>1, <2>2, ConcatProperties
  <2>4. \A c : Count(queue', c) = Count(q, c) + One(b, c)
    BY <2>1, CountFirst
  <2> QED BY <1>1, <1>2, <1>3, <1>5, <2>1, <2>3, <2>4
<1> QED BY <1>4, <1>5

(* hin_process_sqe_queue moves an entry and keeps the ring in its bounds. *)
LEMMA DrainGood ==
  ASSUME sq \in Seq(OnRing), queue \in Seq(OnRing), Len(sq) <= Depth
  PROVE  LET d == hin_process_sqe_queue
         IN  /\ d.sq \in Seq(OnRing) /\ d.queue \in Seq(OnRing)
             /\ Len(d.sq) <= Depth /\ Len(d.sq) <= Len(sq) + 1
             /\ \A c : /\ Count(d.sq, c) + Count(d.queue, c)
                            = Count(sq, c) + Count(queue, c)
                       /\ Count(d.queue, c) <= Count(queue, c)
<1>1. Len(sq) \in Nat /\ Depth \in Nat
  BY LenProperties, UringAssumption
<1>2. \A c : Count(sq, c) \in Nat /\ Count(queue, c) \in Nat
  BY CountType
<1>3. CASE queue = <<>> \/ Len(sq) >= Depth
  BY <1>1, <1>2, <1>3 DEF hin_process_sqe_queue
<1>4. CASE ~ (queue = <<>> \/ Len(sq) >= Depth)
  <2> DEFINE h == Head(queue)
             n == Append(sq, h)
             u == Tail(queue)
  <2>1. h \in OnRing /\ u \in Seq(OnRing)
    BY <1>4, CountTail
  <2>2. \A c : Count(queue, c) = Count(u, c) + One(h, c)
    BY <1>4, CountTail
  <2>3. n \in Seq(OnRing) /\ Len(n) = Len(sq) + 1
    BY <2>1, AppendProperties
  <2>4. \A c : Count(n, c) = Count(sq, c) + One(h, c)
    BY <2>1, CountAppend
  <2>5. \A c : One(h, c) \in Nat /\ Count(u, c) \in Nat
    BY <2>1, CountType DEF One
  <2>6. hin_process_sqe_queue = [sq |-> n, queue |-> u]
    BY <1>4 DEF hin_process_sqe_queue
  <2> HIDE DEF h, n, u
  <2> QED BY <1>1, <1>2, <1>4, <2>1, <2>2, <2>3, <2>4, <2>5, <2>6
<1> QED BY <1>3, <1>4

(* The first tick is on the ring when the loop starts. *)
LEMMA InitInv == Init => IInv
<1> SUFFICES ASSUME Init PROVE IInv
  OBVIOUS
<1>1. <<>> \in Seq(OnRing) /\ Timer \in OnRing /\ Timer \in Buffers
  BY DEF OnRing, Buffers
<1>2. sq = Append(<<>>, Timer) /\ Len(sq) = 1 /\ sq \in Seq(OnRing)
  BY <1>1 DEF Init
<1>3. TypeOK
  BY <1>1, <1>2, UringAssumption DEF TypeOK, Init
<1>4. \A b : Count(sq, b) = One(Timer, b)
  <2> TAKE b
  <2>1. Count(Append(<<>>, Timer), b) = Count(<<>>, b) + One(Timer, b)
    BY <1>1, CountAppend
  <2> QED BY <1>2, <2>1, CountEmpty DEF One
<1>5. \A b : Count(queue, b) = 0 /\ Count(cq, b) = 0
  BY CountEmpty DEF Init
<1>6. \A b \in OnRing : Requests(b) = One(Timer, b)
  BY <1>4, <1>5 DEF Requests, One, Init
<1>7. RequestsExact
  BY <1>2, <1>3, <1>6, UringAssumption DEF RequestsExact, One, Init
<1> QED BY <1>5, <1>7 DEF IInv, TickNeverQueued, Init

----------------------------------------------------------------------------
(* A request is put in one place and its buffer becomes active. *)
LEMMA RequestInv ==
  ASSUME IInv, NEW b \in Ring, hin_request(b)
  PROVE  IInv'
<1> USE DEF IInv, RequestsExact, TypeOK
<1>1. b \in OnRing /\ b # Timer /\ b \notin Poll /\ b \in Buffers \ {Timer}
  BY UringAssumption DEF OnRing, Buffers
<1>2. /\ sq' \in Seq(OnRing) /\ queue' \in Seq(OnRing) /\ Len(sq') <= Depth
      /\ \A c : Count(sq', c) + Count(queue', c)
                  = Count(sq, c) + Count(queue, c) + One(b, c)
      /\ Len(sq) < Depth => queue' = queue
  <2> HIDE DEF IInv, RequestsExact, TypeOK
  <2>1. hin_request_sqe(b, sq, queue)
    BY DEF hin_request
  <2>2. sq \in Seq(OnRing) /\ queue \in Seq(OnRing) /\ Len(sq) <= Depth
    BY DEF IInv, RequestsExact, TypeOK
  <2> QED BY <1>1, <2>1, <2>2, SqeGood
<1>3. /\ b \notin active /\ active' = active \cup {b} /\ b \notin freed
      /\ pc = "callback" /\ left[b] > 0
      /\ left' = [left EXCEPT ![b] = @ - 1]
      /\ UNCHANGED <<freed, kernel, cq, polled, pc, cur>>
  BY DEF hin_request, Asks, hin_request_active
<1>4. TypeOK'
  BY <1>1, <1>2, <1>3, UringAssumption, SMTT(30)
<1>5. \A c \in OnRing : Requests(c)' = IF c \in active' THEN 1 ELSE 0
  <2> TAKE c \in OnRing
  <2>1. Count(sq, c) \in Nat /\ Count(queue, c) \in Nat /\ Count(cq, c) \in Nat
    BY CountType
  <2>2. Count(sq', c) \in Nat /\ Count(queue', c) \in Nat
    BY <1>2, CountType
  <2>3. /\ Requests(c) = Count(sq, c) + Count(queue, c) + kernel[c] + Count(cq, c)
        /\ Requests(c)' = Count(sq', c) + Count(queue', c) + kernel[c] + Count(cq, c)
    BY <1>3 DEF Requests
  <2>4. kernel[c] \in Nat /\ One(b, c) \in Nat
    BY DEF One
  <2>5. Count(sq', c) + Count(queue', c) = Count(sq, c) + Count(queue, c) + One(b, c)
    BY <1>2
  <2>6. Requests(c)' = Requests(c) + One(b, c)
    <3> HIDE DEF IInv, RequestsExact, TypeOK
    <3> QED BY <2>1, <2>2, <2>3, <2>4, <2>5
  <2> QED BY <1>3, <2>6 DEF One
<1>6. polled' = active' \cap Poll /\ freed' \cap active' = {}
  BY <1>1, <1>3
<1>7. Count(queue', Timer) = 0
  <2>1. Timer \in OnRing /\ One(b, Timer) = 0
    BY <1>1 DEF OnRing, One
  <2>2. CASE Len(sq) < Depth
    BY <1>2, <2>2 DEF TickNeverQueued
  <2>3. CASE ~ (Len(sq) < Depth)
    <3>1. queue' = <<b>> \o queue
      BY <2>3 DEF hin_request, hin_request_sqe
    <3>2. Count(queue', Timer) = Count(queue, Timer) + One(b, Timer)
      BY <1>1, <3>1, CountFirst
    <3> QED BY <2>1, <3>2 DEF TickNeverQueued
  <2> QED BY <2>2, <2>3
<1> QED BY <1>2, <1>3, <1>4, <1>5, <1>6, <1>7 DEF TickNeverQueued

(* hin_event_wait hands the whole ring over, so the ring is empty when the *)
(* loop sleeps. *)
LEMMA WaitInv ==
  ASSUME IInv, hin_event_wait
  PROVE  IInv'
<1> USE DEF IInv, RequestsExact, TypeOK
<1>1. /\ kernel' = [b \in OnRing |-> kernel[b] + Count(sq, b)]
      /\ sq' = <<>> /\ pc' = "blocked"
      /\ UNCHANGED <<active, freed, queue, cq, polled, left, cur>>
  BY DEF hin_event_wait, Count
<1>2. \A c : Count(sq, c) \in Nat /\ Count(queue, c) \in Nat /\ Count(cq, c) \in Nat
  BY CountType
<1>3. \A c : Count(sq', c) = 0
  BY <1>1, CountEmpty
<1>4. TypeOK' /\ Len(sq') <= Depth
  <2>1. sq' \in Seq(OnRing) /\ Len(sq') = 0
    BY <1>1
  <2>2. \A c \in OnRing : kernel[c] + Count(sq, c) \in Nat
    BY <1>2
  <2>3. kernel' \in [OnRing -> Nat]
    BY <1>1, <2>2
  <2> QED BY <1>1, <2>1, <2>3, UringAssumption
<1>5. \A c \in OnRing : Requests(c)' = Requests(c)
  <2> TAKE c \in OnRing
  <2>1. kernel[c] \in Nat /\ kernel'[c] = kernel[c] + Count(sq, c)
    BY <1>1
  <2>2. Requests(c)' = 0 + Count(queue, c) + kernel'[c] + Count(cq, c)
    BY <1>1, <1>3 DEF Requests
  <2> HIDE DEF IInv, RequestsExact, TypeOK
  <2> QED BY <1>2, <2>1, <2>2 DEF Requests
<1> QED BY <1>1, <1>4, <1>5 DEF TickNeverQueued

(* A completion moves a request from the kernel to the completion ring. *)
LEMMA CompleteInv ==
  ASSUME IInv, NEW b \in OnRing, Complete(b)
  PROVE  IInv'
<1> USE DEF IInv, RequestsExact, TypeOK
<1>1. /\ kernel[b] > 0 /\ kernel' = [kernel EXCEPT ![b] = @ - 1]
      /\ cq' = Append(cq, b)
      /\ UNCHANGED <<active, freed, sq, queue, polled, left, pc, cur>>
  BY DEF Complete
<1>2. \A c : Count(sq, c) \in Nat /\ Count(queue, c) \in Nat /\ Count(cq, c) \in Nat
  BY CountType
<1>3. \A c : Count(cq', c) = Count(cq, c) + One(b, c)
  BY <1>1, CountAppend
<1>4. cq' \in Seq(OnRing)
  BY <1>1, AppendProperties
<1>5. TypeOK'
  BY <1>1, <1>4
<1>6. \A c \in OnRing : Requests(c)' = Requests(c)
  <2> TAKE c \in OnRing
  <2>1. kernel[c] \in Nat /\ kernel'[c] = kernel[c] - One(b, c) /\ One(b, c) \in Nat
    BY <1>1 DEF One
  <2>2. Requests(c)' = Count(sq, c) + Count(queue, c) + kernel'[c] + Count(cq', c)
    BY <1>1 DEF Requests
  <2> HIDE DEF IInv, RequestsExact, TypeOK
  <2> QED BY <1>2, <1>3, <2>1, <2>2 DEF Requests
<1> QED BY <1>1, <1>5, <1>6 DEF TickNeverQueued

(* A completion is taken from the completion ring, whatever its buffer. *)
LEMMA TurnGood ==
  ASSUME IInv, NEW b, Turn(b)
  PROVE  /\ b \in OnRing /\ b \in active /\ b \notin freed
         /\ cq' \in Seq(OnRing)
         /\ \A c : Count(cq, c) = Count(cq', c) + One(b, c)
         /\ sq = <<>> /\ pc' = "callback" /\ cur' = b
         /\ UNCHANGED <<freed, kernel, polled, left>>
<1> USE DEF IInv, RequestsExact, TypeOK
<1>1. /\ pc = "blocked" /\ cq # <<>> /\ b = Head(cq) /\ cq' = Tail(cq)
      /\ pc' = "callback" /\ cur' = b
      /\ UNCHANGED <<freed, kernel, polled, left>>
  BY DEF Turn
<1>2. cq' \in Seq(OnRing) /\ b \in OnRing
  BY <1>1, CountTail
<1>3. \A c : Count(cq, c) = Count(cq', c) + One(b, c)
  BY <1>1, CountTail
<1>4. Count(cq, b) >= 1
  <2>1. Count(cq', b) \in Nat
    BY <1>2, CountType
  <2> QED BY <1>3, <2>1 DEF One
<1>5. Requests(b) >= 1
  <2>1. Count(sq, b) \in Nat /\ Count(queue, b) \in Nat /\ Count(cq, b) \in Nat
    BY CountType
  <2>2. kernel[b] \in Nat
    BY <1>2
  <2> HIDE DEF IInv, RequestsExact, TypeOK
  <2> QED BY <1>4, <2>1, <2>2 DEF Requests
<1>6. b \in active
  BY <1>2, <1>5
<1> QED BY <1>1, <1>2, <1>3, <1>6

(* The callback of a request: its one request is over, and an entry of the *)
(* overflow list may have moved to the ring. *)
LEMMA ProcessInv ==
  ASSUME IInv, NEW b \in Ring, hin_event_process(b)
  PROVE  IInv'
<1> USE DEF IInv, RequestsExact, TypeOK
<1>1. /\ b \in OnRing /\ b \in active /\ cq' \in Seq(OnRing)
      /\ \A c : Count(cq, c) = Count(cq', c) + One(b, c)
      /\ pc' = "callback" /\ cur' = b
      /\ UNCHANGED <<freed, kernel, polled, left>>
  BY TurnGood DEF hin_event_process
<1>2. /\ active' = active \ {b} /\ b # Timer
      /\ sq' = hin_process_sqe_queue.sq /\ queue' = hin_process_sqe_queue.queue
  BY DEF hin_event_process
<1>3. /\ sq' \in Seq(OnRing) /\ queue' \in Seq(OnRing) /\ Len(sq') <= Depth
      /\ \A c : /\ Count(sq', c) + Count(queue', c) = Count(sq, c) + Count(queue, c)
                /\ Count(queue', c) <= Count(queue, c)
  BY <1>2, DrainGood
<1>4. TypeOK'
  BY <1>1, <1>2, <1>3
<1>5. \A c \in OnRing : Requests(c)' = IF c \in active' THEN 1 ELSE 0
  <2> TAKE c \in OnRing
  <2>1. /\ Count(sq, c) \in Nat /\ Count(queue, c) \in Nat /\ Count(cq, c) \in Nat
        /\ kernel[c] \in Nat /\ One(b, c) \in Nat
    BY CountType DEF One
  <2>2. Count(sq', c) \in Nat /\ Count(queue', c) \in Nat /\ Count(cq', c) \in Nat
    BY <1>1, <1>3, CountType
  <2>3. Requests(c)' = Count(sq', c) + Count(queue', c) + kernel[c] + Count(cq', c)
    BY <1>1 DEF Requests
  <2>4. Requests(c) = Requests(c)' + One(b, c)
    <3> HIDE DEF IInv, RequestsExact, TypeOK
    <3> QED BY <1>1, <1>3, <2>1, <2>2, <2>3 DEF Requests
  <2>5. Requests(c)' \in Nat
    <3> HIDE DEF IInv, RequestsExact, TypeOK
    <3> QED BY <2>1, <2>2, <2>3
  <2> QED BY <1>1, <1>2, <2>4, <2>5 DEF One
<1>6. polled' = active' \cap Poll /\ freed' \cap active' = {}
  BY <1>1, <1>2, UringAssumption
<1>7. Count(queue', Timer) = 0
  <2>1. Count(queue', Timer) \in Nat
    BY <1>3, CountType
  <2> QED BY <1>3, <2>1 DEF TickNeverQueued
<1> QED BY <1>1, <1>3, <1>4, <1>5, <1>6, <1>7 DEF TickNeverQueued

(* The tick asks for the next one when the ring holds at most one entry,   *)
(* so the request is on the ring and never on the list. *)
LEMMA TimerInv ==
  ASSUME IInv, hin_timer_callback
  PROVE  IInv'
<1> USE DEF IInv, RequestsExact, TypeOK
<1> DEFINE d == hin_process_sqe_queue
<1>1. /\ Timer \in OnRing /\ Timer \in active /\ cq' \in Seq(OnRing)
      /\ \A c : Count(cq, c) = Count(cq', c) + One(Timer, c)
      /\ sq = <<>> /\ pc' = "callback" /\ cur' = Timer
      /\ UNCHANGED <<freed, kernel, polled, left>>
  BY TurnGood DEF hin_timer_callback
<1>2. active' = active /\ hin_request_sqe(Timer, d.sq, d.queue)
  BY DEF hin_timer_callback
<1>3. /\ d.sq \in Seq(OnRing) /\ d.queue \in Seq(OnRing)
      /\ Len(d.sq) <= Depth /\ Len(d.sq) <= Len(sq) + 1
      /\ \A c : /\ Count(d.sq, c) + Count(d.queue, c) = Count(sq, c) + Count(queue, c)
                /\ Count(d.queue, c) <= Count(queue, c)
  BY DrainGood
<1> HIDE DEF d
<1>4. Len(d.sq) < Depth
  BY <1>1, <1>3, UringAssumption, LenProperties
<1>5. /\ sq' \in Seq(OnRing) /\ queue' \in Seq(OnRing) /\ Len(sq') <= Depth
      /\ \A c : Count(sq', c) + Count(queue', c)
                  = Count(d.sq, c) + Count(d.queue, c) + One(Timer, c)
      /\ queue' = d.queue
  <2> HIDE DEF IInv, RequestsExact, TypeOK
  <2> QED BY <1>1, <1>2, <1>3, <1>4, SqeGood
<1>6. TypeOK'
  BY <1>1, <1>2, <1>5
<1>7. \A c \in OnRing : Requests(c)' = Requests(c)
  <2> TAKE c \in OnRing
  <2>1. /\ Count(sq, c) \in Nat /\ Count(queue, c) \in Nat /\ Count(cq, c) \in Nat
        /\ kernel[c] \in Nat /\ One(Timer, c) \in Nat
    BY CountType DEF One
  <2>2. Count(sq', c) \in Nat /\ Count(queue', c) \in Nat /\ Count(cq', c) \in Nat
    BY <1>1, <1>5, CountType
  <2>3. Requests(c)' = Count(sq', c) + Count(queue', c) + kernel[c] + Count(cq', c)
    BY <1>1 DEF Requests
  <2>4. Count(sq', c) + Count(queue', c)
          = Count(sq, c) + Count(queue, c) + One(Timer, c)
    BY <1>3, <1>5
  <2> HIDE DEF IInv, RequestsExact, TypeOK
  <2> QED BY <1>1, <2>1, <2>2, <2>3, <2>4 DEF Requests
<1>8. Count(queue', Timer) = 0
  <2>1. Count(queue', Timer) \in Nat
    BY <1>5, CountType
  <2> QED BY <1>3, <1>5, <2>1 DEF TickNeverQueued
<1> QED BY <1>1, <1>2, <1>5, <1>6, <1>7, <1>8 DEF TickNeverQueued

(* The steps that leave the ring and its lists alone. *)
LEMMA OtherInv ==
  ASSUME IInv,
         \/ \E b \in Poll : hin_epoll_request(b) \/ hin_epoll_check(b)
         \/ \E b \in Files : httpd_handle_file_request(b)
         \/ \E err \in BOOLEAN : Return(err)
         \/ UNCHANGED vars
  PROVE  IInv'
<1> USE DEF IInv, RequestsExact, TypeOK
<1>1. UNCHANGED <<sq, queue, kernel, cq>> /\ (pc' = "blocked" => pc = "blocked")
  BY DEF hin_epoll_request, hin_epoll_check, httpd_handle_file_request, Return, vars
<1>2. \A c \in OnRing : Requests(c)' = Requests(c)
  BY <1>1 DEF Requests
<1>3. TickNeverQueued'
  BY <1>1 DEF TickNeverQueued
<1>4. CASE \E b \in Poll : hin_epoll_request(b) \/ hin_epoll_check(b)
  <2> PICK b \in Poll : hin_epoll_request(b) \/ hin_epoll_check(b)
    BY <1>4
  <2>1. b \notin OnRing /\ b \notin Ring /\ b \in Buffers \ {Timer}
    BY UringAssumption DEF OnRing, Buffers
  <2>2. CASE hin_epoll_request(b)
    <3>1. /\ b \notin freed /\ left[b] > 0 /\ left' = [left EXCEPT ![b] = @ - 1]
          /\ active' = active \cup {b} /\ polled' = polled \cup {b}
          /\ UNCHANGED <<freed, pc, cur>>
      BY <2>2 DEF hin_epoll_request, Asks, hin_request_active
    <3>2. TypeOK'
      BY <1>1, <2>1, <3>1, UringAssumption
    <3> QED BY <1>1, <1>2, <1>3, <2>1, <3>1, <3>2
  <2>3. CASE hin_epoll_check(b)
    BY <1>1, <1>2, <1>3, <2>1, <2>3 DEF hin_epoll_check
  <2> QED BY <2>2, <2>3
<1>5. CASE \E b \in Files : httpd_handle_file_request(b)
  <2> PICK b \in Files : httpd_handle_file_request(b)
    BY <1>5
  <2>1. b \notin OnRing /\ b \notin Poll /\ b \in Buffers \ {Timer}
    BY UringAssumption DEF OnRing, Buffers
  <2>2. /\ b \notin freed /\ left[b] > 0 /\ left' = [left EXCEPT ![b] = @ - 1]
        /\ active' = active \cup {b}
        /\ UNCHANGED <<freed, polled, pc, cur>>
    BY DEF httpd_handle_file_request, Asks, hin_request_active
  <2>3. TypeOK'
    BY <1>1, <2>1, <2>2, UringAssumption
  <2> QED BY <1>1, <1>2, <1>3, <2>1, <2>2, <2>3
<1>6. CASE \E err \in BOOLEAN : Return(err)
  BY <1>1, <1>2, <1>3, <1>6 DEF Return
<1>7. CASE UNCHANGED vars
  BY <1>1, <1>2, <1>3, <1>7 DEF vars
<1> QED BY <1>4, <1>5, <1>6, <1>7

(* Every step of the loop and of the kernel preserves the invariant. *)
LEMMA NextInv == IInv /\ [Next]_vars => IInv'
<1> SUFFICES ASSUME IInv, [Next]_vars PROVE IInv'
  OBVIOUS
<1> QED BY RequestInv, WaitInv, CompleteInv, ProcessInv, TimerInv, OtherInv DEF Next

(* The invariant holds in every state. *)
LEMMA AlwaysInv == Spec => []IInv
BY InitInv, NextInv, PTL DEF Spec

----------------------------------------------------------------------------
(* HIN_ACTIVE is exact in every state of the loop, for any depth of the    *)
(* ring: no request is lost or submitted twice when the ring overflows and *)
(* its list is drained, and no completion reaches a freed buffer. *)
THEOREM RequestsCorrect == Spec => []RequestsExact
<1>1. IInv => RequestsExact
  BY DEF IInv
<1> QED BY <1>1, AlwaysInv, PTL

(* hin_timer_callback never queues the tick behind other requests, so      *)
(* hin_event_wait always has a tick to wake it. *)
THEOREM TickCorrect == Spec => []TickNeverQueued
<1>1. IInv => TickNeverQueued
  BY DEF IInv
<1> QED BY <1>1, AlwaysInv, PTL
=============================================================================
