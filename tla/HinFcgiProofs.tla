--------------------------- MODULE HinFcgiProofs ---------------------------
(***************************************************************************)
(* Proofs about HinFcgi, for any set of requests and kinds of requests and *)
(* any number of reusable connections, up to the first fault (NoFault).    *)
(*                                                                         *)
(* The inductive invariant gives every worker one of five stages and every *)
(* request at most one worker, which it agrees with; says which workers    *)
(* stand on the idle list, in the slots and on the waiting list of each    *)
(* connection; and ties the flag busy to a connect or to one upload, so    *)
(* that whoever waits waits for something.  After a stop of an idle group  *)
(* it is replaced by Resting.                                              *)
(*                                                                         *)
(* The functions of the code come first, each as what it changes.  The     *)
(* loop of hin_fcgi_socket_continue, which hin_fcgi_worker_run enters      *)
(* again, is the hard one: a loop that is allowed n turns drains a list of *)
(* n workers up to the first upload (Drains, Works), by induction on n.    *)
(* Then there is one lemma per action.                                     *)
(***************************************************************************)
EXTENDS HinFcgi, SequenceTheorems, FiniteSetTheorems, WellFoundedInduction, TLAPS

(* The stages of a worker. *)
Quiet(k) ==
  ~k.header /\ k.out = "none" /\ ~k.writing /\ ~k.pipe /\ ~k.pending /\ k.back = <<>>

Idle(k) ==
  /\ k.io = {"END"} /\ k.http = NoRequest /\ k.upload = NoRequest /\ Quiet(k)
  /\ ~k.freed /\ k.socket # None

Gone(k) ==
  /\ k.io = {"END"} /\ k.http = NoRequest /\ k.upload = NoRequest /\ Quiet(k)
  /\ k.freed /\ k.socket = None

Queued(k) ==
  /\ k.io = {} /\ k.http # NoRequest /\ k.upload = NoRequest /\ Quiet(k)
  /\ ~k.freed /\ k.socket # None

Uploading(k) ==
  /\ k.io = {"POST"} /\ k.http = NoRequest /\ k.upload # NoRequest /\ Quiet(k)
  /\ ~k.freed /\ k.socket # None

(* The request is written, the answer comes, the rest of it is written. *)
Asking(k) ==
  /\ k.header /\ k.out = "none" /\ ~k.pipe /\ ~k.pending
  /\ k.back = IF k.writing THEN <<>> ELSE <<k.http>>

Answering(k) ==
  ~k.header /\ k.out = "open" /\ k.pipe /\ ~k.writing /\ k.back = <<k.http>>

Ending(k) ==
  ~k.header /\ k.out = "none" /\ k.pipe /\ k.pending /\ ~k.writing /\ k.back = <<>>

Serving(k) ==
  /\ "DATA" \in k.io /\ "END" \notin k.io /\ k.http # NoRequest
  /\ k.upload = IF "POST" \in k.io THEN k.http ELSE NoRequest
  /\ Asking(k) \/ Answering(k) \/ Ending(k)
  /\ k.pipe => k.pipeFor = k.http
  /\ ~k.freed /\ k.socket # None

Shaped(k) == Idle(k) \/ Gone(k) \/ Queued(k) \/ Uploading(k) \/ Serving(k)

(* The request a worker is there for. *)
Client(k) == IF k.http # NoRequest THEN k.http ELSE k.upload

(* The request agrees with its worker ... *)
Agrees(k, q) ==
  /\ ~q.raw /\ q.ended = 0
  /\ IF k.http # NoRequest
     THEN /\ q.flags = {"DATA", "FCGI"} \cup (k.io \cap {"POST"})
          /\ q.begun = IF k.pipe THEN 1 ELSE 0
     ELSE q.flags = {"POST"} /\ q.begun = 1

(* ... or has none: before, after, or while an error is written. *)
Alone(q) ==
  \/ q.flags = {} /\ ~q.raw /\ q.begun = q.ended /\ q.ended <= 1
  \/ q.flags = {"DATA", "FCGI", "ERROR"} /\ q.raw /\ q.begun = 1 /\ q.ended = 0

WorkersOK(st) ==
  /\ \A w \in DOMAIN st.work : Shaped(st.work[w])
  /\ \A w \in DOMAIN st.work :
       LET k == st.work[w]
       IN  k.socket # None =>
             /\ k.socket \in DOMAIN st.sock /\ st.sock[k.socket].state # "closed"
             /\ st.sock[k.socket].state = "connecting" => Queued(k)

RequestsOK(st) ==
  /\ \A w \in DOMAIN st.work, r \in Requests :
       Client(st.work[w]) = r => Agrees(st.work[w], st.req[r])
  /\ \A w, v \in DOMAIN st.work, r \in Requests :
       Client(st.work[w]) = r /\ Client(st.work[v]) = r => w = v
  /\ \A r \in Requests : Alone(st.req[r]) \/ \E w \in DOMAIN st.work : Client(st.work[w]) = r

IdleOK(st) ==
  /\ IsInjective(st.idle)
  /\ \A w \in Nat : w \in ToSet(st.idle) <=> w \in DOMAIN st.work /\ Idle(st.work[w])

SocketOK(st, s) ==
  LET S == st.sock[s]
  IN  /\ S.peer /\ (S.state = "open" => S.reading)
      /\ IsInjective(S.que) /\ IsInjective(S.slots)
      /\ \A w \in Nat : w \in ToSet(S.que) <=>
           w \in DOMAIN st.work /\ st.work[w].socket = s /\ Queued(st.work[w])
      /\ \A w \in Nat : w \in ToSet(S.slots) <=>
           w \in DOMAIN st.work /\ st.work[w].socket = s
      /\ S.state # "closed" => S.numWorker = Len(S.slots) /\ S.slots # <<>>

SlotsOK(st) ==
  \A i \in 1 .. MaxSocket : st.slots[i] # None =>
    /\ st.slots[i] \in DOMAIN st.sock /\ st.sock[st.slots[i]].state # "closed"
    /\ st.sock[st.slots[i]].id = i

Most(st) ==
  /\ st \in GroupType /\ ~st.stopped /\ st.bad = {}
  /\ WorkersOK(st) /\ RequestsOK(st) /\ IdleOK(st) /\ SlotsOK(st)
  /\ \A s \in DOMAIN st.sock : SocketOK(st, s)

(* w is uploading over s. *)
Uploads(st, w, s) == st.work[w].socket = s /\ "POST" \in st.work[w].io

(* The busy flag is held for a connect or for one upload, and whoever waits *)
(* waits for its end. *)
Held(st, s) ==
  st.sock[s].state # "closed" =>
    /\ st.sock[s].busy <=>
         st.sock[s].state = "connecting" \/ \E w \in DOMAIN st.work : Uploads(st, w, s)
    /\ \A w, v \in DOMAIN st.work : Uploads(st, w, s) /\ Uploads(st, v, s) => w = v
    /\ st.sock[s].que # <<>> => st.sock[s].busy

Inv(st) == Most(st) /\ \A s \in DOMAIN st.sock : Held(st, s)

IInv == Inv(g)

----------------------------------------------------------------------------
(* Lists: what stands where after a removal, and what is left. *)

(* The elements of a list are what stands at its positions. *)
LEMMA Elements ==
  ASSUME NEW S, NEW l \in Seq(S)
  PROVE  /\ Len(l) \in Nat /\ ToSet(l) \subseteq S
         /\ \A x : x \in ToSet(l) <=> \E i \in 1 .. Len(l) : l[i] = x
         /\ \A i \in 1 .. Len(l) : l[i] \in S /\ l[i] \in ToSet(l)
<1>1. Len(l) \in Nat /\ DOMAIN l = 1 .. Len(l) /\ \A i \in 1 .. Len(l) : l[i] \in S
  BY LenProperties, ElementOfSeq
<1> QED BY <1>1 DEF ToSet

(* RemoveAt, position by position. *)
LEMMA RemovedAt ==
  ASSUME NEW S, NEW l \in Seq(S), NEW i \in 1 .. Len(l)
  PROVE  LET r == RemoveAt(l, i)
         IN  /\ r \in Seq(S) /\ Len(r) = Len(l) - 1
             /\ \A x \in 1 .. (Len(l) - 1) : r[x] = IF x < i THEN l[x] ELSE l[x + 1]
<1> DEFINE n == Len(l)
           a == SubSeq(l, 1, i - 1)
           b == SubSeq(l, i + 1, n)
           r == a \o b
<1>1. n \in Nat /\ i \in Nat /\ i >= 1 /\ i <= n /\ \A x \in 1 .. n : l[x] \in S
  BY LenProperties, ElementOfSeq
<1> HIDE DEF n
<1>2. /\ a \in Seq(S) /\ Len(a) = i - 1 /\ \A x \in 1 .. (i - 1) : a[x] = l[x]
  <2>1. 1 \in Int /\ i - 1 \in Int /\ \A x \in 1 .. (i - 1) : l[x] \in S
    BY <1>1
  <2>2. /\ a \in Seq(S) /\ Len(a) = (IF 1 <= i - 1 THEN i - 1 - 1 + 1 ELSE 0)
        /\ \A x \in 1 .. (i - 1 - 1 + 1) : a[x] = l[1 + x - 1]
    BY <2>1, SubSeqProperties
  <2> QED BY <1>1, <2>2
<1>3. /\ b \in Seq(S) /\ Len(b) = n - i /\ \A x \in 1 .. (n - i) : b[x] = l[i + x]
  <2>1. i + 1 \in Int /\ n \in Int /\ \A x \in (i + 1) .. n : l[x] \in S
    BY <1>1
  <2>2. /\ b \in Seq(S) /\ Len(b) = (IF i + 1 <= n THEN n - (i + 1) + 1 ELSE 0)
        /\ \A x \in 1 .. (n - (i + 1) + 1) : b[x] = l[(i + 1) + x - 1]
    BY <2>1, SubSeqProperties
  <2>3. /\ n - (i + 1) + 1 = n - i /\ (IF i + 1 <= n THEN n - (i + 1) + 1 ELSE 0) = n - i
        /\ \A x \in 1 .. (n - i) : (i + 1) + x - 1 = i + x
    BY <1>1
  <2> QED BY <2>2, <2>3
<1> HIDE DEF a, b
<1>4. /\ r \in Seq(S) /\ Len(r) = Len(a) + Len(b)
      /\ \A x \in 1 .. Len(a) + Len(b) : r[x] = IF x <= Len(a) THEN a[x] ELSE b[x - Len(a)]
  BY <1>2, <1>3, ConcatProperties
<1> HIDE DEF r
<1>5. Len(r) = n - 1
  BY <1>1, <1>2, <1>3, <1>4
<1>6. ASSUME NEW x \in 1 .. (n - 1)
      PROVE  r[x] = IF x < i THEN l[x] ELSE l[x + 1]
  <2>1. r[x] = IF x <= i - 1 THEN a[x] ELSE b[x - (i - 1)]
    BY <1>1, <1>2, <1>3, <1>4
  <2>2. CASE x < i
    BY <1>1, <1>2, <2>1, <2>2
  <2>3. CASE ~ (x < i)
    <3>1. x - (i - 1) \in 1 .. (n - i) /\ i + (x - (i - 1)) = x + 1
      BY <1>1, <2>3
    <3> QED BY <1>1, <1>3, <2>1, <2>3, <3>1
  <2> QED BY <2>2, <2>3
<1> QED BY <1>4, <1>5, <1>6 DEF RemoveAt, r, a, b, n

(* Removing a position of a list without repetitions removes its element   *)
(* and leaves no repetitions. *)
LEMMA RemovedElement ==
  ASSUME NEW S, NEW l \in Seq(S), IsInjective(l), NEW i \in 1 .. Len(l)
  PROVE  /\ RemoveAt(l, i) \in Seq(S) /\ IsInjective(RemoveAt(l, i))
         /\ ToSet(RemoveAt(l, i)) = ToSet(l) \ {l[i]}
<1> DEFINE r == RemoveAt(l, i)
           n == Len(l)
           at(x) == IF x < i THEN x ELSE x + 1
           from(a) == IF a < i THEN a ELSE a - 1
<1>1. n \in Nat /\ i \in Nat /\ 1 <= i /\ i <= n
  BY Elements
<1>2. r \in Seq(S) /\ Len(r) = n - 1 /\ \A x \in 1 .. (n - 1) : r[x] = l[at(x)]
  BY RemovedAt
<1>3. \A a, b \in 1 .. n : l[a] = l[b] => a = b
  BY Elements, LenProperties DEF IsInjective
<1> HIDE DEF r, n
<1>4. \A x \in 1 .. (n - 1) : at(x) \in 1 .. n /\ at(x) # i
  BY <1>1
<1>5. \A x, y \in 1 .. (n - 1) : at(x) = at(y) => x = y
  BY <1>1
<1>6. \A a \in 1 .. n : a # i => from(a) \in 1 .. (n - 1) /\ at(from(a)) = a
  BY <1>1
<1> HIDE DEF at, from
<1>7. IsInjective(r)
  <2>1. DOMAIN r = 1 .. (n - 1)
    BY <1>2, LenProperties
  <2> QED BY <1>2, <1>3, <1>4, <1>5, <2>1 DEF IsInjective
<1>8. ToSet(r) = ToSet(l) \ {l[i]}
  <2>1. ASSUME NEW x \in ToSet(r) PROVE x \in ToSet(l) \ {l[i]}
    <3>1. PICK a \in 1 .. (n - 1) : r[a] = x
      BY <1>2, Elements
    <3>2. at(a) \in 1 .. n /\ l[at(a)] = x /\ x # l[i]
      BY <1>1, <1>2, <1>3, <1>4, <3>1
    <3> QED BY <3>2, Elements DEF n
  <2>2. ASSUME NEW x \in ToSet(l) \ {l[i]} PROVE x \in ToSet(r)
    <3>1. PICK a \in 1 .. n : l[a] = x
      BY Elements DEF n
    <3>2. from(a) \in 1 .. (n - 1) /\ r[from(a)] = x
      BY <1>2, <1>6, <3>1
    <3> QED BY <1>2, <3>2, Elements
  <2> QED BY <2>1, <2>2
<1> QED BY <1>2, <1>7, <1>8 DEF r

(* Appending a new element to a list without repetitions. *)
LEMMA AppendedElement ==
  ASSUME NEW S, NEW l \in Seq(S), IsInjective(l), NEW e \in S, e \notin ToSet(l)
  PROVE  /\ Append(l, e) \in Seq(S) /\ IsInjective(Append(l, e))
         /\ ToSet(Append(l, e)) = ToSet(l) \cup {e}
<1> DEFINE r == Append(l, e)
           n == Len(l)
<1>1. n \in Nat /\ \A x : x \in ToSet(l) <=> \E i \in 1 .. n : l[i] = x
  BY Elements
<1>2. /\ r \in Seq(S) /\ Len(r) = n + 1 /\ r[n + 1] = e
      /\ \A i \in 1 .. n : r[i] = l[i]
  BY AppendProperties
<1>3. \A a, b \in 1 .. n : l[a] = l[b] => a = b
  BY Elements, LenProperties DEF IsInjective
<1> HIDE DEF r, n
<1>4. DOMAIN r = 1 .. (n + 1)
  BY <1>2, LenProperties
<1>5. \A i \in 1 .. (n + 1) : i \in 1 .. n \/ i = n + 1
  BY <1>1
<1>6. \A i \in 1 .. n : l[i] # e
  BY <1>1
<1>7. IsInjective(r)
  BY <1>2, <1>3, <1>4, <1>5, <1>6 DEF IsInjective
<1>8. \A x : x \in ToSet(r) <=> \E i \in 1 .. (n + 1) : r[i] = x
  BY <1>2, Elements
<1>9. n + 1 \in 1 .. (n + 1) /\ 1 .. n \subseteq 1 .. (n + 1)
  BY <1>1
<1>10. ToSet(r) = ToSet(l) \cup {e}
  <2>1. ASSUME NEW x \in ToSet(r) PROVE x \in ToSet(l) \cup {e}
    BY <1>1, <1>2, <1>5, <1>8
  <2>2. ASSUME NEW x \in ToSet(l) \cup {e} PROVE x \in ToSet(r)
    BY <1>1, <1>2, <1>8, <1>9
  <2> QED BY <2>1, <2>2
<1> QED BY <1>2, <1>7, <1>10 DEF r

(* A set of numbers that is not empty has a least element. *)
LEMMA LeastNat ==
  ASSUME NEW T \in SUBSET Nat, T # {}
  PROVE  Min(T) \in T /\ \A m \in T : Min(T) <= m
<1>1. \E n \in T : \A m \in T : ~ (<<m, n>> \in OpToRel(<, Nat))
  BY NatLessThanWellFounded, WFMin
<1>2. PICK n \in T : \A m \in T : ~ (<<m, n>> \in OpToRel(<, Nat))
  BY <1>1
<1>3. \A m \in T : ~ (m < n)
  BY <1>2 DEF OpToRel
<1>4. \E x \in T : \A m \in T : x <= m
  BY <1>3
<1> QED BY <1>4 DEF Min

----------------------------------------------------------------------------
(* One worker, connection or request of a group. *)

SetW(st, w, k) == [st EXCEPT !.work[w] = k]
SetS(st, s, k) == [st EXCEPT !.sock[s] = k]
SetR(st, r, q) == [st EXCEPT !.req[r] = q]

(* What is neither a worker, nor a connection, nor a request. *)
Around(st, q) ==
  /\ q.slots = st.slots /\ q.cur = st.cur /\ q.idle = st.idle
  /\ q.stopped = st.stopped /\ q.bad = st.bad

(* In f, place x holds k, and the rest is as in e. *)
Changed(e, f, x, k) ==
  DOMAIN f = DOMAIN e /\ f[x] = k /\ \A y \in DOMAIN e : y # x => f[y] = e[y]

(* The parts of a group have their type. *)
LEMMA Typed ==
  ASSUME NEW st \in GroupType
  PROVE  /\ st.work \in Seq(WorkerType) /\ st.sock \in Seq(SocketType) /\ st.idle \in Seq(Nat)
         /\ Len(st.work) \in Nat /\ DOMAIN st.work = 1 .. Len(st.work)
         /\ Len(st.sock) \in Nat /\ DOMAIN st.sock = 1 .. Len(st.sock)
         /\ \A w \in DOMAIN st.work : w \in Nat /\ w # None /\ st.work[w] \in WorkerType
         /\ \A s \in DOMAIN st.sock : s \in Nat /\ s # None /\ st.sock[s] \in SocketType
         /\ DOMAIN st.req = Requests /\ \A r \in Requests : st.req[r] \in RequestType
<1>1. /\ st.work \in Seq(WorkerType) /\ st.sock \in Seq(SocketType) /\ st.idle \in Seq(Nat)
      /\ st.req \in [Requests -> RequestType]
  BY DEF GroupType
<1>2. /\ Len(st.work) \in Nat /\ DOMAIN st.work = 1 .. Len(st.work)
      /\ Len(st.sock) \in Nat /\ DOMAIN st.sock = 1 .. Len(st.sock)
  BY <1>1, LenProperties
<1>3. \A w \in DOMAIN st.work : w \in Nat /\ w # None /\ st.work[w] \in WorkerType
  BY <1>1, <1>2, ElementOfSeq DEF None
<1>4. \A s \in DOMAIN st.sock : s \in Nat /\ s # None /\ st.sock[s] \in SocketType
  BY <1>1, <1>2, ElementOfSeq DEF None
<1> QED BY <1>1, <1>2, <1>3, <1>4

(* One worker changes. *)
LEMMA SetWDoes ==
  ASSUME NEW st \in GroupType, NEW w \in DOMAIN st.work, NEW k \in WorkerType
  PROVE  /\ SetW(st, w, k) \in GroupType /\ Around(st, SetW(st, w, k))
         /\ SetW(st, w, k).sock = st.sock /\ SetW(st, w, k).req = st.req
         /\ Changed(st.work, SetW(st, w, k).work, w, k)
<1> DEFINE e == [st.work EXCEPT ![w] = k]
<1>1. e \in Seq(WorkerType)
  BY Typed, ExceptSeq
<1>2. Changed(st.work, e, w, k)
  BY DEF Changed
<1>3. SetW(st, w, k) = [st EXCEPT !.work = e]
  BY DEF SetW
<1> HIDE DEF e
<1> QED BY <1>1, <1>2, <1>3 DEF GroupType, Around

(* Of two changes of a worker the second counts. *)
LEMMA SetWAgain ==
  ASSUME NEW st \in GroupType, NEW w \in DOMAIN st.work, NEW i, NEW j
  PROVE  SetW(SetW(st, w, i), w, j) = SetW(st, w, j)
<1> DEFINE e == [st.work EXCEPT ![w] = i]
           f == [st.work EXCEPT ![w] = j]
<1>1. [e EXCEPT ![w] = j] = f
  <2>1. st.work = [x \in 1 .. Len(st.work) |-> st.work[x]]
    BY Typed
  <2> QED BY <2>1
<1>2. SetW(st, w, i) = [st EXCEPT !.work = e]
  BY DEF SetW
<1>3. SetW(SetW(st, w, i), w, j) = [SetW(st, w, i) EXCEPT !.work = [SetW(st, w, i).work EXCEPT ![w] = j]]
  BY DEF SetW
<1>4. SetW(st, w, j) = [st EXCEPT !.work = f]
  BY DEF SetW
<1> HIDE DEF e, f
<1>5. SetW(st, w, i).work = e
  BY <1>2 DEF GroupType
<1>6. [[st EXCEPT !.work = e] EXCEPT !.work = f] = [st EXCEPT !.work = f]
  BY DEF GroupType
<1> QED BY <1>1, <1>2, <1>3, <1>4, <1>5, <1>6

(* One connection changes. *)
LEMMA SetSDoes ==
  ASSUME NEW st \in GroupType, NEW s \in DOMAIN st.sock, NEW k \in SocketType
  PROVE  /\ SetS(st, s, k) \in GroupType /\ Around(st, SetS(st, s, k))
         /\ SetS(st, s, k).work = st.work /\ SetS(st, s, k).req = st.req
         /\ Changed(st.sock, SetS(st, s, k).sock, s, k)
<1> DEFINE e == [st.sock EXCEPT ![s] = k]
<1>1. e \in Seq(SocketType)
  BY Typed, ExceptSeq
<1>2. Changed(st.sock, e, s, k)
  BY DEF Changed
<1>3. SetS(st, s, k) = [st EXCEPT !.sock = e]
  BY DEF SetS
<1> HIDE DEF e
<1> QED BY <1>1, <1>2, <1>3 DEF GroupType, Around

(* Of two changes of a connection the second counts. *)
LEMMA SetSAgain ==
  ASSUME NEW st \in GroupType, NEW s \in DOMAIN st.sock, NEW i, NEW j
  PROVE  SetS(SetS(st, s, i), s, j) = SetS(st, s, j)
<1> DEFINE e == [st.sock EXCEPT ![s] = i]
           f == [st.sock EXCEPT ![s] = j]
<1>1. [e EXCEPT ![s] = j] = f
  <2>1. st.sock = [x \in 1 .. Len(st.sock) |-> st.sock[x]]
    BY Typed
  <2> QED BY <2>1
<1>2. SetS(st, s, i) = [st EXCEPT !.sock = e]
  BY DEF SetS
<1>3. SetS(SetS(st, s, i), s, j) = [SetS(st, s, i) EXCEPT !.sock = [SetS(st, s, i).sock EXCEPT ![s] = j]]
  BY DEF SetS
<1>4. SetS(st, s, j) = [st EXCEPT !.sock = f]
  BY DEF SetS
<1> HIDE DEF e, f
<1>5. SetS(st, s, i).sock = e
  BY <1>2 DEF GroupType
<1>6. [[st EXCEPT !.sock = e] EXCEPT !.sock = f] = [st EXCEPT !.sock = f]
  BY DEF GroupType
<1> QED BY <1>1, <1>2, <1>3, <1>4, <1>5, <1>6

(* One request changes. *)
LEMMA SetRDoes ==
  ASSUME NEW st \in GroupType, NEW r \in Requests, NEW q \in RequestType
  PROVE  /\ SetR(st, r, q) \in GroupType /\ Around(st, SetR(st, r, q))
         /\ SetR(st, r, q).work = st.work /\ SetR(st, r, q).sock = st.sock
         /\ Changed(st.req, SetR(st, r, q).req, r, q)
<1> DEFINE e == [st.req EXCEPT ![r] = q]
<1>1. e \in [Requests -> RequestType] /\ DOMAIN st.req = Requests
  BY DEF GroupType
<1>2. Changed(st.req, e, r, q)
  BY <1>1 DEF Changed
<1>3. SetR(st, r, q) = [st EXCEPT !.req = e]
  BY DEF SetR
<1> HIDE DEF e
<1> QED BY <1>1, <1>2, <1>3 DEF GroupType, Around

(* Of two changes of a request the second counts. *)
LEMMA SetRAgain ==
  ASSUME NEW st \in GroupType, NEW w \in DOMAIN st.work, NEW k \in WorkerType,
         NEW r \in Requests, NEW i, NEW j
  PROVE  SetR(SetW(SetR(st, r, i), w, k), r, j) = SetR(SetW(st, w, k), r, j)
<1> DEFINE e == [st.req EXCEPT ![r] = i]
           f == [st.req EXCEPT ![r] = j]
           x == [st.work EXCEPT ![w] = k]
<1>1. [e EXCEPT ![r] = j] = f
  <2>1. st.req = [z \in Requests |-> st.req[z]]
    BY DEF GroupType
  <2> QED BY <2>1
<1>2. SetR(st, r, i) = [st EXCEPT !.req = e]
  BY DEF SetR
<1>3. SetW(SetR(st, r, i), w, k) = [[st EXCEPT !.req = e] EXCEPT !.work = x]
  BY <1>2 DEF SetW, GroupType
<1>4. SetR(SetW(SetR(st, r, i), w, k), r, j) = [[[st EXCEPT !.req = e] EXCEPT !.work = x] EXCEPT !.req = f]
  <2> DEFINE y == [[st EXCEPT !.req = e] EXCEPT !.work = x]
  <2> HIDE DEF e, f, x
  <2>1. y.req = e
    BY DEF GroupType
  <2> HIDE DEF y
  <2>2. SetR(y, r, j) = [y EXCEPT !.req = [e EXCEPT ![r] = j]]
    BY <2>1 DEF SetR
  <2> QED BY <1>1, <1>3, <2>2 DEF y
<1>5. SetR(SetW(st, w, k), r, j) = [[st EXCEPT !.work = x] EXCEPT !.req = f]
  <2>1. SetW(st, w, k) = [st EXCEPT !.work = x]
    BY DEF SetW
  <2> HIDE DEF x
  <2>2. [st EXCEPT !.work = x].req = st.req
    BY DEF GroupType
  <2> QED BY <2>1, <2>2 DEF SetR
<1> HIDE DEF e, f, x
<1>6. [[[st EXCEPT !.req = e] EXCEPT !.work = x] EXCEPT !.req = f] = [[st EXCEPT !.work = x] EXCEPT !.req = f]
  BY DEF GroupType
<1> QED BY <1>4, <1>5, <1>6

----------------------------------------------------------------------------
(* The loop of hin_fcgi_socket_continue. *)

First(l) == IF l = <<>> THEN None ELSE Head(l)

(* v waits on connection s, with a request nobody has begun to write. *)
Waiting(st, s, v) ==
  /\ v \in DOMAIN st.work /\ st.work[v].socket = s /\ Queued(st.work[v])
  /\ st.req[st.work[v].http].flags = {"DATA", "FCGI"}

(* The loop may run on connection s. *)
Ready(st, s) ==
  /\ st \in GroupType /\ s \in DOMAIN st.sock /\ ~st.stopped
  /\ st.sock[s].busy = FALSE /\ IsInjective(st.sock[s].que)
  /\ \A v \in ToSet(st.sock[s].que) : Waiting(st, s, v)
  /\ \A u, v \in ToSet(st.sock[s].que) : st.work[u].http = st.work[v].http => u = v

(* v has an upload, and what running it leaves. *)
Up(st, v) == st.req[st.work[v].http].kind = "upload"

Ran(k, up) ==
  [k EXCEPT !.io = {"DATA"} \cup (IF up THEN {"POST"} ELSE {}),
            !.upload = IF up THEN k.http ELSE NoRequest,
            !.writing = TRUE, !.header = TRUE]

SameSocket(k, n) ==
  /\ n.state = k.state /\ n.slots = k.slots /\ n.numWorker = k.numWorker
  /\ n.reading = k.reading /\ n.peer = k.peer /\ n.id = k.id

(* Of the workers Q that wait on s those of R were run: all of them, or up *)
(* to one that has an upload and keeps the connection busy. *)
Drains(st, q, s, Q, R) ==
  /\ q \in GroupType /\ R \subseteq Q /\ Around(st, q)
  /\ DOMAIN q.work = DOMAIN st.work
  /\ \A v \in DOMAIN st.work :
       q.work[v] = IF v \in R THEN Ran(st.work[v], Up(st, v)) ELSE st.work[v]
  /\ DOMAIN q.sock = DOMAIN st.sock /\ SameSocket(st.sock[s], q.sock[s])
  /\ \A t \in DOMAIN st.sock : t # s => q.sock[t] = st.sock[t]
  /\ IsInjective(q.sock[s].que) /\ ToSet(q.sock[s].que) = Q \ R
  /\ q.sock[s].busy <=> \E v \in R : Up(st, v)
  /\ \A u, v \in R : Up(st, u) /\ Up(st, v) => u = v
  /\ q.sock[s].busy = FALSE => R = Q
  /\ \A r \in Requests :
       q.req[r] = IF \E v \in R : Up(st, v) /\ st.work[v].http = r
                  THEN [st.req[r] EXCEPT !.flags = {"DATA", "FCGI", "POST"}] ELSE st.req[r]

(* The function h does what the loop should, for queues of length n. *)
Works(h, n) ==
  \A st, s : Ready(st, s) /\ Len(st.sock[s].que) = n =>
    LET l == st.sock[s].que
    IN  \E R : Drains(st, h[<<st, s, First(l)>>], s, ToSet(l), R)

(* Worker w is about to be run, after those that wait. *)
Comes(st, s, w) ==
  /\ Ready(st, s) /\ Waiting(st, s, w) /\ w \notin ToSet(st.sock[s].que)
  /\ \A v \in ToSet(st.sock[s].que) : st.work[v].http # st.work[w].http

(* From st to p only the connection s, its flag busy, the worker w and its *)
(* request changed. *)
Touched(st, p, s, w) ==
  /\ p \in GroupType /\ Around(st, p)
  /\ DOMAIN p.work = DOMAIN st.work /\ DOMAIN p.sock = DOMAIN st.sock
  /\ \A v \in DOMAIN st.work : v # w => p.work[v] = st.work[v]
  /\ \A t \in DOMAIN st.sock : t # s => p.sock[t] = st.sock[t]
  /\ SameSocket(st.sock[s], p.sock[s]) /\ p.sock[s].que = st.sock[s].que
  /\ \A r \in Requests : r # st.work[w].http => p.req[r] = st.req[r]

(* Worker w has set its flags when it enters the loop again. *)
Entered(st, p, s, w) == Touched(st, p, s, w) /\ p.sock[s].busy = FALSE

(* What is known of a worker about to be run. *)
LEMMA ComesFacts ==
  ASSUME NEW st, NEW s, NEW w, Comes(st, s, w)
  PROVE  /\ st \in GroupType /\ s \in DOMAIN st.sock /\ s # None /\ st.sock[s] \in SocketType
         /\ w \in DOMAIN st.work /\ st.work[w] \in WorkerType /\ st.work[w].socket = s
         /\ Queued(st.work[w]) /\ st.work[w].http \in Requests
         /\ st.req[st.work[w].http] \in RequestType
         /\ st.req[st.work[w].http].flags = {"DATA", "FCGI"}
         /\ \A v \in ToSet(st.sock[s].que) :
              /\ v \in DOMAIN st.work /\ v # w /\ st.work[v] \in WorkerType
              /\ Queued(st.work[v]) /\ st.work[v].http \in Requests
<1>1. st \in GroupType /\ s \in DOMAIN st.sock /\ w \in DOMAIN st.work /\ Queued(st.work[w])
  BY DEF Comes, Ready, Waiting
<1>2. /\ st.sock[s] \in SocketType /\ s # None
      /\ \A v \in DOMAIN st.work : st.work[v] \in WorkerType
      /\ \A r \in Requests : st.req[r] \in RequestType
  BY <1>1, Typed
<1>3. \A v \in DOMAIN st.work : Queued(st.work[v]) => st.work[v].http \in Requests
  BY <1>2 DEF Queued, WorkerType
<1>4. \A v \in ToSet(st.sock[s].que) : v \in DOMAIN st.work /\ v # w /\ Queued(st.work[v])
  BY DEF Comes, Ready, Waiting
<1> QED BY <1>1, <1>2, <1>3, <1>4 DEF Comes, Waiting

(* The loop inside: it runs those that wait. *)
LEMMA NestedRuns ==
  ASSUME NEW h, NEW st, NEW s, NEW w, Comes(st, s, w), Works(h, Len(st.sock[s].que)),
         NEW p, Entered(st, p, s, w)
  PROVE  LET l == st.sock[s].que
         IN  \E R : Drains(p, h[<<p, s, First(l)>>], s, ToSet(l), R)
<1> DEFINE l == st.sock[s].que
<1>1. \A v \in ToSet(l) : /\ v \in DOMAIN st.work /\ v # w /\ p.work[v] = st.work[v]
                          /\ st.work[v].http \in Requests
                          /\ st.work[v].http # st.work[w].http
  BY ComesFacts DEF Comes, Entered, Touched
<1>2. \A v \in ToSet(l) : Waiting(p, s, v)
  BY <1>1 DEF Comes, Ready, Waiting, Entered, Touched
<1>3. \A u, v \in ToSet(l) : p.work[u].http = p.work[v].http => u = v
  BY <1>1 DEF Comes, Ready
<1>4. Ready(p, s) /\ p.sock[s].que = l
  BY <1>2, <1>3 DEF Comes, Ready, Entered, Touched, Around
<1> QED BY <1>4 DEF Works

(* And back: the worker has run too. *)
LEMMA NestedEnds ==
  ASSUME NEW st, NEW s, NEW w, Comes(st, s, w), ~Up(st, w),
         NEW p, Entered(st, p, s, w),
         NEW x, NEW R, Drains(p, x, s, ToSet(st.sock[s].que), R),
         NEW y \in GroupType, Around(x, y), y.sock = x.sock,
         Changed(x.work, y.work, w, Ran(st.work[w], FALSE)),
         Changed(x.req, y.req, st.work[w].http, st.req[st.work[w].http])
  PROVE  Drains(st, y, s, ToSet(st.sock[s].que) \cup {w}, R \cup {w})
<1> DEFINE Q == ToSet(st.sock[s].que)
           r == st.work[w].http
           Z == R \cup {w}
<1>1. /\ s \in DOMAIN st.sock /\ w \in DOMAIN st.work /\ r \in Requests
      /\ \A v \in Q : /\ v \in DOMAIN st.work /\ v # w /\ p.work[v] = st.work[v]
                      /\ st.work[v].http \in Requests /\ st.work[v].http # r
  BY ComesFacts DEF Comes, Entered, Touched
<1>2. R \subseteq Q
  BY DEF Drains
<1>3. \A v \in R : Up(p, v) <=> Up(st, v)
  BY <1>1, <1>2 DEF Up, Entered, Touched
<1>4. R \cup {w} \subseteq Q \cup {w} /\ Around(st, y)
  BY <1>2 DEF Drains, Entered, Touched, Around
<1>5. /\ DOMAIN y.work = DOMAIN st.work
      /\ \A v \in DOMAIN st.work :
           y.work[v] = IF v \in Z THEN Ran(st.work[v], Up(st, v)) ELSE st.work[v]
  <2>1. DOMAIN x.work = DOMAIN st.work /\ DOMAIN y.work = DOMAIN st.work
    BY DEF Drains, Entered, Touched, Changed
  <2>2. ASSUME NEW v \in DOMAIN st.work, v # w
        PROVE  y.work[v] = IF v \in R THEN Ran(st.work[v], Up(st, v)) ELSE st.work[v]
    <3>1. y.work[v] = x.work[v] /\ p.work[v] = st.work[v]
      BY <2>1, <2>2 DEF Changed, Entered, Touched
    <3>2. x.work[v] = IF v \in R THEN Ran(p.work[v], Up(p, v)) ELSE p.work[v]
      BY <2>2 DEF Drains, Entered, Touched
    <3>3. v \in R => (Up(p, v) = Up(st, v))
      BY <1>3 DEF Up
    <3> QED BY <3>1, <3>2, <3>3
  <2>3. y.work[w] = Ran(st.work[w], Up(st, w))
    <3>1. Up(st, w) = FALSE
      BY DEF Up
    <3> QED BY <3>1 DEF Changed
  <2> QED BY <2>1, <2>2, <2>3
<1>6. /\ DOMAIN y.sock = DOMAIN st.sock /\ SameSocket(st.sock[s], y.sock[s])
      /\ \A t \in DOMAIN st.sock : t # s => y.sock[t] = st.sock[t]
  <2>1. /\ DOMAIN p.sock = DOMAIN st.sock /\ SameSocket(st.sock[s], p.sock[s])
        /\ \A t \in DOMAIN st.sock : t # s => p.sock[t] = st.sock[t]
    BY DEF Entered, Touched
  <2>2. /\ DOMAIN x.sock = DOMAIN p.sock /\ SameSocket(p.sock[s], x.sock[s])
        /\ \A t \in DOMAIN p.sock : t # s => x.sock[t] = p.sock[t]
    BY DEF Drains
  <2>3. SameSocket(st.sock[s], x.sock[s])
    BY <2>1, <2>2 DEF SameSocket
  <2> QED BY <2>1, <2>2, <2>3
<1>7. IsInjective(y.sock[s].que) /\ ToSet(y.sock[s].que) = (Q \cup {w}) \ Z
  <2>1. ToSet(y.sock[s].que) = Q \ R /\ w \notin Q
    BY DEF Drains, Comes
  <2>2. (Q \cup {w}) \ Z = Q \ R
    BY <2>1
  <2> QED BY <2>1, <2>2 DEF Drains
<1>8. /\ y.sock[s].busy <=> \E v \in Z : Up(st, v)
      /\ \A u, v \in Z : Up(st, u) /\ Up(st, v) => u = v
      /\ y.sock[s].busy = FALSE => Z = Q \cup {w}
  BY <1>3 DEF Drains
<1>9. \A a \in Requests :
        y.req[a] = IF \E v \in Z : Up(st, v) /\ st.work[v].http = a
                   THEN [st.req[a] EXCEPT !.flags = {"DATA", "FCGI", "POST"}] ELSE st.req[a]
  <2> SUFFICES ASSUME NEW a \in Requests
               PROVE  y.req[a] = IF \E v \in Z : Up(st, v) /\ st.work[v].http = a
                                 THEN [st.req[a] EXCEPT !.flags = {"DATA", "FCGI", "POST"}]
                                 ELSE st.req[a]
    OBVIOUS
  <2>1. DOMAIN x.req = Requests
    BY Typed DEF Drains
  <2>2. CASE a = r
    <3>1. ~ \E v \in Z : Up(st, v) /\ st.work[v].http = a
      BY <1>1, <1>2, <2>2
    <3> QED BY <2>2, <3>1 DEF Changed
  <2>3. CASE a # r
    <3>1. y.req[a] = x.req[a] /\ p.req[a] = st.req[a]
      BY <2>1, <2>3 DEF Changed, Entered, Touched
    <3>2. x.req[a] = IF \E v \in R : Up(p, v) /\ p.work[v].http = a
                     THEN [p.req[a] EXCEPT !.flags = {"DATA", "FCGI", "POST"}] ELSE p.req[a]
      BY DEF Drains
    <3>3. (\E v \in R : Up(p, v) /\ p.work[v].http = a) <=>
          \E v \in Z : Up(st, v) /\ st.work[v].http = a
      BY <1>1, <1>2, <1>3
    <3> QED BY <3>1, <3>2, <3>3
  <2> QED BY <2>2, <2>3
<1> HIDE DEF Q, Z
<1> QED BY <1>4, <1>5, <1>6, <1>7, <1>8, <1>9 DEF Drains, Q, Z

(* Steps that touch only one worker, its connection and its request. *)
LEMMA TouchedW ==
  ASSUME NEW st \in GroupType, NEW s \in DOMAIN st.sock, NEW w \in DOMAIN st.work,
         NEW p, Touched(st, p, s, w), NEW k \in WorkerType
  PROVE  /\ Touched(st, SetW(p, w, k), s, w) /\ SetW(p, w, k).work[w] = k
         /\ SetW(p, w, k).sock = p.sock /\ SetW(p, w, k).req = p.req
<1>1. p \in GroupType /\ w \in DOMAIN p.work
  BY DEF Touched
<1>2. /\ SetW(p, w, k) \in GroupType /\ Around(p, SetW(p, w, k))
      /\ SetW(p, w, k).sock = p.sock /\ SetW(p, w, k).req = p.req
      /\ Changed(p.work, SetW(p, w, k).work, w, k)
  BY <1>1, SetWDoes
<1> QED BY <1>2 DEF Touched, Around, Changed

(* ... the connection ... *)
LEMMA TouchedS ==
  ASSUME NEW st \in GroupType, NEW s \in DOMAIN st.sock, NEW w \in DOMAIN st.work,
         NEW p, Touched(st, p, s, w), NEW k \in SocketType,
         SameSocket(p.sock[s], k), k.que = p.sock[s].que
  PROVE  /\ Touched(st, SetS(p, s, k), s, w) /\ SetS(p, s, k).sock[s] = k
         /\ SetS(p, s, k).work = p.work /\ SetS(p, s, k).req = p.req
<1>1. p \in GroupType /\ s \in DOMAIN p.sock
  BY DEF Touched
<1>2. /\ SetS(p, s, k) \in GroupType /\ Around(p, SetS(p, s, k))
      /\ SetS(p, s, k).work = p.work /\ SetS(p, s, k).req = p.req
      /\ Changed(p.sock, SetS(p, s, k).sock, s, k)
  BY <1>1, SetSDoes
<1> QED BY <1>2 DEF Touched, Around, Changed, SameSocket

(* ... or the request. *)
LEMMA TouchedR ==
  ASSUME NEW st \in GroupType, NEW s \in DOMAIN st.sock, NEW w \in DOMAIN st.work,
         NEW p, Touched(st, p, s, w), st.work[w].http \in Requests, NEW q \in RequestType
  PROVE  LET x == SetR(p, st.work[w].http, q)
         IN  /\ Touched(st, x, s, w) /\ x.req[st.work[w].http] = q
             /\ x.work = p.work /\ x.sock = p.sock
<1> DEFINE x == SetR(p, st.work[w].http, q)
<1>1. p \in GroupType
  BY DEF Touched
<1>2. /\ x \in GroupType /\ Around(p, x) /\ x.sock = p.sock /\ x.work = p.work
      /\ Changed(p.req, x.req, st.work[w].http, q) /\ DOMAIN p.req = Requests
  BY <1>1, SetRDoes, Typed
<1> HIDE DEF x
<1>3. Touched(st, x, s, w) /\ x.req[st.work[w].http] = q
  BY <1>2 DEF Touched, Around, Changed
<1> QED BY <1>2, <1>3 DEF x

(* The busy flag is taken, and given back. *)
Take(st, s, w) == [st EXCEPT !.sock[s].busy = TRUE, !.work[w].io = @ \cup {"DATA"}]
Release(st, s) == [st EXCEPT !.sock[s].busy = FALSE]

(* The record of a worker whose request is being written, with flags io. *)
With(k, io) == [k EXCEPT !.io = io]
Written(k) == [k EXCEPT !.writing = TRUE, !.header = TRUE]

(* In p worker w holds the connection s, and has only its DATA flag. *)
Taken(st, p, s, w) ==
  /\ Touched(st, p, s, w) /\ p.sock[s].busy = TRUE /\ p.req = st.req
  /\ p.work[w] = With(st.work[w], {"DATA"})

(* A worker about to be run sets DATA. *)
LEMMA RunBegins ==
  ASSUME NEW st, NEW s, NEW w, Comes(st, s, w)
  PROVE  Taken(st, Take(st, s, w), s, w)
<1> DEFINE k == [st.work[w] EXCEPT !.io = {"DATA"}]
           n == [st.sock[s] EXCEPT !.busy = TRUE]
           a == SetS(st, s, n)
           p == Take(st, s, w)
<1>1. /\ st \in GroupType /\ s \in DOMAIN st.sock /\ w \in DOMAIN st.work
      /\ st.work[w] \in WorkerType /\ st.work[w].io = {}
  BY ComesFacts DEF Queued
<1>2. Touched(st, st, s, w)
  BY <1>1 DEF Touched, Around, SameSocket
<1>3. /\ Touched(st, a, s, w) /\ a.sock[s].busy = TRUE /\ a.work = st.work /\ a.req = st.req
  <2>1. st.sock[s] \in SocketType
    BY <1>1, Typed
  <2>2. /\ n \in SocketType /\ SameSocket(st.sock[s], n) /\ n.que = st.sock[s].que
        /\ n.busy = TRUE
    BY <2>1 DEF SocketType, SameSocket
  <2> HIDE DEF n
  <2> QED BY <1>1, <1>2, <2>2, TouchedS
<1>4. k \in WorkerType
  BY <1>1 DEF WorkerType
<1>5. p = SetW(a, w, k)
  <2>1. st.work[w].io \cup {"DATA"} = {"DATA"}
    BY <1>1
  <2> QED BY <1>3, <2>1 DEF SetW, SetS, Take
<1> HIDE DEF a, k, p
<1>6. /\ Touched(st, SetW(a, w, k), s, w) /\ SetW(a, w, k).work[w] = k
      /\ SetW(a, w, k).sock = a.sock /\ SetW(a, w, k).req = a.req
  BY <1>1, <1>3, <1>4, TouchedW
<1>7. /\ Touched(st, p, s, w) /\ p.sock[s].busy = TRUE /\ p.req = st.req
      /\ p.work[w] = k
  BY <1>3, <1>5, <1>6
<1> QED BY <1>7 DEF k, p, With, Taken

(* hin_fcgi_socket_continue clears the busy flag before it loops. *)
LEMMA Released ==
  ASSUME NEW st \in GroupType, NEW s \in DOMAIN st.sock, NEW w \in DOMAIN st.work,
         NEW p, Touched(st, p, s, w)
  PROVE  /\ Entered(st, Release(p, s), s, w)
         /\ Release(p, s).work = p.work /\ Release(p, s).req = p.req
<1> DEFINE k == [p.sock[s] EXCEPT !.busy = FALSE]
           x == Release(p, s)
<1>1. p \in GroupType /\ s \in DOMAIN p.sock
  BY DEF Touched
<1>2. p.sock[s] \in SocketType
  BY <1>1, Typed
<1>3. /\ k \in SocketType /\ SameSocket(p.sock[s], k) /\ k.que = p.sock[s].que
      /\ k.busy = FALSE
  BY <1>2 DEF SocketType, SameSocket
<1>4. x = SetS(p, s, k)
  BY DEF SetS, Release
<1> HIDE DEF k, x
<1>5. /\ Touched(st, SetS(p, s, k), s, w) /\ SetS(p, s, k).sock[s] = k
      /\ SetS(p, s, k).work = p.work /\ SetS(p, s, k).req = p.req
  BY <1>3, TouchedS
<1>6. Entered(st, x, s, w) /\ x.work = p.work /\ x.req = p.req
  BY <1>3, <1>4, <1>5 DEF Entered
<1> QED BY <1>6 DEF x

(* x has the worker w of p, and its request. *)
Kept(st, p, x, w) ==
  /\ x \in GroupType /\ DOMAIN x.work = DOMAIN st.work
  /\ x.work[w] = p.work[w] /\ x.req[st.work[w].http] = p.req[st.work[w].http]

(* The loop inside leaves the worker that entered it, and its request.     *)
LEMMA LoopKeeps ==
  ASSUME NEW st, NEW s, NEW w, Comes(st, s, w), NEW p, Entered(st, p, s, w),
         NEW x, NEW R, Drains(p, x, s, ToSet(st.sock[s].que), R)
  PROVE  Kept(st, p, x, w)
<1> DEFINE r == st.work[w].http
<1>1. /\ w \in DOMAIN st.work /\ r \in Requests
      /\ \A v \in ToSet(st.sock[s].que) : v # w /\ v \in DOMAIN st.work /\ st.work[v].http # r
  BY ComesFacts DEF Comes
<1>2. R \subseteq ToSet(st.sock[s].que) /\ DOMAIN p.work = DOMAIN st.work
  BY DEF Drains, Entered, Touched
<1>3. x.work[w] = p.work[w]
  BY <1>1, <1>2 DEF Drains
<1>4. ~ \E v \in R : Up(p, v) /\ p.work[v].http = r
  BY <1>1, <1>2 DEF Entered, Touched
<1>5. x.req[r] = p.req[r]
  BY <1>1, <1>4 DEF Drains
<1> QED BY <1>2, <1>3, <1>5 DEF Drains, Kept

(* The record of a worker that has run without an upload. *)
LEMMA RanPlain ==
  ASSUME NEW k \in WorkerType, Queued(k)
  PROVE  /\ Written(With(k, {"DATA"})) = Ran(k, FALSE)
         /\ Ran(k, FALSE) \in WorkerType
<1>1. Ran(k, FALSE) = [k EXCEPT !.io = {"DATA"}, !.upload = NoRequest, !.writing = TRUE, !.header = TRUE]
  <2>1. {"DATA"} \cup {} = {"DATA"}
    OBVIOUS
  <2> QED BY <2>1 DEF Ran
<1>2. k.upload = NoRequest
  BY DEF Queued
<1>3. Ran(k, FALSE) \in WorkerType
  <2>1. {"DATA"} \in SUBSET {"DATA", "POST", "END"} /\ NoRequest \in Requests \cup {NoRequest}
    OBVIOUS
  <2>2. [k EXCEPT !.io = {"DATA"}, !.upload = NoRequest] \in WorkerType
    BY <2>1 DEF WorkerType
  <2>3. \A j \in WorkerType : [j EXCEPT !.writing = TRUE, !.header = TRUE] \in WorkerType
    BY DEF WorkerType
  <2> QED BY <1>1, <2>2, <2>3, Zenon
<1>4. Written(With(k, {"DATA"})) = Ran(k, FALSE)
  BY <1>1, <1>2 DEF WorkerType, Written, With
<1> QED BY <1>3, <1>4

(* A worker runs, and those that wait run inside. *)
LEMMA RunGet ==
  ASSUME NEW h, NEW st, NEW s, NEW w, Comes(st, s, w), Works(h, Len(st.sock[s].que)),
         st.req[st.work[w].http].kind = "get"
  PROVE  \E R : Drains(st, hin_fcgi_worker_run(h, st, w), s, ToSet(st.sock[s].que) \cup {w}, R)
<1> DEFINE r == st.work[w].http
           l == st.sock[s].que
           p == Take(st, s, w)
           e == Release(p, s)
           x == h[<<e, s, First(l)>>]
           y == [x EXCEPT !.work[w].writing = TRUE, !.work[w].header = TRUE]
<1>1. /\ st \in GroupType /\ s \in DOMAIN st.sock /\ s # None /\ w \in DOMAIN st.work
      /\ st.work[w] \in WorkerType /\ Queued(st.work[w]) /\ st.work[w].socket = s
      /\ r \in Requests /\ r # NoRequest
  BY ComesFacts, FcgiAssumption
<1>2. /\ Touched(st, p, s, w) /\ p.sock[s].busy = TRUE /\ p.req = st.req
      /\ p.work[w] = With(st.work[w], {"DATA"})
  <2>1. Taken(st, p, s, w)
    BY RunBegins
  <2> HIDE DEF p
  <2> QED BY <2>1 DEF Taken
<1>3. hin_fcgi_worker_run(h, st, w) = y
  <2>1. p.sock[s].que = l /\ p.work[w].socket = s /\ p.work[w].http = r
    BY <1>1, <1>2 DEF Touched, WorkerType, With
  <2> HIDE DEF p
  <2>2. hin_fcgi_stdin_done(h, p, w) = x
    BY <2>1 DEF hin_fcgi_stdin_done, hin_fcgi_socket_continue, First, Release
  <2>3. hin_fcgi_write_post(h, p, w) = x
    BY <1>2, <2>1, <2>2 DEF hin_fcgi_write_post
  <2>4. /\ ~(st.work[w].socket = None \/ st.work[w].http = NoRequest)
        /\ ~st.sock[st.work[w].socket].busy /\ ~st.work[w].writing
    BY <1>1 DEF Comes, Ready, Queued, Quiet
  <2> HIDE DEF x
  <2>5. hin_fcgi_worker_run(h, st, w) =
          [hin_fcgi_write_post(h, p, w) EXCEPT !.work[w].writing = TRUE, !.work[w].header = TRUE]
    BY <1>1, <2>4 DEF hin_fcgi_worker_run, p, Take
  <2> QED BY <2>3, <2>5
<1> HIDE DEF p
<1>4. Entered(st, e, s, w) /\ e.work = p.work /\ e.req = p.req
  BY <1>1, <1>2, Released
<1> HIDE DEF e
<1>5. PICK R : Drains(e, x, s, ToSet(l), R)
  BY <1>4, NestedRuns
<1> HIDE DEF x
<1>6. /\ x \in GroupType /\ DOMAIN x.work = DOMAIN st.work
      /\ x.work[w] = e.work[w] /\ x.req[r] = e.req[r]
  <2>1. Kept(st, e, x, w)
    BY <1>4, <1>5, LoopKeeps
  <2> QED BY <2>1 DEF Kept
<1>7. /\ Written(x.work[w]) = Ran(st.work[w], FALSE)
      /\ Ran(st.work[w], FALSE) \in WorkerType
  <2>1. x.work[w] = With(st.work[w], {"DATA"})
    BY <1>2, <1>4, <1>6
  <2>2. /\ Written(With(st.work[w], {"DATA"})) = Ran(st.work[w], FALSE)
        /\ Ran(st.work[w], FALSE) \in WorkerType
    BY <1>1, RanPlain, Zenon
  <2> QED BY <2>1, <2>2
<1>8. y = SetW(x, w, Ran(st.work[w], FALSE))
  <2>1. y = SetW(x, w, Written(x.work[w]))
    BY <1>1, <1>6 DEF SetW, GroupType, Written
  <2> QED BY <1>7, <2>1
<1>9. /\ y \in GroupType /\ Around(x, y) /\ y.sock = x.sock /\ y.req = x.req
      /\ Changed(x.work, y.work, w, Ran(st.work[w], FALSE))
  <2> HIDE DEF y
  <2> DEFINE k == Ran(st.work[w], FALSE)
  <2>1. /\ SetW(x, w, k) \in GroupType /\ Around(x, SetW(x, w, k))
        /\ SetW(x, w, k).sock = x.sock /\ SetW(x, w, k).req = x.req
        /\ Changed(x.work, SetW(x, w, k).work, w, k)
    <3> HIDE DEF k
    <3> QED BY <1>1, <1>6, <1>7, SetWDoes DEF k
  <2> QED BY <1>8, <2>1
<1>10. Changed(x.req, y.req, r, st.req[r])
  BY <1>1, <1>2, <1>4, <1>6, <1>9 DEF Changed
<1>11. ~Up(st, w)
  BY DEF Up
<1> HIDE DEF y
<1>12. Drains(st, y, s, ToSet(l) \cup {w}, R \cup {w})
  BY <1>4, <1>5, <1>9, <1>10, <1>11, NestedEnds
<1> QED BY <1>3, <1>12

(* hin_fcgi_write_post sets POST for the worker and its request. *)
Post(st, w, r) ==
  [st EXCEPT !.work[w].io = @ \cup {"POST"}, !.req[r].flags = @ \cup {"POST"}]

Flagged(q, flags) == [q EXCEPT !.flags = flags]

Posted(st, q, s, w) ==
  /\ Touched(st, q, s, w) /\ q.sock[s].busy = TRUE
  /\ q.work[w] = With(st.work[w], {"DATA", "POST"})
  /\ q.req[st.work[w].http] = Flagged(st.req[st.work[w].http], {"DATA", "FCGI", "POST"})

(* hin_fcgi_write_post sets the flags of a request that has a body. *)
LEMMA PostBegins ==
  ASSUME NEW st, NEW s, NEW w, Comes(st, s, w)
  PROVE  Posted(st, Post(Take(st, s, w), w, st.work[w].http), s, w)
<1> DEFINE r == st.work[w].http
           p == Take(st, s, w)
           k == With(st.work[w], {"DATA", "POST"})
           n == Flagged(st.req[r], {"DATA", "FCGI", "POST"})
           a == SetW(p, w, k)
           b == SetR(a, r, n)
<1>1. /\ st \in GroupType /\ s \in DOMAIN st.sock /\ w \in DOMAIN st.work
      /\ st.work[w] \in WorkerType /\ st.work[w].io = {} /\ r \in Requests
      /\ st.req[r] \in RequestType /\ st.req[r].flags = {"DATA", "FCGI"}
  BY ComesFacts DEF Queued
<1>2. /\ Touched(st, p, s, w) /\ p.req = st.req /\ p.work[w] = With(st.work[w], {"DATA"})
      /\ p.sock[s].busy = TRUE
  <2>1. Taken(st, p, s, w)
    BY RunBegins
  <2> HIDE DEF p
  <2> QED BY <2>1 DEF Taken
<1>3. k \in WorkerType
  BY <1>1 DEF WorkerType, With
<1>4. n \in RequestType
  BY <1>1 DEF RequestType, Flagged
<1> HIDE DEF p
<1>5. Post(p, w, r) = b
  <2>1. p.work[w].io \cup {"POST"} = {"DATA", "POST"}
    BY <1>1, <1>2 DEF With, WorkerType
  <2>2. [p.work[w] EXCEPT !.io = {"DATA", "POST"}] = k
    BY <1>1, <1>2 DEF With, WorkerType
  <2>3. p.req[r].flags \cup {"POST"} = {"DATA", "FCGI", "POST"}
    BY <1>1, <1>2
  <2>4. [p.req[r] EXCEPT !.flags = {"DATA", "FCGI", "POST"}] = n
    BY <1>2 DEF Flagged
  <2>5. a.req = p.req
    BY <1>1, <1>2, <1>3, TouchedW
  <2> HIDE DEF k, n
  <2>6. Post(p, w, r) = [[p EXCEPT !.work[w] = k] EXCEPT !.req[r] = n]
    <3>1. Post(p, w, r) = [p EXCEPT !.work[w].io = {"DATA", "POST"}, !.req[r].flags = {"DATA", "FCGI", "POST"}]
      BY <2>1, <2>3 DEF Post
    <3> QED BY <3>1, <2>2, <2>4, <2>5 DEF SetW
  <2> QED BY <2>6 DEF SetW, SetR
<1> HIDE DEF k, n
<1>6. Touched(st, a, s, w) /\ a.work[w] = k /\ a.sock = p.sock /\ a.req = p.req
  BY <1>1, <1>2, <1>3, TouchedW
<1> HIDE DEF a
<1>7. Touched(st, b, s, w) /\ b.req[r] = n /\ b.work = a.work /\ b.sock = a.sock
  BY <1>1, <1>4, <1>6, TouchedR
<1> HIDE DEF b
<1>8. Posted(st, b, s, w)
  BY <1>2, <1>6, <1>7 DEF Posted, k, n
<1> QED BY <1>5, <1>8 DEF p

(* A request whose body came with the head: hin_pipe_start ends the upload *)
(* at once, and the loop runs inside hin_fcgi_write_post. *)
LEMMA RunBuffered ==
  ASSUME NEW h, NEW st, NEW s, NEW w, Comes(st, s, w), Works(h, Len(st.sock[s].que)),
         st.req[st.work[w].http].kind = "buffered"
  PROVE  \E R : Drains(st, hin_fcgi_worker_run(h, st, w), s, ToSet(st.sock[s].que) \cup {w}, R)
<1> DEFINE r == st.work[w].http
           l == st.sock[s].que
           p == Take(st, s, w)
           o == Post(p, w, r)
           e == Release(o, s)
           x == h[<<e, s, First(l)>>]
           a == [x EXCEPT !.work[w].io = @ \ {"POST"}]
           c == [a EXCEPT !.req[r].flags = @ \ {"POST"}]
           y == [c EXCEPT !.work[w].writing = TRUE, !.work[w].header = TRUE]
<1>1. /\ st \in GroupType /\ s \in DOMAIN st.sock /\ s # None /\ w \in DOMAIN st.work
      /\ st.work[w] \in WorkerType /\ Queued(st.work[w]) /\ st.work[w].socket = s
      /\ r \in Requests /\ r # NoRequest
      /\ st.req[r] \in RequestType /\ st.req[r].flags = {"DATA", "FCGI"}
  BY ComesFacts, FcgiAssumption
<1>2. /\ Touched(st, p, s, w) /\ p.sock[s].busy = TRUE /\ p.req = st.req
      /\ p.work[w] = With(st.work[w], {"DATA"})
  <2>1. Taken(st, p, s, w)
    BY RunBegins
  <2> HIDE DEF p
  <2> QED BY <2>1 DEF Taken
<1>3. /\ Touched(st, o, s, w) /\ o.work[w] = With(st.work[w], {"DATA", "POST"})
      /\ o.req[r] = Flagged(st.req[r], {"DATA", "FCGI", "POST"})
  <2>1. Posted(st, o, s, w)
    BY PostBegins
  <2> HIDE DEF o
  <2> QED BY <2>1 DEF Posted
<1> HIDE DEF p, o
<1>4. Entered(st, e, s, w) /\ e.work = o.work /\ e.req = o.req
  BY <1>1, <1>3, Released
<1> HIDE DEF e
<1>5. PICK R : Drains(e, x, s, ToSet(l), R)
  BY <1>4, NestedRuns
<1> HIDE DEF x
<1>6. /\ x \in GroupType /\ DOMAIN x.work = DOMAIN st.work
      /\ x.work[w] = With(st.work[w], {"DATA", "POST"})
      /\ x.req[r] = Flagged(st.req[r], {"DATA", "FCGI", "POST"})
  <2>1. Kept(st, e, x, w)
    BY <1>4, <1>5, LoopKeeps
  <2> QED BY <2>1, <1>3, <1>4 DEF Kept
<1>7. a = SetW(x, w, With(st.work[w], {"DATA"}))
  <2>1. x.work[w].io \ {"POST"} = {"DATA"}
    BY <1>1, <1>6 DEF With, WorkerType
  <2>2. [x.work[w] EXCEPT !.io = {"DATA"}] = With(st.work[w], {"DATA"})
    BY <1>1, <1>6 DEF With, WorkerType
  <2> QED BY <2>1, <2>2 DEF SetW
<1>8. /\ a \in GroupType /\ Around(x, a) /\ a.sock = x.sock /\ a.req = x.req
      /\ Changed(x.work, a.work, w, With(st.work[w], {"DATA"}))
  <2> HIDE DEF a
  <2>1. With(st.work[w], {"DATA"}) \in WorkerType
    BY <1>1 DEF With, WorkerType
  <2> DEFINE k == With(st.work[w], {"DATA"})
  <2> HIDE DEF k
  <2>2. /\ SetW(x, w, k) \in GroupType /\ Around(x, SetW(x, w, k))
        /\ SetW(x, w, k).sock = x.sock /\ SetW(x, w, k).req = x.req
        /\ Changed(x.work, SetW(x, w, k).work, w, k)
    BY <1>1, <1>6, <2>1, SetWDoes DEF k
  <2> QED BY <1>7, <2>2 DEF k
<1>9. c = SetR(a, r, st.req[r])
  <2>1. a.req[r].flags \ {"POST"} = {"DATA", "FCGI"}
    <3>1. a.req[r] = [st.req[r] EXCEPT !.flags = {"DATA", "FCGI", "POST"}]
      BY <1>6, <1>8 DEF Flagged
    <3> HIDE DEF a
    <3>2. a.req[r].flags = {"DATA", "FCGI", "POST"}
      BY <1>1, <3>1 DEF RequestType
    <3> QED BY <3>2
  <2>2. [a.req[r] EXCEPT !.flags = {"DATA", "FCGI"}] = st.req[r]
    BY <1>1, <1>6, <1>8 DEF Flagged, RequestType
  <2> HIDE DEF a
  <2> QED BY <2>1, <2>2 DEF SetR
<1>10. /\ c \in GroupType /\ Around(a, c) /\ c.sock = a.sock /\ c.work = a.work
       /\ Changed(a.req, c.req, r, st.req[r])
  <2> HIDE DEF a, c
  <2> QED BY <1>1, <1>8, <1>9, SetRDoes
<1>11. hin_fcgi_worker_run(h, st, w) = y
  <2>1. o.sock[s].que = l /\ o.work[w].socket = s /\ o.work[w].http = r
    BY <1>1, <1>3 DEF Touched, WorkerType, With
  <2>2. p.work[w].http = r /\ p.req[r].kind = "buffered"
    BY <1>1, <1>2 DEF WorkerType, With
  <2>3. hin_fcgi_stdin_done(h, o, w) = x
    BY <2>1 DEF hin_fcgi_stdin_done, hin_fcgi_socket_continue, First, Release, e, x
  <2>4. hin_fcgi_worker_reset(a, w) = a
    <3>1. a.work[w].io = {"DATA"}
      BY <1>1, <1>8 DEF Changed, With, WorkerType
    <3> HIDE DEF a
    <3> QED BY <3>1 DEF hin_fcgi_worker_reset
  <2>5. "DATA" \in c.req[r].flags
    <3> HIDE DEF c
    <3> QED BY <1>1, <1>10 DEF Changed
  <2>6. hin_fcgi_post_done_callback(h, o, w, r) = c
    <3>1. o.work[w].socket # None
      BY <1>1, <2>1
    <3>2. hin_fcgi_worker_reset([hin_fcgi_stdin_done(h, o, w) EXCEPT !.work[w].io = @ \ {"POST"}], w) = a
      BY <2>3, <2>4
    <3> HIDE DEF a
    <3>3. [a EXCEPT !.req[r].flags = @ \ {"POST"}] = c
      OBVIOUS
    <3> HIDE DEF c
    <3> QED BY <2>5, <3>1, <3>2, <3>3 DEF hin_fcgi_post_done_callback
  <2> HIDE DEF c
  <2>7. hin_fcgi_write_post(h, p, w) = c
    <3>1. hin_fcgi_write_post(h, p, w) = hin_fcgi_post_done_callback(h, Post(p, w, r), w, r)
      BY <2>2 DEF hin_fcgi_write_post, Post
    <3> QED BY <2>6, <3>1 DEF o
  <2>8. /\ ~(st.work[w].socket = None \/ st.work[w].http = NoRequest)
        /\ ~st.sock[st.work[w].socket].busy /\ ~st.work[w].writing
    BY <1>1 DEF Comes, Ready, Queued, Quiet
  <2>9. hin_fcgi_worker_run(h, st, w) =
          [hin_fcgi_write_post(h, p, w) EXCEPT !.work[w].writing = TRUE, !.work[w].header = TRUE]
    BY <1>1, <2>8 DEF hin_fcgi_worker_run, p, Take
  <2> QED BY <2>7, <2>9
<1> HIDE DEF a, c
<1>12. /\ Written(c.work[w]) = Ran(st.work[w], FALSE)
       /\ Ran(st.work[w], FALSE) \in WorkerType
  <2>1. c.work[w] = With(st.work[w], {"DATA"})
    BY <1>8, <1>10 DEF Changed
  <2>2. /\ Written(With(st.work[w], {"DATA"})) = Ran(st.work[w], FALSE)
        /\ Ran(st.work[w], FALSE) \in WorkerType
    BY <1>1, RanPlain, Zenon
  <2> QED BY <2>1, <2>2
<1>13. w \in DOMAIN c.work
  BY <1>1, <1>6, <1>8, <1>10 DEF Changed
<1>14. y = SetW(c, w, Ran(st.work[w], FALSE))
  <2>1. y = SetW(c, w, Written(c.work[w]))
    BY <1>10, <1>13 DEF SetW, GroupType, Written
  <2> QED BY <1>12, <2>1
<1>15. /\ y \in GroupType /\ Around(c, y) /\ y.sock = c.sock /\ y.req = c.req
       /\ Changed(c.work, y.work, w, Ran(st.work[w], FALSE))
  <2> HIDE DEF y
  <2> DEFINE k == Ran(st.work[w], FALSE)
  <2>1. /\ SetW(c, w, k) \in GroupType /\ Around(c, SetW(c, w, k))
        /\ SetW(c, w, k).sock = c.sock /\ SetW(c, w, k).req = c.req
        /\ Changed(c.work, SetW(c, w, k).work, w, k)
    <3> HIDE DEF k
    <3> QED BY <1>10, <1>12, <1>13, SetWDoes DEF k
  <2> QED BY <1>14, <2>1
<1> HIDE DEF y
<1>16. /\ Around(x, y) /\ y.sock = x.sock /\ Changed(x.req, y.req, r, st.req[r])
  BY <1>8, <1>10, <1>15 DEF Around, Changed
<1>17. Changed(x.work, y.work, w, Ran(st.work[w], FALSE))
  <2> DEFINE k == Ran(st.work[w], FALSE)
  <2> HIDE DEF k
  <2> QED BY <1>8, <1>10, <1>15 DEF Changed, k
<1>18. ~Up(st, w)
  BY DEF Up
<1>19. Drains(st, y, s, ToSet(l) \cup {w}, R \cup {w})
  BY <1>4, <1>5, <1>15, <1>16, <1>17, <1>18, NestedEnds
<1> QED BY <1>11, <1>19

(* A worker with an upload keeps the connection. *)
LEMMA RunUpload ==
  ASSUME NEW h, NEW st, NEW s, NEW w, Comes(st, s, w), Up(st, w)
  PROVE  Drains(st, hin_fcgi_worker_run(h, st, w), s, ToSet(st.sock[s].que) \cup {w}, {w})
<1> DEFINE r == st.work[w].http
           l == st.sock[s].que
           p == Take(st, s, w)
           o == Post(p, w, r)
           a == [o EXCEPT !.work[w].upload = r]
           y == [a EXCEPT !.work[w].writing = TRUE, !.work[w].header = TRUE]
           k == Ran(st.work[w], TRUE)
<1>1. /\ st \in GroupType /\ s \in DOMAIN st.sock /\ s # None /\ w \in DOMAIN st.work
      /\ st.work[w] \in WorkerType /\ Queued(st.work[w]) /\ st.work[w].socket = s
      /\ r \in Requests /\ r # NoRequest
      /\ st.req[r] \in RequestType /\ st.req[r].flags = {"DATA", "FCGI"}
  BY ComesFacts, FcgiAssumption
<1>2. /\ Touched(st, p, s, w) /\ p.sock[s].busy = TRUE /\ p.req = st.req
      /\ p.work[w] = With(st.work[w], {"DATA"})
  <2>1. Taken(st, p, s, w)
    BY RunBegins
  <2> HIDE DEF p
  <2> QED BY <2>1 DEF Taken
<1>3. /\ Touched(st, o, s, w) /\ o.work[w] = With(st.work[w], {"DATA", "POST"})
      /\ o.req[r] = Flagged(st.req[r], {"DATA", "FCGI", "POST"})
      /\ o.sock[s].busy = TRUE
  <2>1. Posted(st, o, s, w)
    BY PostBegins
  <2> HIDE DEF o
  <2> QED BY <2>1 DEF Posted
<1> HIDE DEF p, o
<1>4. hin_fcgi_worker_run(h, st, w) = y
  <2>1. p.work[w].http = r /\ p.req[r].kind = "upload"
    BY <1>1, <1>2 DEF WorkerType, With, Up
  <2>2. hin_fcgi_write_post(h, p, w) = [Post(p, w, r) EXCEPT !.work[w].upload = r]
    BY <2>1 DEF hin_fcgi_write_post, Post
  <2>3. hin_fcgi_write_post(h, p, w) = a
    BY <2>2 DEF o
  <2>4. /\ ~(st.work[w].socket = None \/ st.work[w].http = NoRequest)
        /\ ~st.sock[st.work[w].socket].busy /\ ~st.work[w].writing
    BY <1>1 DEF Comes, Ready, Queued, Quiet
  <2> HIDE DEF a
  <2>5. hin_fcgi_worker_run(h, st, w) =
          [hin_fcgi_write_post(h, p, w) EXCEPT !.work[w].writing = TRUE, !.work[w].header = TRUE]
    BY <1>1, <2>4 DEF hin_fcgi_worker_run, p, Take
  <2> QED BY <2>3, <2>5
<1>5. k = [st.work[w] EXCEPT !.io = {"DATA", "POST"}, !.upload = r, !.writing = TRUE, !.header = TRUE]
  <2>1. {"DATA"} \cup {"POST"} = {"DATA", "POST"}
    OBVIOUS
  <2> QED BY <2>1 DEF Ran
<1>6. k \in WorkerType
  <2>1. {"DATA", "POST"} \in SUBSET {"DATA", "POST", "END"} /\ r \in Requests \cup {NoRequest}
    BY <1>1
  <2>2. [st.work[w] EXCEPT !.io = {"DATA", "POST"}, !.upload = r] \in WorkerType
    BY <1>1, <2>1 DEF WorkerType
  <2>3. \A j \in WorkerType : [j EXCEPT !.writing = TRUE, !.header = TRUE] \in WorkerType
    BY DEF WorkerType
  <2> QED BY <1>5, <2>2, <2>3, Zenon
<1>7. y = SetW(o, w, k)
  <2>1. o \in GroupType /\ w \in DOMAIN o.work
    BY <1>1, <1>3 DEF Touched
  <2>2. a = SetW(o, w, [o.work[w] EXCEPT !.upload = r])
    BY DEF SetW
  <2>3. a.work[w] = [o.work[w] EXCEPT !.upload = r] /\ DOMAIN a.work = DOMAIN o.work
    BY <2>1 DEF GroupType
  <2>4. y = SetW(a, w, Written(a.work[w]))
    <3> HIDE DEF a
    <3> QED BY <2>1, <2>3 DEF SetW, Written
  <2>5. Written([With(st.work[w], {"DATA", "POST"}) EXCEPT !.upload = r]) = k
    BY <1>1, <1>5 DEF Written, With, WorkerType
  <2>6. SetW(a, w, k) = SetW(o, w, k)
    BY <2>1, <2>2 DEF SetW, GroupType
  <2> HIDE DEF a, y, k
  <2> QED BY <1>3, <2>3, <2>4, <2>5, <2>6
<1> HIDE DEF k, y
<1>8. Touched(st, y, s, w) /\ y.work[w] = k /\ y.sock = o.sock /\ y.req = o.req
  BY <1>1, <1>3, <1>6, <1>7, TouchedW
<1>9. w \notin ToSet(l) /\ IsInjective(l)
  BY DEF Comes, Ready
<1>10. (ToSet(l) \cup {w}) \ {w} = ToSet(l)
  BY <1>9
<1>11. y \in GroupType /\ Around(st, y) /\ DOMAIN y.work = DOMAIN st.work
  BY <1>8 DEF Touched
<1>12. \A v \in DOMAIN st.work :
         y.work[v] = IF v \in {w} THEN Ran(st.work[v], Up(st, v)) ELSE st.work[v]
  <2>1. Ran(st.work[w], Up(st, w)) = k
    BY DEF k, Ran, Up
  <2> QED BY <1>8, <2>1 DEF Touched
<1>13. /\ DOMAIN y.sock = DOMAIN st.sock /\ SameSocket(st.sock[s], y.sock[s])
       /\ \A t \in DOMAIN st.sock : t # s => y.sock[t] = st.sock[t]
       /\ y.sock[s].que = l /\ y.sock[s].busy = TRUE
  BY <1>3, <1>8 DEF Touched
<1>14. \A a1 \in Requests :
        y.req[a1] = IF \E v \in {w} : Up(st, v) /\ st.work[v].http = a1
                    THEN [st.req[a1] EXCEPT !.flags = {"DATA", "FCGI", "POST"}] ELSE st.req[a1]
  <2>1. y.req[r] = [st.req[r] EXCEPT !.flags = {"DATA", "FCGI", "POST"}]
    BY <1>3, <1>8 DEF Flagged
  <2>2. \A a1 \in Requests : a1 # r => y.req[a1] = st.req[a1]
    BY <1>8 DEF Touched
  <2>3. \A a1 : (\E v \in {w} : Up(st, v) /\ st.work[v].http = a1) <=> a1 = r
    OBVIOUS
  <2> QED BY <2>1, <2>2, <2>3
<1>15. /\ y.sock[s].busy <=> \E v \in {w} : Up(st, v)
       /\ \A u, v \in {w} : Up(st, u) /\ Up(st, v) => u = v
       /\ y.sock[s].busy = FALSE => {w} = ToSet(l) \cup {w}
  BY <1>13
<1> QED BY <1>4, <1>9, <1>10, <1>11, <1>12, <1>13, <1>14, <1>15 DEF Drains

(* hin_fcgi_worker_run of a worker, when no other has the connection. *)
LEMMA RunDoes ==
  ASSUME NEW h, NEW st, NEW s, NEW w, Comes(st, s, w), Works(h, Len(st.sock[s].que))
  PROVE  \E R : Drains(st, hin_fcgi_worker_run(h, st, w), s, ToSet(st.sock[s].que) \cup {w}, R)
<1>1. st.req[st.work[w].http].kind \in Kind
  BY ComesFacts DEF RequestType
<1>2. CASE st.req[st.work[w].http].kind = "get"
  BY <1>2, RunGet
<1>3. CASE st.req[st.work[w].http].kind = "buffered"
  BY <1>3, RunBuffered
<1>4. CASE st.req[st.work[w].http].kind = "upload"
  BY <1>4, RunUpload DEF Up
<1> QED BY <1>1, <1>2, <1>3, <1>4 DEF Kind

----------------------------------------------------------------------------
(* The turns of the loop, one inside or after the other. *)

Turn(h) == [a \in Calls |-> RunQueued(h, a[1], a[2], a[3])]

NoTurn == [a \in Calls |-> a[1]]

IsTurns(f, n) == f = [i \in 0 .. n |-> IF i = 0 THEN NoTurn ELSE Turn(f[i - 1])]

(* The recursive definition of Loop has a solution. *)
LEMMA TurnsExist ==
  ASSUME NEW n \in Nat
  PROVE  \E f : IsTurns(f, n)
<1> DEFINE T == {m \in Nat : ~ \E f : IsTurns(f, m)}
<1> SUFFICES ASSUME T # {} PROVE FALSE
  OBVIOUS
<1>1. PICK m \in T : \A j \in T : m <= j
  <2>1. T \in SUBSET Nat
    OBVIOUS
  <2> HIDE DEF T
  <2> QED BY <2>1, LeastNat
<1>2. m \in Nat /\ ~ \E f : IsTurns(f, m)
  OBVIOUS
<1>3. CASE m = 0
  <2> DEFINE f == [i \in 0 .. m |-> NoTurn]
  <2>1. \A i \in 0 .. m : i = 0
    BY <1>3
  <2>2. IsTurns(f, m)
    BY <2>1 DEF IsTurns
  <2> QED BY <1>2, <2>2
<1>4. CASE m # 0
  <2>1. m - 1 \in Nat /\ ~ (m <= m - 1)
    BY <1>2, <1>4
  <2>2. m - 1 \notin T
    BY <1>1, <2>1
  <2>3. PICK e : IsTurns(e, m - 1)
    BY <2>1, <2>2
  <2> DEFINE f == [i \in 0 .. m |-> IF i = m THEN Turn(e[m - 1]) ELSE e[i]]
  <2>4. \A i \in 0 .. (m - 1) : e[i] = IF i = 0 THEN NoTurn ELSE Turn(e[i - 1])
    BY <2>3 DEF IsTurns
  <2>5. \A i \in 0 .. m : i # m => i \in 0 .. (m - 1) /\ f[i] = e[i]
    BY <1>2
  <2>6. ASSUME NEW i \in 0 .. m
        PROVE  f[i] = IF i = 0 THEN NoTurn ELSE Turn(f[i - 1])
    <3>1. CASE i = m
      <4>1. f[i] = Turn(e[m - 1])
        BY <3>1
      <4>2. m - 1 \in 0 .. m /\ m - 1 # m
        BY <1>2, <1>4
      <4>3. f[m - 1] = e[m - 1]
        BY <2>5, <4>2
      <4> QED BY <1>4, <3>1, <4>1, <4>3
    <3>2. CASE i # m /\ i = 0
      BY <2>4, <2>5, <3>2
    <3>3. CASE i # m /\ i # 0
      <4>1. f[i] = Turn(e[i - 1])
        BY <2>4, <2>5, <3>3
      <4>2. i - 1 \in 0 .. m /\ i - 1 # m
        BY <1>2, <3>3
      <4>3. f[i - 1] = e[i - 1]
        BY <2>5, <4>2
      <4> QED BY <3>3, <4>1, <4>3
    <3> QED BY <3>1, <3>2, <3>3
  <2>7. f = [i \in 0 .. m |-> f[i]]
    OBVIOUS
  <2> HIDE DEF f
  <2>8. f = [i \in 0 .. m |-> IF i = 0 THEN NoTurn ELSE Turn(f[i - 1])]
    BY <2>6, <2>7
  <2> QED BY <1>2, <2>8 DEF IsTurns
<1> QED BY <1>3, <1>4

(* The loop leaves a group where it has nothing to do. *)
Idles(h) ==
  \A st \in GroupType, s \in Nat, v \in Nat :
    \/ st.sock[s].busy \/ v = None
    \/ "DATA" \in st.work[v].io /\ st.sock[s].que = <<>>
    => h[<<st, s, v>>] = st

(* The loop of no turns leaves a busy connection alone ... *)
LEMMA NoTurnIdles == Idles(NoTurn)
<1> SUFFICES ASSUME NEW st \in GroupType, NEW s \in Nat, NEW v \in Nat
             PROVE  NoTurn[<<st, s, v>>] = st
  BY DEF Idles
<1>1. <<st, s, v>> \in Calls
  BY DEF Calls
<1> QED BY <1>1 DEF NoTurn

(* ... and so does a loop of one more turn. *)
LEMMA TurnIdles ==
  ASSUME NEW h, Idles(h)
  PROVE  Idles(Turn(h))
<1> SUFFICES ASSUME NEW st \in GroupType, NEW s \in Nat, NEW v \in Nat,
                    \/ st.sock[s].busy \/ v = None
                    \/ "DATA" \in st.work[v].io /\ st.sock[s].que = <<>>
             PROVE  Turn(h)[<<st, s, v>>] = st
  BY DEF Idles
<1>1. Turn(h)[<<st, s, v>>] = RunQueued(h, st, s, v)
  <2>1. <<st, s, v>> \in Calls
    BY DEF Calls
  <2> QED BY <2>1 DEF Turn
<1>2. CASE st.sock[s].busy \/ v = None
  BY <1>1, <1>2 DEF RunQueued
<1>3. CASE /\ ~(st.sock[s].busy \/ v = None)
           /\ "DATA" \in st.work[v].io /\ st.sock[s].que = <<>>
  <2>1. NextQueued(st, s, v) = None
    BY <1>3 DEF NextQueued
  <2>2. RunQueued(h, st, s, v) = h[<<st, s, None>>]
    BY <1>3, <2>1 DEF RunQueued
  <2>3. h[<<st, s, None>>] = st
    BY DEF Idles, None
  <2> QED BY <1>1, <2>2, <2>3
<1> QED BY <1>2, <1>3

(* The first worker leaves the list before it runs. *)
Dequeue(st, s, w) == [st EXCEPT !.sock[s].que = basic_dlist_remove(@, w)]

(* q is st with another list of waiting workers. *)
Requeued(st, q, s) ==
  /\ q \in GroupType /\ Around(st, q) /\ q.work = st.work /\ q.req = st.req
  /\ DOMAIN q.sock = DOMAIN st.sock /\ SameSocket(st.sock[s], q.sock[s])
  /\ q.sock[s].busy = st.sock[s].busy
  /\ \A t \in DOMAIN st.sock : t # s => q.sock[t] = st.sock[t]

(* basic_dlist_remove takes the worker that runs from the list. *)
LEMMA DequeueDoes ==
  ASSUME NEW st, NEW s, Ready(st, s), NEW w \in ToSet(st.sock[s].que)
  PROVE  LET q == Dequeue(st, s, w)
             l == st.sock[s].que
         IN  /\ Requeued(st, q, s) /\ Comes(q, s, w) /\ Len(q.sock[s].que) = Len(l) - 1
             /\ ToSet(q.sock[s].que) \cup {w} = ToSet(l)
<1> DEFINE l == st.sock[s].que
           c == CHOOSE i \in DOMAIN l : l[i] = w
           m == RemoveAt(l, c)
           k == [st.sock[s] EXCEPT !.que = m]
           q == SetS(st, s, k)
<1>1. /\ st \in GroupType /\ s \in DOMAIN st.sock /\ st.sock[s] \in SocketType
      /\ l \in Seq(Nat) /\ IsInjective(l) /\ st.sock[s].busy = FALSE
  <2>1. st \in GroupType /\ s \in DOMAIN st.sock /\ IsInjective(l) /\ st.sock[s].busy = FALSE
    BY DEF Ready
  <2>2. st.sock[s] \in SocketType
    BY <2>1, Typed
  <2> QED BY <2>1, <2>2 DEF SocketType
<1>2. c \in 1 .. Len(l) /\ l[c] = w
  <2>1. c \in DOMAIN l /\ l[c] = w
    BY <1>1, Elements
  <2> QED BY <1>1, <2>1, LenProperties
<1>3. basic_dlist_remove(l, w) = m
  BY DEF basic_dlist_remove
<1> HIDE DEF c
<1>4. /\ m \in Seq(Nat) /\ IsInjective(m) /\ ToSet(m) = ToSet(l) \ {w} /\ Len(m) = Len(l) - 1
  <2>1. m \in Seq(Nat) /\ IsInjective(m) /\ ToSet(m) = ToSet(l) \ {l[c]}
    BY <1>1, <1>2, RemovedElement
  <2>2. Len(m) = Len(l) - 1
    BY <1>1, <1>2, RemovedAt
  <2> QED BY <1>2, <2>1, <2>2
<1>5. Dequeue(st, s, w) = q
  BY <1>3 DEF Dequeue, SetS
<1> HIDE DEF m
<1>6. /\ k \in SocketType /\ SameSocket(st.sock[s], k) /\ k.que = m
      /\ k.busy = st.sock[s].busy
  BY <1>1, <1>4 DEF SocketType, SameSocket
<1> HIDE DEF k
<1>7. /\ q \in GroupType /\ Around(st, q) /\ q.work = st.work /\ q.req = st.req
      /\ Changed(st.sock, q.sock, s, k)
  BY <1>1, <1>6, SetSDoes
<1> HIDE DEF q
<1>8. Requeued(st, q, s)
  BY <1>1, <1>6, <1>7 DEF Requeued, Changed
<1>9. q.sock[s].que = m /\ s \in DOMAIN q.sock
  BY <1>1, <1>6, <1>7 DEF Changed
<1>10. \A v : Waiting(st, s, v) <=> Waiting(q, s, v)
  BY <1>7 DEF Waiting
<1>11. Ready(q, s)
  BY <1>1, <1>4, <1>8, <1>9, <1>10 DEF Ready, Requeued, Around
<1>12. Comes(q, s, w)
  BY <1>4, <1>8, <1>9, <1>10, <1>11 DEF Comes, Ready, Requeued
<1>13. Requeued(st, q, s) /\ Comes(q, s, w) /\ Len(q.sock[s].que) = Len(l) - 1
       /\ ToSet(q.sock[s].que) \cup {w} = ToSet(l)
  BY <1>4, <1>8, <1>9, <1>12
<1> QED BY <1>5, <1>13

(* What the list was before does not matter to what a drain leaves. *)
LEMMA DrainsRequeued ==
  ASSUME NEW st, NEW q, NEW s \in DOMAIN st.sock, Requeued(st, q, s), NEW y, NEW Q, NEW R,
         Drains(q, y, s, Q, R)
  PROVE  Drains(st, y, s, Q, R)
<1>1. \A v : Up(q, v) <=> Up(st, v)
  BY DEF Up, Requeued
<1>2. \A v : Up(q, v) = Up(st, v)
  BY DEF Up, Requeued
<1>3. Around(st, y) /\ SameSocket(st.sock[s], y.sock[s])
  BY DEF Drains, Requeued, Around, SameSocket
<1>4. \A v \in DOMAIN st.work :
       y.work[v] = IF v \in R THEN Ran(st.work[v], Up(st, v)) ELSE st.work[v]
  BY <1>2 DEF Drains, Requeued
<1>5. \A r \in Requests :
       y.req[r] = IF \E v \in R : Up(st, v) /\ st.work[v].http = r
                  THEN [st.req[r] EXCEPT !.flags = {"DATA", "FCGI", "POST"}] ELSE st.req[r]
  BY <1>1 DEF Drains, Requeued
<1> QED BY <1>1, <1>3, <1>4, <1>5 DEF Drains, Requeued

(* A list without elements is empty. *)
LEMMA NoElements ==
  ASSUME NEW S, NEW l \in Seq(S), ToSet(l) = {}
  PROVE  l = <<>>
<1>1. Len(l) \in Nat /\ \A i \in 1 .. Len(l) : l[i] \in ToSet(l)
  BY Elements
<1>2. Len(l) = 0
  <2> SUFFICES ASSUME Len(l) # 0 PROVE FALSE
    OBVIOUS
  <2>1. 1 \in 1 .. Len(l)
    BY <1>1
  <2> QED BY <1>1, <2>1
<1> QED BY <1>2, EmptySeq

(* A list of none is drained as it is. *)
LEMMA DrainsNone ==
  ASSUME NEW st, NEW s, Ready(st, s), st.sock[s].que = <<>>
  PROVE  Drains(st, st, s, ToSet(st.sock[s].que), {})
<1>1. ToSet(<<>>) = {}
  BY DEF ToSet
<1>2. Around(st, st) /\ SameSocket(st.sock[s], st.sock[s])
  BY DEF Around, SameSocket
<1> QED BY <1>1, <1>2 DEF Drains, Ready

(* One more turn, for one more worker. *)
LEMMA TurnWorks ==
  ASSUME NEW h, Idles(h), NEW n \in Nat, n # 0 => Works(h, n - 1)
  PROVE  Works(Turn(h), n)
<1> SUFFICES ASSUME NEW st, NEW s, Ready(st, s), Len(st.sock[s].que) = n
             PROVE  LET l == st.sock[s].que
                    IN  \E R : Drains(st, Turn(h)[<<st, s, First(l)>>], s, ToSet(l), R)
  BY DEF Works
<1> DEFINE l == st.sock[s].que
           w == First(l)
<1>1. /\ st \in GroupType /\ s \in DOMAIN st.sock /\ s \in Nat /\ l \in Seq(Nat)
      /\ st.sock[s].busy = FALSE
  <2>1. st \in GroupType /\ s \in DOMAIN st.sock /\ st.sock[s].busy = FALSE
    BY DEF Ready
  <2>2. st.sock[s] \in SocketType /\ s \in Nat
    BY <2>1, Typed
  <2> QED BY <2>1, <2>2 DEF SocketType
<1>2. w \in Nat
  BY <1>1, HeadTailProperties DEF First, None
<1>3. Turn(h)[<<st, s, w>>] = RunQueued(h, st, s, w)
  <2>1. <<st, s, w>> \in Calls
    BY <1>1, <1>2 DEF Calls
  <2> HIDE DEF w
  <2> QED BY <2>1 DEF Turn
<1>4. CASE l = <<>>
  <2>1. w = None
    BY <1>4 DEF First
  <2>2. RunQueued(h, st, s, w) = st
    BY <2>1 DEF RunQueued
  <2> HIDE DEF w
  <2> QED BY <1>3, <1>4, <2>2, DrainsNone DEF w
<1>5. CASE l # <<>>
  <2>1. w = Head(l) /\ w = l[1] /\ w \in ToSet(l)
    BY <1>1, <1>5, HeadTailProperties, Elements, EmptySeq DEF First
  <2>2. w # None /\ "DATA" \notin st.work[w].io
    <3>1. w \in DOMAIN st.work /\ Queued(st.work[w])
      BY <2>1 DEF Ready, Waiting
    <3> QED BY <1>1, <3>1, Typed DEF Queued
  <2> DEFINE q == Dequeue(st, s, w)
             y == hin_fcgi_worker_run(h, q, w)
             v == NextQueued(st, s, w)
  <2> HIDE DEF w
  <2>3. RunQueued(h, st, s, w) = h[<<y, s, v>>]
    BY <1>1, <2>2 DEF RunQueued, Dequeue
  <2>4. /\ Requeued(st, q, s) /\ Comes(q, s, w) /\ Len(q.sock[s].que) = Len(l) - 1
        /\ ToSet(q.sock[s].que) \cup {w} = ToSet(l)
    BY <2>1, DequeueDoes
  <2> HIDE DEF q
  <2>5. n # 0
    BY <1>1, <1>5, EmptySeq
  <2>6. PICK R : Drains(q, y, s, ToSet(l), R)
    <3>1. Works(h, Len(q.sock[s].que))
      BY <2>4, <2>5
    <3>2. \E R : Drains(q, y, s, ToSet(q.sock[s].que) \cup {w}, R)
      BY <2>4, <3>1, RunDoes
    <3> HIDE DEF y
    <3> QED BY <2>4, <3>2
  <2> HIDE DEF y
  <2>7. Drains(st, y, s, ToSet(l), R)
    BY <1>1, <2>4, <2>6, DrainsRequeued
  <2>8. v = None \/ (v \in ToSet(l) /\ v \in Nat)
    <3>1. v = None \/ \E i \in 2 .. Len(l) : v = l[i]
      BY DEF NextQueued
    <3>2. CASE \E i \in 2 .. Len(l) : v = l[i]
      <4>1. PICK i \in 2 .. Len(l) : v = l[i]
        BY <3>2
      <4>2. i \in DOMAIN l
        BY <1>1, <4>1, LenProperties
      <4> QED BY <1>1, <4>1, <4>2, Elements
    <3> QED BY <3>1, <3>2
  <2> HIDE DEF v
  <2>9. h[<<y, s, v>>] = y
    <3>1. y \in GroupType /\ v \in Nat
      BY <2>7, <2>8 DEF Drains, None
    <3>2. y.sock[s].busy \/ v = None \/ ("DATA" \in y.work[v].io /\ y.sock[s].que = <<>>)
      <4> SUFFICES ASSUME y.sock[s].busy = FALSE, v # None
                   PROVE  "DATA" \in y.work[v].io /\ y.sock[s].que = <<>>
        <5>1. y.sock[s].busy \in BOOLEAN
          <6>1. s \in DOMAIN y.sock
            BY <1>1, <2>7 DEF Drains
          <6>2. y.sock[s] \in SocketType
            BY <3>1, <6>1, Typed
          <6> QED BY <6>2 DEF SocketType
        <5> QED BY <5>1
      <4>1. R = ToSet(l) /\ ToSet(y.sock[s].que) = {}
        BY <2>7 DEF Drains
      <4>2. y.sock[s].que = <<>>
        <5>1. s \in DOMAIN y.sock
          BY <1>1, <2>7 DEF Drains
        <5>2. y.sock[s] \in SocketType
          BY <3>1, <5>1, Typed
        <5>3. y.sock[s].que \in Seq(Nat)
          BY <5>2 DEF SocketType
        <5> QED BY <4>1, <5>3, NoElements
      <4>3. v \in DOMAIN st.work
        BY <2>8 DEF Ready, Waiting
      <4>4. y.work[v] = Ran(st.work[v], Up(st, v))
        BY <2>7, <2>8, <4>1, <4>3 DEF Drains
      <4>5. st.work[v] \in WorkerType
        BY <1>1, <4>3, Typed
      <4>6. y.work[v].io = {"DATA"} \cup (IF Up(st, v) THEN {"POST"} ELSE {})
        BY <4>4, <4>5 DEF Ran, WorkerType
      <4> QED BY <4>2, <4>6
    <3> QED BY <1>1, <3>1, <3>2 DEF Idles
  <2> QED BY <1>3, <2>3, <2>7, <2>9 DEF w
<1> QED BY <1>4, <1>5

(* The loop runs whoever waits, for lists as long as there are workers. *)
LEMMA LoopWorks ==
  ASSUME NEW st \in GroupType, NEW n \in 0 .. (Len(st.work) + 1)
  PROVE  Works(Loop(st), n)
<1> DEFINE N == Len(st.work) + 1
           t == CHOOSE f : f = [i \in 0 .. N |-> IF i = 0 THEN [a \in Calls |-> a[1]]
                                                 ELSE [a \in Calls |-> RunQueued(f[i - 1], a[1], a[2], a[3])]]
<1>1. Loop(st) = t[N]
  BY Zenon DEF Loop
<1>2. N \in Nat
  BY Typed
<1> HIDE DEF N
<1>3. IsTurns(t, N)
  <2>1. PICK f : IsTurns(f, N)
    BY <1>2, TurnsExist
  <2>2. f = [i \in 0 .. N |-> IF i = 0 THEN [a \in Calls |-> a[1]]
                              ELSE [a \in Calls |-> RunQueued(f[i - 1], a[1], a[2], a[3])]]
    BY <2>1, Zenon DEF IsTurns, NoTurn, Turn
  <2>3. t = [i \in 0 .. N |-> IF i = 0 THEN [a \in Calls |-> a[1]]
                              ELSE [a \in Calls |-> RunQueued(t[i - 1], a[1], a[2], a[3])]]
    BY <2>2, Zenon
  <2> HIDE DEF t
  <2> QED BY <2>3, Zenon DEF IsTurns, NoTurn, Turn
<1> HIDE DEF t
<1>4. t[0] = NoTurn /\ \A i \in 0 .. N : i # 0 => t[i] = Turn(t[i - 1])
  BY <1>2, <1>3 DEF IsTurns
<1> DEFINE P(m) == Idles(t[m]) /\ \A j \in 0 .. m : Works(t[m], j)
           T == {m \in 0 .. N : ~P(m)}
<1>5. T = {}
  <2> SUFFICES ASSUME T # {} PROVE FALSE
    OBVIOUS
  <2>1. PICK m \in T : \A j \in T : m <= j
    <3>1. T \in SUBSET Nat
      BY <1>2
    <3> HIDE DEF T
    <3> QED BY <3>1, LeastNat
  <2>2. m \in 0 .. N /\ ~P(m) /\ m \in Nat
    BY <1>2
  <2>3. CASE m = 0
    <3>1. Idles(t[m])
      BY <1>4, <2>3, NoTurnIdles
    <3>2. ASSUME NEW p, NEW s, Ready(p, s), Len(p.sock[s].que) = 0
          PROVE  \E R : Drains(p, t[m][<<p, s, First(p.sock[s].que)>>], s, ToSet(p.sock[s].que), R)
      <4>1. p \in GroupType /\ s \in DOMAIN p.sock
        BY <3>2 DEF Ready
      <4>2. p.sock[s] \in SocketType /\ s \in Nat
        BY <4>1, Typed
      <4>3. p.sock[s].que = <<>>
        BY <3>2, <4>2, EmptySeq DEF SocketType
      <4>4. First(p.sock[s].que) = None /\ None \in Nat
        BY <4>3 DEF First, None
      <4>5. t[m][<<p, s, None>>] = p
        BY <3>1, <4>1, <4>2, <4>4 DEF Idles
      <4>6. Drains(p, p, s, ToSet(p.sock[s].que), {})
        BY <3>2, <4>3, DrainsNone
      <4> QED BY <4>4, <4>5, <4>6
    <3>3. Works(t[m], 0)
      BY <3>2 DEF Works
    <3>4. \A j \in 0 .. m : j = 0
      BY <2>3
    <3> QED BY <2>2, <3>1, <3>3, <3>4
  <2>4. CASE m # 0
    <3>1. m - 1 \in 0 .. N /\ ~(m <= m - 1)
      BY <1>2, <2>2, <2>4
    <3>2. P(m - 1)
      BY <2>1, <3>1
    <3>3. t[m] = Turn(t[m - 1])
      BY <1>4, <2>2, <2>4
    <3>4. Idles(t[m])
      BY <3>2, <3>3, TurnIdles
    <3>5. ASSUME NEW j \in 0 .. m PROVE Works(t[m], j)
      <4>1. j \in Nat /\ (j # 0 => j - 1 \in 0 .. (m - 1))
        BY <2>2
      <4>2. j # 0 => Works(t[m - 1], j - 1)
        BY <3>2, <4>1
      <4> QED BY <3>2, <3>3, <4>1, <4>2, TurnWorks
    <3> QED BY <2>2, <3>4, <3>5
  <2> QED BY <2>3, <2>4
<1>6. P(N)
  <2>1. N \in 0 .. N
    BY <1>2
  <2> QED BY <1>5, <2>1
<1>7. n \in 0 .. N
  BY DEF N
<1> QED BY <1>1, <1>6, <1>7

(* A list of workers, each listed once, is no longer than there are workers.*)
LEMMA ShortList ==
  ASSUME NEW st \in GroupType, NEW l \in Seq(Nat), IsInjective(l),
         ToSet(l) \subseteq DOMAIN st.work
  PROVE  Len(l) \in 0 .. Len(st.work)
<1>1. /\ Len(l) \in Nat /\ Len(st.work) \in Nat /\ DOMAIN st.work = 1 .. Len(st.work)
      /\ DOMAIN l = 1 .. Len(l) /\ \A i \in 1 .. Len(l) : l[i] \in ToSet(l)
  BY Typed, Elements, LenProperties
<1>2. l \in [1 .. Len(l) -> 1 .. Len(st.work)]
  <2>1. l = [i \in 1 .. Len(l) |-> l[i]]
    BY <1>1
  <2>2. \A i \in 1 .. Len(l) : l[i] \in 1 .. Len(st.work)
    BY <1>1
  <2> QED BY <2>1, <2>2
<1>3. \A i, j \in 1 .. Len(l) : l[i] = l[j] => i = j
  BY <1>1 DEF IsInjective
<1>4. \A n \in Nat : IsFiniteSet(1 .. n) /\ Cardinality(1 .. n) = n
  <2>1. \A n \in Nat : /\ IsFiniteSet(1 .. n)
                       /\ Cardinality(1 .. n) = IF 1 > n THEN 0 ELSE n - 1 + 1
    <3> TAKE n \in Nat
    <3>1. 1 \in Int /\ n \in Int
      OBVIOUS
    <3> QED BY <3>1, FS_Interval
  <2> QED BY <2>1
<1>5. l \in Injection(1 .. Len(l), 1 .. Len(st.work))
  BY <1>1, <1>2, <1>3 DEF Injection, IsInjective
<1>6. Cardinality(1 .. Len(l)) <= Cardinality(1 .. Len(st.work))
  <2> DEFINE S == 1 .. Len(l)
             T == 1 .. Len(st.work)
  <2>1. l \in Injection(S, T) /\ IsFiniteSet(T)
    BY <1>1, <1>4, <1>5
  <2> HIDE DEF S, T
  <2>2. Cardinality(S) <= Cardinality(T)
    BY <2>1, FS_Injection
  <2> QED BY <2>2 DEF S, T
<1> QED BY <1>1, <1>4, <1>6

----------------------------------------------------------------------------
(* A step of one worker and its request. *)

OneWorker(st, q, w, k, r, n) ==
  /\ q \in GroupType /\ q.sock = st.sock /\ q.slots = st.slots
  /\ q.stopped = st.stopped /\ q.bad = st.bad
  /\ Changed(st.work, q.work, w, k) /\ Changed(st.req, q.req, r, n)
  /\ q.idle = IF Idle(k) THEN Append(st.idle, w) ELSE st.idle

(* The worker serves r and goes on to k, the request to n. *)
Fits(st, w, k, r, n) ==
  /\ w \in DOMAIN st.work /\ r \in Requests /\ Client(st.work[w]) = r
  /\ Shaped(k) /\ k.socket = st.work[w].socket
  /\ ~Queued(st.work[w]) /\ ~Queued(k)
  /\ \/ Client(k) = r /\ Agrees(k, n)
     \/ Client(k) = NoRequest /\ Alone(n)

(* One worker and its request move on: the workers keep their stages ... *)
LEMMA OneWorkersOK ==
  ASSUME NEW st, NEW q, NEW w, NEW k, NEW r, NEW n, Most(st), OneWorker(st, q, w, k, r, n),
         Fits(st, w, k, r, n)
  PROVE  WorkersOK(q)
<1>1. /\ DOMAIN q.work = DOMAIN st.work /\ q.work[w] = k
      /\ \A v \in DOMAIN st.work : v # w => q.work[v] = st.work[v]
  BY DEF OneWorker, Changed
<1>2. \A v \in DOMAIN q.work : Shaped(q.work[v])
  BY <1>1 DEF Most, WorkersOK, Fits
<1>3. ASSUME NEW v \in DOMAIN q.work, q.work[v].socket # None
      PROVE  /\ q.work[v].socket \in DOMAIN q.sock /\ q.sock[q.work[v].socket].state # "closed"
             /\ q.sock[q.work[v].socket].state = "connecting" => Queued(q.work[v])
  <2>1. q.work[v].socket = st.work[v].socket
    BY <1>1 DEF Fits
  <2>2. /\ st.work[v].socket \in DOMAIN st.sock /\ st.sock[st.work[v].socket].state # "closed"
        /\ st.sock[st.work[v].socket].state = "connecting" => Queued(st.work[v])
    BY <1>1, <1>3, <2>1 DEF Most, WorkersOK
  <2> QED BY <1>1, <2>1, <2>2 DEF OneWorker, Fits
<1> QED BY <1>2, <1>3 DEF WorkersOK

(* ... each request has its one worker ... *)
LEMMA OneRequestsOK ==
  ASSUME NEW st, NEW q, NEW w, NEW k, NEW r, NEW n, Most(st), OneWorker(st, q, w, k, r, n),
         Fits(st, w, k, r, n)
  PROVE  RequestsOK(q)
<1>1. /\ DOMAIN q.work = DOMAIN st.work /\ q.work[w] = k
      /\ \A v \in DOMAIN st.work : v # w => q.work[v] = st.work[v]
      /\ w \in DOMAIN st.work /\ r \in Requests /\ Client(st.work[w]) = r
      /\ Client(k) = r \/ Client(k) = NoRequest
  BY DEF OneWorker, Changed, Fits
<1>2. /\ q.req[r] = n /\ \A a \in Requests : a # r => q.req[a] = st.req[a]
  <2>1. DOMAIN st.req = Requests
    BY Typed DEF Most
  <2> QED BY <2>1 DEF OneWorker, Changed
<1>3. \A v \in DOMAIN st.work : v # w => Client(st.work[v]) # r
  BY <1>1 DEF Most, RequestsOK
<1>4. NoRequest \notin Requests
  BY FcgiAssumption
<1>5. ASSUME NEW v \in DOMAIN q.work, NEW a \in Requests, Client(q.work[v]) = a
      PROVE  Agrees(q.work[v], q.req[a])
  <2>1. CASE v = w
    BY <1>1, <1>2, <1>4, <1>5, <2>1 DEF Fits
  <2>2. CASE v # w
    <3>1. Client(st.work[v]) = a /\ a # r
      BY <1>1, <1>3, <1>5, <2>2
    <3>2. Agrees(st.work[v], st.req[a])
      BY <1>1, <3>1 DEF Most, RequestsOK
    <3> QED BY <1>1, <1>2, <2>2, <3>1, <3>2
  <2> QED BY <2>1, <2>2
<1>6. ASSUME NEW u \in DOMAIN q.work, NEW v \in DOMAIN q.work, NEW a \in Requests,
             Client(q.work[u]) = a, Client(q.work[v]) = a
      PROVE  u = v
  <2>1. Client(st.work[u]) = a /\ Client(st.work[v]) = a
    BY <1>1, <1>4, <1>6
  <2> QED BY <1>1, <2>1 DEF Most, RequestsOK
<1>7. ASSUME NEW a \in Requests
      PROVE  Alone(q.req[a]) \/ \E v \in DOMAIN q.work : Client(q.work[v]) = a
  <2>1. CASE a = r
    BY <1>1, <1>2, <2>1 DEF Fits
  <2>2. CASE a # r
    <3>1. Alone(st.req[a]) \/ \E v \in DOMAIN st.work : Client(st.work[v]) = a
      BY DEF Most, RequestsOK
    <3>2. \A v \in DOMAIN st.work : Client(st.work[v]) = a => v # w
      BY <1>1, <2>2
    <3> QED BY <1>1, <1>2, <2>2, <3>1, <3>2
  <2> QED BY <2>1, <2>2
<1> QED BY <1>5, <1>6, <1>7 DEF RequestsOK

(* ... the idle list has the idle ones ... *)
LEMMA OneIdleOK ==
  ASSUME NEW st, NEW q, NEW w, NEW k, NEW r, NEW n, Most(st), OneWorker(st, q, w, k, r, n),
         Fits(st, w, k, r, n)
  PROVE  IdleOK(q)
<1>1. /\ DOMAIN q.work = DOMAIN st.work /\ q.work[w] = k
      /\ \A v \in DOMAIN st.work : v # w => q.work[v] = st.work[v]
      /\ w \in DOMAIN st.work /\ r \in Requests /\ Client(st.work[w]) = r
  BY DEF OneWorker, Changed, Fits
<1>2. ~Idle(st.work[w])
  BY <1>1, FcgiAssumption DEF Idle, Client
<1>3. /\ IsInjective(st.idle) /\ st \in GroupType
      /\ \A v \in Nat : v \in ToSet(st.idle) <=> v \in DOMAIN st.work /\ Idle(st.work[v])
  BY DEF Most, IdleOK
<1>4. st.idle \in Seq(Nat) /\ w \in Nat
  BY <1>1, <1>3, Typed
<1>5. w \notin ToSet(st.idle)
  BY <1>2, <1>3, <1>4
<1>6. CASE Idle(k)
  <2>1. q.idle = Append(st.idle, w)
    BY <1>6 DEF OneWorker
  <2>2. IsInjective(q.idle) /\ ToSet(q.idle) = ToSet(st.idle) \cup {w}
    BY <1>3, <1>4, <1>5, <2>1, AppendedElement
  <2> QED BY <1>1, <1>3, <1>6, <2>2 DEF IdleOK
<1>7. CASE ~Idle(k)
  <2>1. q.idle = st.idle
    BY <1>7 DEF OneWorker
  <2> QED BY <1>1, <1>2, <1>3, <1>7, <2>1 DEF IdleOK
<1> QED BY <1>6, <1>7

(* ... and the lists of every connection are right. *)
LEMMA OneSocketOK ==
  ASSUME NEW st, NEW q, NEW w, NEW k, NEW r, NEW n, Most(st), OneWorker(st, q, w, k, r, n),
         Fits(st, w, k, r, n), NEW s \in DOMAIN q.sock
  PROVE  SocketOK(q, s)
<1>1. /\ DOMAIN q.work = DOMAIN st.work /\ q.work[w] = k
      /\ \A v \in DOMAIN st.work : v # w => q.work[v] = st.work[v]
      /\ q.sock = st.sock
  BY DEF OneWorker, Changed
<1>2. /\ \A v \in DOMAIN st.work : q.work[v].socket = st.work[v].socket
      /\ \A v \in DOMAIN st.work : Queued(q.work[v]) <=> Queued(st.work[v])
  BY <1>1 DEF Fits
<1>3. SocketOK(st, s)
  BY <1>1 DEF Most
<1> QED BY <1>1, <1>2, <1>3 DEF SocketOK

(* The step of one worker keeps everything but who holds the connection. *)
LEMMA OneMost ==
  ASSUME NEW st, NEW q, NEW w, NEW k, NEW r, NEW n, Most(st), OneWorker(st, q, w, k, r, n),
         Fits(st, w, k, r, n)
  PROVE  Most(q)
<1>1. WorkersOK(q) /\ RequestsOK(q) /\ IdleOK(q) /\ \A s \in DOMAIN q.sock : SocketOK(q, s)
  BY OneWorkersOK, OneRequestsOK, OneIdleOK, OneSocketOK
<1>2. SlotsOK(q)
  BY DEF OneWorker, Most, SlotsOK
<1> QED BY <1>1, <1>2 DEF Most, OneWorker

(* ... and that too, when the worker does not begin or end an upload. *)
LEMMA OneInv ==
  ASSUME NEW st, NEW q, NEW w, NEW k, NEW r, NEW n, Inv(st), OneWorker(st, q, w, k, r, n),
         Fits(st, w, k, r, n), "POST" \in k.io <=> "POST" \in st.work[w].io
  PROVE  Inv(q)
<1>1. Most(q)
  BY OneMost DEF Inv
<1>2. /\ DOMAIN q.work = DOMAIN st.work /\ q.work[w] = k
      /\ \A v \in DOMAIN st.work : v # w => q.work[v] = st.work[v]
      /\ q.sock = st.sock
  BY DEF OneWorker, Changed
<1>3. \A v \in DOMAIN st.work, s \in DOMAIN st.sock : Uploads(q, v, s) <=> Uploads(st, v, s)
  BY <1>2 DEF Uploads, Fits
<1>4. ASSUME NEW s \in DOMAIN q.sock PROVE Held(q, s)
  <2>1. Held(st, s)
    BY <1>2 DEF Inv
  <2> QED BY <1>2, <1>3, <2>1 DEF Held
<1> QED BY <1>1, <1>4 DEF Inv

(* What is known of a worker that serves. *)
Serves(st, w) ==
  LET k == st.work[w]
  IN  /\ st \in GroupType /\ k \in WorkerType /\ ~Queued(k)
      /\ k.http \in Requests /\ Client(k) = k.http /\ k.http # NoRequest
      /\ st.req[k.http] \in RequestType /\ Agrees(k, st.req[k.http])
      /\ k.io = {"DATA"} \/ k.io = {"DATA", "POST"}
      /\ st.bad = {} /\ st.stopped = FALSE

(* What the invariant says of a worker that serves. *)
LEMMA ServingFacts ==
  ASSUME NEW st, Inv(st), NEW w \in DOMAIN st.work, Serving(st.work[w])
  PROVE  Serves(st, w)
<1>1. st \in GroupType /\ st.stopped \in BOOLEAN
  BY DEF Inv, Most, GroupType
<1>2. st.work[w] \in WorkerType
  BY <1>1, Typed
<1>3. st.work[w].http \in Requests
  BY <1>2 DEF Serving, WorkerType
<1>4. Client(st.work[w]) = st.work[w].http
  BY <1>3, FcgiAssumption DEF Client
<1>5. Agrees(st.work[w], st.req[st.work[w].http])
  BY <1>3, <1>4 DEF Inv, Most, RequestsOK
<1>6. st.work[w].io = {"DATA"} \/ st.work[w].io = {"DATA", "POST"}
  BY <1>2 DEF Serving, WorkerType
<1>7. ~Queued(st.work[w])
  BY DEF Serving, Queued
<1>8. st.req[st.work[w].http] \in RequestType
  BY <1>1, <1>3, Typed
<1>9. st.work[w].http # NoRequest
  BY <1>3, FcgiAssumption
<1> QED BY <1>1, <1>2, <1>3, <1>4, <1>5, <1>6, <1>7, <1>8, <1>9 DEF Inv, Most, Serves

(* hin_fcgi_write_callback *)
LEMMA WriteDoneInv ==
  ASSUME IInv, NEW w \in Workers, WriteDone(w)
  PROVE  IInv'
<1> DEFINE r == g.work[w].http
           k == [g.work[w] EXCEPT !.writing = FALSE, !.back = <<r>>]
<1>1. w \in DOMAIN g.work /\ Inv(g)
  BY DEF Workers, IInv
<1>2. Serving(g.work[w]) /\ Asking(g.work[w])
  <2>1. Shaped(g.work[w]) /\ g.work[w].writing
    BY <1>1 DEF Inv, Most, WorkersOK, WriteDone
  <2> QED BY <2>1 DEF Shaped, Idle, Gone, Queued, Uploading, Quiet, Serving, Answering, Ending
<1>3. /\ g \in GroupType /\ g.work[w] \in WorkerType /\ ~Queued(g.work[w])
      /\ r \in Requests /\ Client(g.work[w]) = r /\ g.req[r] \in RequestType
      /\ Agrees(g.work[w], g.req[r])
  <2>1. Serves(g, w)
    BY <1>1, <1>2, ServingFacts
  <2> QED BY <2>1 DEF Serves
<1>4. g' = SetW(g, w, k)
  <2>1. g.work[w].back = <<>> /\ r # NoRequest
    BY <1>2, <1>3, FcgiAssumption DEF Asking, WriteDone
  <2>2. Append(g.work[w].back, r) = <<r>>
    BY <2>1
  <2> QED BY <2>1, <2>2 DEF WriteDone, SetW
<1>5. /\ k \in WorkerType /\ k.socket = g.work[w].socket /\ k.io = g.work[w].io
      /\ k.http = r /\ k.pipe = g.work[w].pipe
  <2>1. <<r>> \in Seq(Requests)
    BY <1>3
  <2> QED BY <1>3, <2>1 DEF WorkerType
<1>6. Serving(k)
  BY <1>2, <1>3 DEF Serving, Asking, WorkerType
<1> HIDE DEF k
<1>7. Shaped(k) /\ Client(k) = r /\ ~Queued(k) /\ ~Idle(k) /\ Agrees(k, g.req[r])
  BY <1>3, <1>5, <1>6, FcgiAssumption DEF Shaped, Client, Queued, Idle, Agrees, Serving
<1>8. OneWorker(g, g', w, k, r, g.req[r])
  <2>1. /\ SetW(g, w, k) \in GroupType /\ Around(g, SetW(g, w, k))
        /\ SetW(g, w, k).sock = g.sock /\ SetW(g, w, k).req = g.req
        /\ Changed(g.work, SetW(g, w, k).work, w, k)
    BY <1>1, <1>3, <1>5, SetWDoes
  <2> QED BY <1>4, <1>7, <2>1 DEF OneWorker, Around, Changed
<1>9. Fits(g, w, k, r, g.req[r])
  BY <1>1, <1>3, <1>5, <1>7 DEF Fits
<1>10. Inv(g')
  BY <1>1, <1>5, <1>8, <1>9, OneInv
<1> QED BY <1>10 DEF IInv

(* The step of a worker that keeps its request and its flags. *)
LEMMA ServesOn ==
  ASSUME NEW st, Inv(st), NEW w \in DOMAIN st.work, Serving(st.work[w]),
         NEW k \in WorkerType, Serving(k), k.socket = st.work[w].socket, k.io = st.work[w].io,
         k.http = st.work[w].http, NEW n \in RequestType, Agrees(k, n),
         NEW q, q = SetR(SetW(st, w, k), k.http, n)
  PROVE  Inv(q)
<1> DEFINE r == k.http
           p == SetW(st, w, k)
           y == SetR(p, r, n)
<1>1. /\ st \in GroupType /\ ~Queued(st.work[w]) /\ r \in Requests /\ Client(st.work[w]) = r
  <2>1. Serves(st, w)
    BY ServingFacts
  <2> QED BY <2>1 DEF Serves
<1>2. Shaped(k) /\ Client(k) = r /\ ~Queued(k) /\ ~Idle(k)
  BY <1>1, FcgiAssumption DEF Shaped, Client, Queued, Idle, Serving
<1>3. /\ p \in GroupType /\ Around(st, p) /\ p.sock = st.sock /\ p.req = st.req
      /\ Changed(st.work, p.work, w, k)
  BY <1>1, SetWDoes
<1> HIDE DEF p
<1>4. /\ y \in GroupType /\ Around(p, y) /\ y.work = p.work /\ y.sock = p.sock
      /\ Changed(p.req, y.req, r, n)
  BY <1>1, <1>3, SetRDoes
<1> HIDE DEF y
<1>5. OneWorker(st, y, w, k, r, n)
  BY <1>2, <1>3, <1>4 DEF OneWorker, Around
<1>6. Fits(st, w, k, r, n)
  BY <1>1, <1>2 DEF Fits
<1>7. Inv(y)
  BY <1>5, <1>6, OneInv
<1> QED BY <1>7 DEF y, p

(* hin_fcgi_pipe_write *)
LEMMA StdoutInv ==
  ASSUME IInv, NEW w \in Workers, Stdout(w)
  PROVE  IInv'
<1> DEFINE r == g.work[w].http
<1>1. w \in DOMAIN g.work /\ Inv(g)
  BY DEF Workers, IInv
<1>2. /\ Serving(g.work[w]) /\ g.work[w].back = <<r>>
      /\ (Asking(g.work[w]) /\ ~g.work[w].writing) \/ Answering(g.work[w])
  <2>1. Shaped(g.work[w]) /\ g.work[w].back # <<>>
    BY <1>1 DEF Inv, Most, WorkersOK, Stdout, Record
  <2>2. Serving(g.work[w])
    BY <2>1 DEF Shaped, Idle, Gone, Queued, Uploading, Quiet
  <2> QED BY <2>1, <2>2 DEF Serving, Asking, Answering, Ending
<1>3. /\ g \in GroupType /\ g.work[w] \in WorkerType
      /\ r \in Requests /\ g.req[r] \in RequestType
      /\ Agrees(g.work[w], g.req[r])
  <2>1. Serves(g, w)
    BY <1>1, <1>2, ServingFacts
  <2> QED BY <2>1 DEF Serves
<1>4. g' = hin_fcgi_pipe_write(g, w, r)
  <2>1. Head(g.work[w].back) = r
    BY <1>2
  <2> QED BY <2>1 DEF Stdout
<1>5. ~(g.work[w].http # NoRequest /\ g.work[w].http # r)
  OBVIOUS
<1>6. CASE Asking(g.work[w]) /\ ~g.work[w].writing
  <2> DEFINE k == [g.work[w] EXCEPT !.header = FALSE, !.out = "open", !.pipe = TRUE,
                                    !.pipeFor = r, !.pending = TRUE]
             n == [g.req[r] EXCEPT !.begun = 1]
  <2>1. g.req[r].begun = 0
    BY <1>2, <1>3, <1>6, FcgiAssumption DEF Agrees, Asking
  <2>2. g' = [g EXCEPT !.work[w].header = FALSE, !.work[w].out = "open",
                       !.work[w].pipe = TRUE, !.work[w].pipeFor = r,
                       !.work[w].pending = TRUE, !.req[r].begun = @ + 1]
    BY <1>4, <1>5, <1>6 DEF hin_fcgi_pipe_write, Asking
  <2>3. g' = SetR(SetW(g, w, k), r, n)
    <3> DEFINE a == [g EXCEPT !.work[w].header = FALSE, !.work[w].out = "open"]
               b == [a EXCEPT !.work[w].pipe = TRUE, !.work[w].pipeFor = r]
               c == [b EXCEPT !.work[w].pending = TRUE]
               i == [g.work[w] EXCEPT !.header = FALSE, !.out = "open"]
               j == [i EXCEPT !.pipe = TRUE, !.pipeFor = r]
    <3>1. g' = [c EXCEPT !.req[r].begun = g.req[r].begun + 1]
      BY <2>2, Zenon
    <3>2. a = SetW(g, w, i)
      BY <1>1, <1>3 DEF SetW, GroupType
    <3>3. a \in GroupType /\ w \in DOMAIN a.work /\ a.work[w] = i /\ i \in WorkerType
      <4>1. i \in WorkerType
        BY <1>3 DEF WorkerType
      <4> HIDE DEF a, i
      <4> QED BY <1>1, <1>3, <3>2, <4>1, SetWDoes DEF Changed
    <3>4. b = SetW(g, w, j)
      <4> HIDE DEF a, i
      <4>1. b = SetW(a, w, j)
        BY <3>3 DEF SetW, GroupType
      <4> HIDE DEF b, j
      <4> QED BY <1>1, <1>3, <3>2, <4>1, SetWAgain
    <3> HIDE DEF a, b
    <3>5. c = SetW(b, w, [b.work[w] EXCEPT !.pending = TRUE])
      BY DEF SetW
    <3>6. j \in WorkerType
      <4> HIDE DEF i
      <4> QED BY <1>3, <3>3 DEF WorkerType
    <3>7. b.work[w] = j
      <4> HIDE DEF j
      <4> QED BY <1>1, <1>3, <3>4, <3>6, SetWDoes DEF Changed
    <3>8. [j EXCEPT !.pending = TRUE] = k
      BY <1>3 DEF WorkerType
    <3> HIDE DEF j, k, c
    <3>9. c = SetW(g, w, k)
      <4>1. c = SetW(b, w, k)
        BY <3>5, <3>7, <3>8
      <4>2. SetW(SetW(g, w, j), w, k) = SetW(g, w, k)
        BY <1>1, <1>3, SetWAgain
      <4> QED BY <3>4, <4>1, <4>2
    <3>10. c.req = g.req
      BY <3>9 DEF SetW
    <3>11. g' = SetR(c, r, n)
      BY <2>1, <3>1, <3>10 DEF SetR
    <3> QED BY <3>9, <3>11
  <2>4. /\ k \in WorkerType /\ k.socket = g.work[w].socket /\ k.io = g.work[w].io
        /\ k.http = r /\ k.pipe = TRUE
    BY <1>3 DEF WorkerType
  <2>5. n \in RequestType
    BY <1>3 DEF RequestType
  <2>6. Serving(k)
    BY <1>2, <1>3, <1>6 DEF Serving, Asking, Answering, WorkerType
  <2>7. Agrees(k, n)
    BY <1>3, <2>4, FcgiAssumption DEF Agrees, RequestType
  <2> HIDE DEF k, n
  <2>8. Inv(g')
    BY <1>1, <1>2, <2>3, <2>4, <2>5, <2>6, <2>7, ServesOn
  <2> QED BY <2>8 DEF IInv
<1>7. CASE Answering(g.work[w])
  <2> DEFINE k == [g.work[w] EXCEPT !.pending = TRUE]
  <2>1. g' = SetW(g, w, k)
    BY <1>4, <1>5, <1>7 DEF hin_fcgi_pipe_write, Answering, SetW
  <2>2. g' = SetR(SetW(g, w, k), r, g.req[r])
    <3>1. SetW(g, w, k).req = g.req /\ DOMAIN g.req = Requests
      BY <1>3, Typed DEF SetW, GroupType
    <3> QED BY <1>3, <2>1, <3>1 DEF SetR, SetW, GroupType
  <2>4. /\ k \in WorkerType /\ k.socket = g.work[w].socket /\ k.io = g.work[w].io
        /\ k.http = r /\ k.pipe = g.work[w].pipe
    BY <1>3 DEF WorkerType
  <2>6. Serving(k)
    BY <1>2, <1>3, <1>7 DEF Serving, Answering, WorkerType
  <2>7. Agrees(k, g.req[r])
    BY <1>3, <2>4, FcgiAssumption DEF Agrees
  <2> HIDE DEF k
  <2>8. Inv(g')
    BY <1>1, <1>2, <1>3, <2>2, <2>4, <2>6, <2>7, ServesOn
  <2> QED BY <2>8 DEF IInv
<1> QED BY <1>2, <1>6, <1>7

----------------------------------------------------------------------------
(* The end of a response. *)

(* Worker w has written all of the answer to r. *)
Finishes(st, w, r) ==
  /\ st \in GroupType /\ w \in DOMAIN st.work /\ r \in Requests /\ st.stopped = FALSE
  /\ LET k == st.work[w]
         q == st.req[r]
     IN  /\ k.http = r /\ k.pipeFor = r /\ (k.io = {"DATA"} \/ k.io = {"DATA", "POST"})
         /\ k.upload = IF "POST" \in k.io THEN r ELSE NoRequest
         /\ ~k.header /\ k.out = "none" /\ ~k.writing /\ ~k.pending /\ k.back = <<>>
         /\ ~k.freed /\ k.socket # None
         /\ q.flags = {"DATA", "FCGI"} \cup (k.io \cap {"POST"}) /\ q.begun = 1
         /\ ~q.raw /\ q.ended = 0

(* The worker without a response pipe, with flags io. *)
Unpiped(k, io) ==
  [k EXCEPT !.http = NoRequest, !.io = io, !.pipe = FALSE, !.pipeFor = NoRequest]

(* hin_fcgi_pipe_finish_callback before the worker is reset. *)
Unpipe(st, w, r) ==
  [st EXCEPT !.req[r].flags = @ \ {"FCGI"},
             !.work[w].http = NoRequest, !.work[w].io = @ \ {"DATA"},
             !.work[w].pipe = FALSE, !.work[w].pipeFor = NoRequest]

(* hin_fcgi_pipe_finish_callback lets go of the client: the worker ... *)
LEMMA UnpipedType ==
  ASSUME NEW k \in WorkerType, NEW io \in SUBSET {"DATA", "POST", "END"}
  PROVE  /\ Unpiped(k, io) \in WorkerType
         /\ Unpiped(k, io).io = io /\ Unpiped(k, io).http = NoRequest
<1>1. NoRequest \in Requests \cup {NoRequest}
  OBVIOUS
<1>2. [k EXCEPT !.http = NoRequest, !.io = io] \in WorkerType
  BY <1>1 DEF WorkerType
<1>3. \A j \in WorkerType : [j EXCEPT !.pipe = FALSE, !.pipeFor = NoRequest] \in WorkerType
  BY <1>1 DEF WorkerType
<1>4. Unpiped(k, io) = [[k EXCEPT !.http = NoRequest, !.io = io] EXCEPT !.pipe = FALSE, !.pipeFor = NoRequest]
  BY Zenon DEF Unpiped
<1>5. Unpiped(k, io) \in WorkerType
  BY <1>2, <1>3, <1>4, Zenon
<1>7. Unpiped(k, io).io = io /\ Unpiped(k, io).http = NoRequest
  BY DEF Unpiped, WorkerType
<1> QED BY <1>5, <1>7

(* ... and the group. *)
LEMMA UnpipeDoes ==
  ASSUME NEW st, NEW w, NEW r, Finishes(st, w, r)
  PROVE  Unpipe(st, w, r) = SetW(SetR(st, r, Flagged(st.req[r], st.req[r].flags \ {"FCGI"})), w,
                                 Unpiped(st.work[w], st.work[w].io \ {"DATA"}))
<1> DEFINE n == Flagged(st.req[r], st.req[r].flags \ {"FCGI"})
           o == st.work[w].io \ {"DATA"}
           a == SetR(st, r, n)
           b == [a EXCEPT !.work[w].http = NoRequest, !.work[w].io = o]
           c == [b EXCEPT !.work[w].pipe = FALSE, !.work[w].pipeFor = NoRequest]
           i == [st.work[w] EXCEPT !.http = NoRequest, !.io = o]
           j == [i EXCEPT !.pipe = FALSE, !.pipeFor = NoRequest]
<1>1. /\ st \in GroupType /\ w \in DOMAIN st.work /\ r \in Requests
      /\ st.work[w] \in WorkerType /\ st.req[r] \in RequestType
  BY Typed DEF Finishes
<1>2. Unpipe(st, w, r) = c
  BY Zenon DEF Unpipe, SetR, Flagged
<1>3. n \in RequestType
  BY <1>1 DEF Flagged, RequestType
<1>4. i \in WorkerType /\ j \in WorkerType
  <2>1. o \in SUBSET {"DATA", "POST", "END"} /\ NoRequest \in Requests \cup {NoRequest}
    BY <1>1 DEF WorkerType
  <2> HIDE DEF o
  <2>2. i \in WorkerType
    BY <1>1, <2>1 DEF WorkerType
  <2> HIDE DEF i
  <2>3. j \in WorkerType
    BY <2>1, <2>2 DEF WorkerType
  <2> QED BY <2>2, <2>3
<1>5. j = Unpiped(st.work[w], o)
  BY Zenon DEF Unpiped
<1> HIDE DEF n, o
<1>6. a \in GroupType /\ a.work = st.work
  BY <1>1, <1>3, SetRDoes
<1> HIDE DEF a
<1>7. b = SetW(a, w, i)
  BY <1>1, <1>6 DEF SetW, GroupType
<1> HIDE DEF i
<1>8. b \in GroupType /\ w \in DOMAIN b.work /\ b.work[w] = i
  <2> HIDE DEF b
  <2> QED BY <1>1, <1>4, <1>6, <1>7, SetWDoes DEF Changed
<1> HIDE DEF b
<1>9. c = SetW(b, w, j)
  BY <1>8 DEF SetW, GroupType
<1> HIDE DEF c, j
<1>10. SetW(SetW(a, w, i), w, j) = SetW(a, w, j)
  BY <1>1, <1>6, SetWAgain
<1>11. c = SetW(a, w, j)
  BY <1>7, <1>9, <1>10
<1> QED BY <1>2, <1>5, <1>11 DEF a, n, o

(* What the response leaves of the worker and of the request. *)
LastK(k) == Unpiped(k, IF "POST" \in k.io THEN {"POST"} ELSE {"END"})

LastR(q, post) ==
  IF post THEN [q EXCEPT !.flags = {"POST"}] ELSE [q EXCEPT !.flags = {}, !.ended = 1]

(* The answer ended before the upload: the worker stays with the upload. *)
LEMMA FinishPost ==
  ASSUME NEW st, NEW w, NEW r, Finishes(st, w, r), "POST" \in st.work[w].io
  PROVE  hin_fcgi_pipe_finish_callback(st, w) =
           SetR(SetW(st, w, LastK(st.work[w])), r, [st.req[r] EXCEPT !.flags = {"POST"}])
<1> DEFINE a == SetR(st, r, Flagged(st.req[r], {"DATA", "POST"}))
           p == SetW(a, w, LastK(st.work[w]))
           n == [st.req[r] EXCEPT !.flags = {"POST"}]
           k == LastK(st.work[w])
<1>1. /\ st \in GroupType /\ w \in DOMAIN st.work /\ r \in Requests
      /\ st.work[w] \in WorkerType /\ st.req[r] \in RequestType
      /\ st.work[w].http = r /\ st.work[w].pipeFor = r /\ r # NoRequest
      /\ st.work[w].io = {"DATA", "POST"} /\ st.req[r].ended = 0
      /\ st.req[r].flags = {"DATA", "FCGI", "POST"}
  BY Typed, FcgiAssumption DEF Finishes
<1>2. st.req[r].flags \ {"FCGI"} = {"DATA", "POST"} /\ st.work[w].io \ {"DATA"} = {"POST"}
  BY <1>1
<1>3. Unpipe(st, w, r) = p
  <2>1. Unpipe(st, w, r)
          = SetW(SetR(st, r, Flagged(st.req[r], st.req[r].flags \ {"FCGI"})), w,
                 Unpiped(st.work[w], st.work[w].io \ {"DATA"}))
    BY UnpipeDoes, Zenon
  <2>2. LastK(st.work[w]) = Unpiped(st.work[w], {"POST"})
    BY DEF LastK
  <2> QED BY <1>2, <2>1, <2>2, Zenon
<1>4. k \in WorkerType /\ k.io = {"POST"}
  <2>1. {"POST"} \in SUBSET {"DATA", "POST", "END"}
    OBVIOUS
  <2> QED BY <1>1, <2>1, UnpipedType DEF LastK
<1> HIDE DEF k
<1>5. Flagged(st.req[r], {"DATA", "POST"}) \in RequestType
  BY <1>1 DEF Flagged, RequestType
<1>6. a \in GroupType /\ a.work = st.work /\ a.req[r] = Flagged(st.req[r], {"DATA", "POST"})
  BY <1>1, <1>5, SetRDoes DEF Changed
<1> HIDE DEF a
<1>7. p \in GroupType /\ p.work[w] = k /\ p.req = a.req
  BY <1>1, <1>4, <1>6, SetWDoes DEF Changed, k
<1>8. hin_fcgi_pipe_finish_callback(st, w) = httpd_client_finish_request(hin_fcgi_worker_reset(p, w), r)
  <2> HIDE DEF p
  <2> QED BY <1>1, <1>3 DEF hin_fcgi_pipe_finish_callback, Unpipe
<1>9. hin_fcgi_worker_reset(p, w) = p
  <2> HIDE DEF p
  <2> QED BY <1>4, <1>7 DEF hin_fcgi_worker_reset
<1>10. p.req[r].ended = 0 /\ p.req[r].flags = {"DATA", "POST"}
  BY <1>1, <1>6, <1>7 DEF Flagged, RequestType
<1>11. httpd_client_finish_request(p, r) = [p EXCEPT !.req[r].flags = {"POST"}]
  <2>1. {"DATA", "POST"} \ {"DATA"} = {"POST"}
    OBVIOUS
  <2> HIDE DEF p
  <2> QED BY <1>10, <2>1 DEF httpd_client_finish_request
<1>12. [p EXCEPT !.req[r].flags = {"POST"}] = SetR(p, r, n)
  <2>1. [p.req[r] EXCEPT !.flags = {"POST"}] = n
    BY <1>1, <1>6, <1>7 DEF Flagged, RequestType
  <2> HIDE DEF p, n
  <2> QED BY <2>1 DEF SetR
<1>13. SetR(p, r, n) = SetR(SetW(st, w, k), r, n)
  <2> HIDE DEF n
  <2> QED BY <1>1, <1>4, SetRAgain DEF a, p, k
<1> QED BY <1>8, <1>9, <1>11, <1>12, <1>13 DEF k

(* The answer ended last: the worker goes to the idle list. *)
LEMMA FinishIdle ==
  ASSUME MaxSocket > 0, NEW st, NEW w, NEW r, Finishes(st, w, r), "POST" \notin st.work[w].io
  PROVE  OneWorker(st, hin_fcgi_pipe_finish_callback(st, w), w, LastK(st.work[w]), r,
                   LastR(st.req[r], FALSE))
<1> DEFINE a == SetR(st, r, Flagged(st.req[r], {"DATA"}))
           m == Unpiped(st.work[w], {})
           p == SetW(a, w, m)
           k == LastK(st.work[w])
           q == SetW(p, w, k)
           x == [q EXCEPT !.idle = Append(@, w)]
           y == [x EXCEPT !.req[r].flags = {}, !.req[r].ended = @ + 1]
           n == LastR(st.req[r], FALSE)
<1>1. /\ st \in GroupType /\ w \in DOMAIN st.work /\ r \in Requests
      /\ st.work[w] \in WorkerType /\ st.req[r] \in RequestType
      /\ st.work[w].http = r /\ st.work[w].pipeFor = r /\ r # NoRequest
      /\ st.work[w].io = {"DATA"} /\ st.req[r].ended = 0
      /\ st.req[r].flags = {"DATA", "FCGI"} /\ st.stopped = FALSE
  BY Typed, FcgiAssumption DEF Finishes
<1>2. st.req[r].flags \ {"FCGI"} = {"DATA"} /\ st.work[w].io \ {"DATA"} = {}
  BY <1>1
<1>3. Unpipe(st, w, r) = p
  <2>1. Unpipe(st, w, r)
          = SetW(SetR(st, r, Flagged(st.req[r], st.req[r].flags \ {"FCGI"})), w,
                 Unpiped(st.work[w], st.work[w].io \ {"DATA"}))
    BY UnpipeDoes, Zenon
  <2> QED BY <1>2, <2>1, Zenon
<1>4. /\ m \in WorkerType /\ m.io = {} /\ m.http = NoRequest
      /\ k \in WorkerType /\ [m EXCEPT !.io = {"END"}, !.http = NoRequest] = k
  <2>1. {} \in SUBSET {"DATA", "POST", "END"} /\ {"END"} \in SUBSET {"DATA", "POST", "END"}
    OBVIOUS
  <2>2. k = Unpiped(st.work[w], {"END"})
    BY DEF LastK
  <2>3. m \in WorkerType /\ m.io = {} /\ m.http = NoRequest
    <3> DEFINE none == {}
    <3>1. none \in SUBSET {"DATA", "POST", "END"}
      OBVIOUS
    <3> HIDE DEF none
    <3>2. /\ Unpiped(st.work[w], none) \in WorkerType
          /\ Unpiped(st.work[w], none).io = none /\ Unpiped(st.work[w], none).http = NoRequest
      BY <1>1, <3>1, UnpipedType
    <3> QED BY <3>2 DEF none
  <2>5. [m EXCEPT !.io = {"END"}, !.http = NoRequest] = Unpiped(st.work[w], {"END"})
    BY <1>1 DEF Unpiped, WorkerType
  <2>4. Unpiped(st.work[w], {"END"}) \in WorkerType
    BY <1>1, <2>1, UnpipedType
  <2> HIDE DEF m, k
  <2> QED BY <2>2, <2>3, <2>4, <2>5
<1> HIDE DEF k, m
<1>5. Flagged(st.req[r], {"DATA"}) \in RequestType
  BY <1>1 DEF Flagged, RequestType
<1>6. /\ a \in GroupType /\ a.work = st.work /\ a.req[r] = Flagged(st.req[r], {"DATA"})
      /\ Around(st, a) /\ a.sock = st.sock
      /\ Changed(st.req, a.req, r, Flagged(st.req[r], {"DATA"}))
  BY <1>1, <1>5, SetRDoes DEF Changed
<1> HIDE DEF a
<1>7. /\ p \in GroupType /\ p.work[w] = m /\ p.req = a.req /\ Around(a, p) /\ p.sock = a.sock
      /\ Changed(a.work, p.work, w, m)
  BY <1>1, <1>4, <1>6, SetWDoes DEF Changed
<1>8. hin_fcgi_pipe_finish_callback(st, w) = httpd_client_finish_request(hin_fcgi_worker_reset(p, w), r)
  <2> HIDE DEF p
  <2> QED BY <1>1, <1>3 DEF hin_fcgi_pipe_finish_callback, Unpipe
<1> HIDE DEF p
<1>9. hin_fcgi_worker_reset(p, w) = x
  <2>1. p.stopped = FALSE
    BY <1>1, <1>6, <1>7 DEF Around
  <2>2. [p EXCEPT !.work[w].io = @ \cup {"END"}, !.work[w].http = NoRequest] = q
    <3>1. p.work[w].io \cup {"END"} = {"END"}
      BY <1>4, <1>7
    <3>2. w \in DOMAIN p.work
      BY <1>1, <1>6, <1>7 DEF Changed
    <3>3. [p EXCEPT !.work[w].io = {"END"}, !.work[w].http = NoRequest] =
            SetW(p, w, [p.work[w] EXCEPT !.io = {"END"}, !.http = NoRequest])
      BY <1>7, <3>2 DEF SetW, GroupType
    <3> QED BY <1>4, <1>7, <3>1, <3>3
  <2> HIDE DEF q
  <2> QED BY <1>4, <1>7, <2>1, <2>2 DEF hin_fcgi_worker_reset
<1>10. /\ q \in GroupType /\ Around(p, q) /\ q.sock = p.sock /\ q.req = p.req
       /\ Changed(p.work, q.work, w, k)
  <2>1. w \in DOMAIN p.work
    BY <1>1, <1>6, <1>7 DEF Changed
  <2> QED BY <1>4, <1>7, <2>1, SetWDoes
<1> HIDE DEF q
<1>11. /\ x \in GroupType /\ x.sock = q.sock /\ x.work = q.work /\ x.req = q.req
       /\ x.idle = Append(q.idle, w) /\ x.slots = q.slots /\ x.stopped = q.stopped
       /\ x.bad = q.bad
  <2>1. Append(q.idle, w) \in Seq(Nat)
    BY <1>1, <1>10, Typed, AppendProperties
  <2>2. \A l \in Seq(Nat) : LET z == [q EXCEPT !.idle = l]
                            IN  /\ z \in GroupType /\ z.sock = q.sock /\ z.work = q.work
                                /\ z.req = q.req /\ z.idle = l /\ z.slots = q.slots
                                /\ z.stopped = q.stopped /\ z.bad = q.bad
    BY <1>10 DEF GroupType
  <2> QED BY <2>1, <2>2
<1> HIDE DEF x
<1>12. x.req[r] = Flagged(st.req[r], {"DATA"}) /\ x.req[r].ended = 0 /\ x.req[r].flags = {"DATA"}
  BY <1>1, <1>6, <1>7, <1>10, <1>11 DEF Flagged, RequestType
<1>13. httpd_client_finish_request(x, r) = y
  BY <1>12 DEF httpd_client_finish_request
<1>14. y = SetR(x, r, n)
  <2>1. n = [Flagged(st.req[r], {"DATA"}) EXCEPT !.flags = {}, !.ended = 1]
    BY <1>1 DEF LastR, Flagged, RequestType
  <2>2. y = SetR(x, r, [x.req[r] EXCEPT !.flags = {}, !.ended = 0 + 1])
    BY <1>1, <1>11, <1>12 DEF SetR, GroupType
  <2> HIDE DEF n, y
  <2> QED BY <1>12, <2>1, <2>2
<1>15. n \in RequestType
  BY <1>1 DEF LastR, RequestType
<1> HIDE DEF n, y
<1>16. /\ y \in GroupType /\ Around(x, y) /\ y.work = x.work /\ y.sock = x.sock
       /\ Changed(x.req, y.req, r, n)
  BY <1>1, <1>11, <1>14, <1>15, SetRDoes
<1>17. /\ y.sock = st.sock /\ y.slots = st.slots /\ y.stopped = st.stopped
       /\ y.bad = st.bad /\ y.idle = Append(st.idle, w)
  BY <1>6, <1>7, <1>10, <1>11, <1>16 DEF Around
<1>18. Changed(st.work, y.work, w, k) /\ Changed(st.req, y.req, r, n)
  BY <1>6, <1>7, <1>10, <1>11, <1>16 DEF Changed
<1>19. Idle(k)
  BY <1>1 DEF Finishes, Idle, Quiet, LastK, Unpiped, WorkerType, k
<1> QED BY <1>8, <1>9, <1>13, <1>16, <1>17, <1>18, <1>19 DEF OneWorker, k, n

(* Either way one worker and its request moved on. *)
LEMMA FinishDoes ==
  ASSUME MaxSocket > 0, NEW st, NEW w, NEW r, Finishes(st, w, r)
  PROVE  \E n : /\ OneWorker(st, hin_fcgi_pipe_finish_callback(st, w), w, LastK(st.work[w]), r, n)
                /\ IF "POST" \in st.work[w].io
                   THEN Agrees(LastK(st.work[w]), n) ELSE Alone(n)
<1> DEFINE k == LastK(st.work[w])
<1>1. /\ st \in GroupType /\ w \in DOMAIN st.work /\ r \in Requests
      /\ st.work[w] \in WorkerType /\ st.req[r] \in RequestType
  BY Typed DEF Finishes
<1>2. CASE "POST" \in st.work[w].io
  <2> DEFINE n == [st.req[r] EXCEPT !.flags = {"POST"}]
             y == SetR(SetW(st, w, k), r, n)
  <2>1. hin_fcgi_pipe_finish_callback(st, w) = y
    BY <1>2, FinishPost
  <2>2. n \in RequestType
    BY <1>1 DEF RequestType
  <2>3. k \in WorkerType /\ k.io = {"POST"} /\ k.http = NoRequest
    <3>1. {"POST"} \in SUBSET {"DATA", "POST", "END"}
      OBVIOUS
    <3> QED BY <1>1, <1>2, <3>1, UnpipedType DEF LastK
  <2>4. Agrees(k, n)
    <3>1. n.flags = {"POST"} /\ n.begun = 1 /\ n.raw = FALSE /\ n.ended = 0
      BY <1>1 DEF Finishes, RequestType
    <3> QED BY <2>3, <3>1 DEF Agrees
  <2> HIDE DEF k, n
  <2>5. OneWorker(st, y, w, k, r, n)
    <3> DEFINE p == SetW(st, w, k)
    <3>1. /\ p \in GroupType /\ Around(st, p) /\ p.sock = st.sock /\ p.req = st.req
          /\ Changed(st.work, p.work, w, k)
      BY <1>1, <2>3, SetWDoes
    <3> HIDE DEF p
    <3>2. /\ SetR(p, r, n) \in GroupType /\ Around(p, SetR(p, r, n))
          /\ SetR(p, r, n).work = p.work /\ SetR(p, r, n).sock = p.sock
          /\ Changed(p.req, SetR(p, r, n).req, r, n)
      BY <1>1, <2>2, <3>1, SetRDoes
    <3>3. ~Idle(k)
      BY <2>3 DEF Idle
    <3>4. OneWorker(st, SetR(p, r, n), w, k, r, n)
      BY <3>1, <3>2, <3>3 DEF OneWorker, Around
    <3> QED BY <3>4 DEF p
  <2> QED BY <1>2, <2>1, <2>4, <2>5 DEF k
<1>3. CASE "POST" \notin st.work[w].io
  <2> DEFINE n == LastR(st.req[r], FALSE)
  <2>1. OneWorker(st, hin_fcgi_pipe_finish_callback(st, w), w, k, r, n)
    BY <1>3, FinishIdle, Zenon
  <2>2. n = [st.req[r] EXCEPT !.flags = {}, !.ended = 1]
    BY DEF LastR
  <2>3. n.flags = {} /\ n.begun = 1 /\ n.raw = FALSE /\ n.ended = 1
    BY <1>1, <2>2 DEF Finishes, RequestType
  <2> HIDE DEF n, k
  <2>4. Alone(n)
    BY <2>3 DEF Alone
  <2> QED BY <1>3, <2>1, <2>4 DEF k
<1> QED BY <1>2, <1>3

(* A worker that serves ends its response, from a state that differs only  *)
(* in this worker. *)
LEMMA FinishInv ==
  ASSUME MaxSocket > 0, NEW st, Inv(st), NEW w \in DOMAIN st.work, Serving(st.work[w]),
         NEW k \in WorkerType, NEW p, p = SetW(st, w, k), Finishes(p, w, st.work[w].http),
         k.socket = st.work[w].socket, k.io = st.work[w].io
  PROVE  Inv(hin_fcgi_pipe_finish_callback(p, w))
<1> DEFINE r == st.work[w].http
           y == hin_fcgi_pipe_finish_callback(p, w)
           l == LastK(k)
<1>1. /\ st \in GroupType /\ ~Queued(st.work[w]) /\ r \in Requests /\ Client(st.work[w]) = r
      /\ st.work[w].io = {"DATA"} \/ st.work[w].io = {"DATA", "POST"}
  <2>1. Serves(st, w)
    BY ServingFacts
  <2> QED BY <2>1 DEF Serves
<1>2. /\ p \in GroupType /\ Around(st, p) /\ p.sock = st.sock /\ p.req = st.req
      /\ Changed(st.work, p.work, w, k)
  BY <1>1, SetWDoes, Zenon
<1>3. p.work[w] = k
  BY <1>2 DEF Changed
<1>4. PICK n : /\ OneWorker(p, y, w, l, r, n)
               /\ IF "POST" \in k.io THEN Agrees(l, n) ELSE Alone(n)
  <2>1. Finishes(p, w, r)
    OBVIOUS
  <2>2. \E n : /\ OneWorker(p, y, w, LastK(p.work[w]), r, n)
               /\ IF "POST" \in p.work[w].io THEN Agrees(LastK(p.work[w]), n) ELSE Alone(n)
    BY <2>1, FinishDoes
  <2> HIDE DEF y
  <2> QED BY <1>3, <2>2
<1> HIDE DEF y
<1>5. /\ l.io = (IF "POST" \in k.io THEN {"POST"} ELSE {"END"}) /\ l.socket = k.socket
      /\ l.http = NoRequest
  BY DEF LastK, Unpiped, WorkerType
<1>6. /\ "POST" \in k.io => Uploading(l) /\ l.upload = r
      /\ "POST" \notin k.io => Idle(l)
  <2>1. /\ k.upload = (IF "POST" \in k.io THEN r ELSE NoRequest)
        /\ ~k.header /\ k.out = "none" /\ ~k.writing /\ ~k.pending /\ k.back = <<>>
        /\ ~k.freed /\ k.socket # None
    BY <1>3 DEF Finishes
  <2>2. /\ l.upload = k.upload /\ l.header = k.header /\ l.out = k.out /\ l.writing = k.writing
        /\ l.pending = k.pending /\ l.back = k.back /\ l.freed = k.freed /\ l.pipe = FALSE
    BY DEF LastK, Unpiped, WorkerType
  <2> HIDE DEF l
  <2> QED BY <1>1, <1>5, <2>1, <2>2, FcgiAssumption DEF Uploading, Idle, Quiet
<1> HIDE DEF l
<1>7. Fits(st, w, l, r, n)
  <2>1. Shaped(l) /\ ~Queued(l)
    BY <1>5, <1>6 DEF Shaped, Queued
  <2>2. (Client(l) = r /\ Agrees(l, n)) \/ (Client(l) = NoRequest /\ Alone(n))
    BY <1>4, <1>5, <1>6 DEF Client, Idle
  <2> QED BY <1>1, <1>5, <2>1, <2>2 DEF Fits
<1>8. OneWorker(st, y, w, l, r, n)
  BY <1>2, <1>4 DEF OneWorker, Around, Changed
<1>9. "POST" \in l.io <=> "POST" \in st.work[w].io
  BY <1>5
<1>10. Inv(y)
  BY <1>7, <1>8, <1>9, OneInv
<1> QED BY <1>10 DEF y

(* hin_fcgi_pipe_end *)
LEMMA EndRequestInv ==
  ASSUME MaxSocket > 0, IInv, NEW w \in Workers, EndRequest(w)
  PROVE  IInv'
<1> DEFINE r == g.work[w].http
           a == [g EXCEPT !.work[w].back = Tail(@)]
           i == [g.work[w] EXCEPT !.back = <<>>]
           k == [i EXCEPT !.out = "none"]
           q == [a EXCEPT !.work[w].out = "none"]
<1>1. w \in DOMAIN g.work /\ Inv(g)
  BY DEF Workers, IInv
<1>2. Serving(g.work[w]) /\ Answering(g.work[w])
  <2>1. Shaped(g.work[w]) /\ g.work[w].back # <<>> /\ ~g.work[w].header
    BY <1>1 DEF Inv, Most, WorkersOK, EndRequest, Record
  <2>2. Serving(g.work[w])
    BY <2>1 DEF Shaped, Idle, Gone, Queued, Uploading, Quiet
  <2> QED BY <2>1, <2>2 DEF Serving, Asking, Answering, Ending
<1>3. /\ g \in GroupType /\ g.work[w] \in WorkerType
      /\ r \in Requests /\ r # NoRequest /\ g.req[r] \in RequestType
      /\ Agrees(g.work[w], g.req[r]) /\ g.stopped = FALSE
      /\ g.work[w].io = {"DATA"} \/ g.work[w].io = {"DATA", "POST"}
  <2>1. Serves(g, w)
    BY <1>1, <1>2, ServingFacts
  <2> QED BY <2>1 DEF Serves
<1>4. Head(g.work[w].back) = r /\ Tail(g.work[w].back) = <<>>
  BY <1>2 DEF Answering
<1>5. g' = hin_fcgi_pipe_end(a, w, r)
  BY <1>4 DEF EndRequest
<1>6. a = SetW(g, w, i)
  BY <1>4 DEF SetW
<1>7. i \in WorkerType /\ k \in WorkerType
  <2>1. <<>> \in Seq(Requests)
    OBVIOUS
  <2>2. i \in WorkerType
    BY <1>3, <2>1 DEF WorkerType
  <2> HIDE DEF i
  <2> QED BY <2>2 DEF WorkerType
<1>8. a \in GroupType /\ w \in DOMAIN a.work /\ a.work[w] = i
  <2> HIDE DEF a, i
  <2> QED BY <1>1, <1>3, <1>6, <1>7, SetWDoes DEF Changed
<1>9. q = SetW(g, w, k)
  <2> HIDE DEF a
  <2>1. q = SetW(a, w, k)
    BY <1>8 DEF SetW
  <2> HIDE DEF q, k, i
  <2>2. SetW(SetW(g, w, i), w, k) = SetW(g, w, k)
    BY <1>1, <1>3, SetWAgain
  <2> QED BY <1>6, <2>1, <2>2
<1>10. /\ i.http = r /\ i.out = "open" /\ i.pending = g.work[w].pending
  BY <1>2, <1>3 DEF Answering, WorkerType
<1>11. g' = IF g.work[w].pending THEN q ELSE hin_fcgi_pipe_finish_callback(q, w)
  <2> HIDE DEF a, i
  <2> QED BY <1>3, <1>5, <1>8, <1>10 DEF hin_fcgi_pipe_end
<1>12. /\ k.socket = g.work[w].socket /\ k.io = g.work[w].io /\ k.http = r
       /\ k.upload = g.work[w].upload /\ k.header = g.work[w].header
       /\ k.writing = g.work[w].writing /\ k.pending = g.work[w].pending
       /\ k.pipe = g.work[w].pipe /\ k.pipeFor = g.work[w].pipeFor
       /\ k.freed = g.work[w].freed /\ k.out = "none" /\ k.back = <<>>
  BY <1>3 DEF WorkerType
<1> HIDE DEF a, i, k, q
<1>13. CASE g.work[w].pending
  <2>1. Serving(k)
    BY <1>2, <1>12, <1>13 DEF Serving, Answering, Ending
  <2>2. Agrees(k, g.req[r])
    BY <1>3, <1>12 DEF Agrees
  <2>3. q = SetR(SetW(g, w, k), r, g.req[r])
    <3>1. SetW(g, w, k).req = g.req /\ SetW(g, w, k) \in GroupType
      BY <1>1, <1>3, <1>7, SetWDoes
    <3>2. SetR(q, r, g.req[r]) = q
      BY <1>3, <1>9, <3>1 DEF SetR, GroupType
    <3> QED BY <1>9, <3>2
  <2>4. Inv(q)
    BY <1>1, <1>2, <1>3, <1>7, <1>12, <2>1, <2>2, <2>3, ServesOn
  <2> QED BY <1>11, <1>13, <2>4 DEF IInv
<1>14. CASE ~g.work[w].pending
  <2>1. Finishes(q, w, r)
    <3>1. /\ q \in GroupType /\ Around(g, q) /\ q.req = g.req /\ Changed(g.work, q.work, w, k)
      BY <1>1, <1>3, <1>7, <1>9, SetWDoes
    <3>2. q.work[w] = k /\ w \in DOMAIN q.work /\ q.stopped = FALSE
      BY <1>1, <1>3, <3>1 DEF Changed, Around
    <3>3. /\ k.pipeFor = r /\ ~k.header /\ ~k.writing /\ ~k.pending /\ ~k.freed /\ k.socket # None
          /\ k.upload = (IF "POST" \in k.io THEN r ELSE NoRequest)
      BY <1>2, <1>12, <1>14 DEF Serving, Answering
    <3>4. /\ g.req[r].flags = {"DATA", "FCGI"} \cup (k.io \cap {"POST"}) /\ g.req[r].begun = 1
          /\ ~g.req[r].raw /\ g.req[r].ended = 0
      BY <1>2, <1>3, <1>12 DEF Agrees, Answering
    <3> QED BY <1>3, <1>12, <3>1, <3>2, <3>3, <3>4 DEF Finishes
  <2>2. Inv(hin_fcgi_pipe_finish_callback(q, w))
    BY <1>1, <1>2, <1>7, <1>9, <1>12, <2>1, FinishInv
  <2> QED BY <1>11, <1>14, <2>2 DEF IInv
<1> QED BY <1>13, <1>14

(* The response pipe writes what it has, and ends if the backend did. *)
LEMMA PipeWrittenInv ==
  ASSUME MaxSocket > 0, IInv, NEW w \in Workers, PipeWritten(w)
  PROVE  IInv'
<1> DEFINE r == g.work[w].http
           k == [g.work[w] EXCEPT !.pending = FALSE]
           q == [g EXCEPT !.work[w].pending = FALSE]
<1>1. w \in DOMAIN g.work /\ Inv(g)
  BY DEF Workers, IInv
<1>2. Serving(g.work[w]) /\ (Answering(g.work[w]) \/ Ending(g.work[w]))
  <2>1. Shaped(g.work[w]) /\ g.work[w].pipe
    BY <1>1 DEF Inv, Most, WorkersOK, PipeWritten
  <2>2. Serving(g.work[w])
    BY <2>1 DEF Shaped, Idle, Gone, Queued, Uploading, Quiet
  <2> QED BY <2>1, <2>2 DEF Serving, Asking
<1>3. /\ g \in GroupType /\ g.work[w] \in WorkerType
      /\ r \in Requests /\ r # NoRequest /\ g.req[r] \in RequestType
      /\ Agrees(g.work[w], g.req[r]) /\ g.stopped = FALSE
      /\ g.work[w].io = {"DATA"} \/ g.work[w].io = {"DATA", "POST"}
  <2>1. Serves(g, w)
    BY <1>1, <1>2, ServingFacts
  <2> QED BY <2>1 DEF Serves
<1>4. k \in WorkerType
  BY <1>3 DEF WorkerType
<1>5. q = SetW(g, w, k)
  BY DEF SetW
<1>6. g' = IF g.work[w].out = "open" THEN q ELSE hin_fcgi_pipe_finish_callback(q, w)
  BY DEF PipeWritten
<1>7. /\ k.socket = g.work[w].socket /\ k.io = g.work[w].io /\ k.http = r
      /\ k.upload = g.work[w].upload /\ k.header = g.work[w].header
      /\ k.writing = g.work[w].writing /\ k.pending = FALSE
      /\ k.pipe = g.work[w].pipe /\ k.pipeFor = g.work[w].pipeFor
      /\ k.freed = g.work[w].freed /\ k.out = g.work[w].out /\ k.back = g.work[w].back
  BY <1>3 DEF WorkerType
<1> HIDE DEF k, q
<1>8. CASE Answering(g.work[w])
  <2>1. Serving(k)
    BY <1>2, <1>7, <1>8 DEF Serving, Answering
  <2>2. Agrees(k, g.req[r])
    BY <1>3, <1>7 DEF Agrees
  <2>3. q = SetR(SetW(g, w, k), r, g.req[r])
    <3>1. SetW(g, w, k).req = g.req /\ SetW(g, w, k) \in GroupType
      BY <1>1, <1>3, <1>4, SetWDoes
    <3>2. SetR(q, r, g.req[r]) = q
      BY <1>3, <1>5, <3>1 DEF SetR, GroupType
    <3> QED BY <1>5, <3>2
  <2>4. Inv(q)
    BY <1>1, <1>2, <1>3, <1>4, <1>7, <2>1, <2>2, <2>3, ServesOn
  <2>5. g' = q
    BY <1>6, <1>8 DEF Answering
  <2> QED BY <2>4, <2>5 DEF IInv
<1>9. CASE Ending(g.work[w])
  <2>1. Finishes(q, w, r)
    <3>1. /\ q \in GroupType /\ Around(g, q) /\ q.req = g.req /\ Changed(g.work, q.work, w, k)
      BY <1>1, <1>3, <1>4, <1>5, SetWDoes
    <3>2. q.work[w] = k /\ w \in DOMAIN q.work /\ q.stopped = FALSE
      BY <1>1, <1>3, <3>1 DEF Changed, Around
    <3>3. /\ k.pipeFor = r /\ ~k.header /\ ~k.writing /\ ~k.pending /\ ~k.freed /\ k.socket # None
          /\ k.upload = (IF "POST" \in k.io THEN r ELSE NoRequest)
          /\ k.out = "none" /\ k.back = <<>>
      BY <1>2, <1>7, <1>9 DEF Serving, Ending
    <3>4. /\ g.req[r].flags = {"DATA", "FCGI"} \cup (k.io \cap {"POST"}) /\ g.req[r].begun = 1
          /\ ~g.req[r].raw /\ g.req[r].ended = 0
      BY <1>3, <1>7, <1>9 DEF Agrees, Ending
    <3> QED BY <1>3, <1>7, <3>1, <3>2, <3>3, <3>4 DEF Finishes
  <2>2. Inv(hin_fcgi_pipe_finish_callback(q, w))
    BY <1>1, <1>2, <1>4, <1>5, <1>7, <2>1, FinishInv
  <2>3. g' = hin_fcgi_pipe_finish_callback(q, w)
    BY <1>6, <1>9 DEF Ending
  <2> QED BY <2>2, <2>3 DEF IInv
<1> QED BY <1>2, <1>8, <1>9

----------------------------------------------------------------------------
(* Whoever waits on a connection is run. *)

(* Everything holds, if Q are the workers waiting on connection s. *)
Before(st, s, Q) ==
  /\ st \in GroupType /\ ~st.stopped /\ st.bad = {}
  /\ WorkersOK(st) /\ RequestsOK(st) /\ IdleOK(st) /\ SlotsOK(st)
  /\ \A t \in DOMAIN st.sock : t # s => SocketOK(st, t) /\ Held(st, t)
  /\ s \in DOMAIN st.sock /\ st.sock[s].state # "closed" /\ st.sock[s].peer
  /\ st.sock[s].state = "open" => st.sock[s].reading
  /\ IsInjective(st.sock[s].slots) /\ st.sock[s].slots # <<>>
  /\ st.sock[s].numWorker = Len(st.sock[s].slots)
  /\ \A w \in Nat : w \in ToSet(st.sock[s].slots) <=>
       w \in DOMAIN st.work /\ st.work[w].socket = s
  /\ Q \subseteq Nat
  /\ \A w \in Nat : w \in Q <=>
       w \in DOMAIN st.work /\ st.work[w].socket = s /\ Queued(st.work[w])

(* Nobody has the connection. *)
Free(st, s) ==
  st.sock[s].state = "open" /\ \A v \in DOMAIN st.work : ~Uploads(st, v, s)

(* The worker that ran, with an upload or not. *)
RanOK(k, n, up) ==
  /\ n.http = k.http /\ n.socket = k.socket /\ Serving(n) /\ ~Queued(n) /\ ~Idle(n)
  /\ Client(n) = k.http /\ Client(k) = k.http /\ n.pipe = FALSE
  /\ n.io \cap {"POST"} = IF up THEN {"POST"} ELSE {}

(* A worker that runs is serving. *)
LEMMA RanFacts ==
  ASSUME NEW k \in WorkerType, Queued(k), NEW up \in BOOLEAN
  PROVE  RanOK(k, Ran(k, up), up)
<1> DEFINE o == {"DATA"} \cup (IF up THEN {"POST"} ELSE {})
           u == IF up THEN k.http ELSE NoRequest
           n == [k EXCEPT !.io = o, !.upload = u, !.writing = TRUE, !.header = TRUE]
<1>1. Ran(k, up) = n
  BY DEF Ran
<1>2. /\ n.io = o /\ n.upload = u /\ n.writing = TRUE /\ n.header = TRUE
      /\ n.socket = k.socket /\ n.freed = k.freed /\ n.http = k.http /\ n.out = k.out
      /\ n.pipe = k.pipe /\ n.pipeFor = k.pipeFor /\ n.pending = k.pending /\ n.back = k.back
  BY DEF WorkerType
<1>3. k.pipe = FALSE
  BY DEF Queued, Quiet, WorkerType
<1> HIDE DEF n
<1>4. "DATA" \in n.io /\ "END" \notin n.io /\ ("POST" \in n.io <=> up)
  BY <1>2
<1>5. n.io \cap {"POST"} = IF up THEN {"POST"} ELSE {}
  BY <1>2
<1>6. Serving(n)
  BY <1>2, <1>3, <1>4 DEF Serving, Asking, Queued, Quiet
<1>7. ~Queued(n) /\ ~Idle(n)
  BY <1>4 DEF Queued, Idle
<1>8. Client(n) = k.http /\ Client(k) = k.http
  BY <1>2 DEF Client, Queued
<1> QED BY <1>1, <1>2, <1>3, <1>5, <1>6, <1>7, <1>8 DEF RanOK

(* The workers of R ran, the others did not. *)
Stage(st, q, R) ==
  /\ DOMAIN q.work = DOMAIN st.work
  /\ \A v \in R : /\ v \in DOMAIN st.work /\ Queued(st.work[v]) /\ st.work[v].http \in Requests
                  /\ RanOK(st.work[v], q.work[v], Up(st, v))
  /\ \A v \in DOMAIN st.work : v \notin R => q.work[v] = st.work[v]

(* The loop runs workers that waited, on its own connection. *)
LEMMA DrainsStage ==
  ASSUME NEW st, NEW q, NEW s, NEW Q, NEW R, Before(st, s, Q), Drains(st, q, s, Q, R)
  PROVE  Stage(st, q, R) /\ \A v \in R : st.work[v].socket = s
<1>1. R \subseteq Q /\ Q \subseteq Nat /\ st \in GroupType
  BY DEF Drains, Before
<1>2. \A v \in R : v \in DOMAIN st.work /\ st.work[v].socket = s /\ Queued(st.work[v])
  BY <1>1 DEF Before
<1>3. \A v \in DOMAIN st.work : st.work[v] \in WorkerType
  BY <1>1, Typed
<1>4. \A v \in R : st.work[v].http \in Requests
  BY <1>2, <1>3 DEF Queued, WorkerType
<1>5. ASSUME NEW v \in R
      PROVE  RanOK(st.work[v], q.work[v], Up(st, v))
  <2>1. q.work[v] = Ran(st.work[v], Up(st, v))
    BY <1>2, <1>5 DEF Drains
  <2>2. Up(st, v) \in BOOLEAN
    BY DEF Up
  <2> DEFINE up == Up(st, v)
  <2> HIDE DEF up
  <2>3. RanOK(st.work[v], Ran(st.work[v], up), up)
    BY <1>2, <1>3, <1>5, <2>2, RanFacts DEF up
  <2> QED BY <2>1, <2>3 DEF up
<1>6. DOMAIN q.work = DOMAIN st.work /\ \A v \in DOMAIN st.work : v \notin R => q.work[v] = st.work[v]
  BY DEF Drains
<1> QED BY <1>2, <1>4, <1>5, <1>6 DEF Stage

(* The loop keeps the workers in their stages ... *)
LEMMA DrainWorkers ==
  ASSUME NEW st, NEW q, NEW s, NEW Q, NEW R, Before(st, s, Q), Free(st, s),
         Drains(st, q, s, Q, R)
  PROVE  WorkersOK(q) /\ IdleOK(q)
<1>1. Stage(st, q, R) /\ \A v \in R : st.work[v].socket = s
  BY DrainsStage
<1>2. \A v \in DOMAIN q.work : Shaped(q.work[v])
  BY <1>1 DEF Stage, RanOK, Before, WorkersOK, Shaped
<1>3. \A v \in DOMAIN q.work : q.work[v].socket = st.work[v].socket
  BY <1>1 DEF Stage, RanOK
<1>4. /\ DOMAIN q.sock = DOMAIN st.sock
      /\ \A t \in DOMAIN st.sock : q.sock[t].state = st.sock[t].state
  BY DEF Drains, SameSocket
<1>5. ASSUME NEW v \in DOMAIN q.work, q.work[v].socket # None
      PROVE  /\ q.work[v].socket \in DOMAIN q.sock /\ q.sock[q.work[v].socket].state # "closed"
             /\ q.sock[q.work[v].socket].state = "connecting" => Queued(q.work[v])
  <2>1. v \in DOMAIN st.work
    BY <1>1 DEF Stage
  <2>2. /\ st.work[v].socket \in DOMAIN st.sock /\ st.sock[st.work[v].socket].state # "closed"
        /\ st.sock[st.work[v].socket].state = "connecting" => Queued(st.work[v])
    BY <1>3, <1>5, <2>1 DEF Before, WorkersOK
  <2>3. q.work[v].socket = st.work[v].socket
    BY <1>3
  <2>4. CASE v \in R
    BY <1>1, <1>4, <2>2, <2>3, <2>4 DEF Free
  <2>5. CASE v \notin R
    BY <1>1, <1>4, <2>1, <2>2, <2>3, <2>5 DEF Stage
  <2> QED BY <2>4, <2>5
<1>6. \A v \in DOMAIN st.work : Idle(q.work[v]) <=> Idle(st.work[v])
  <2>1. \A k : Queued(k) => ~Idle(k)
    BY DEF Queued, Idle
  <2> QED BY <1>1, <2>1 DEF Stage, RanOK
<1>7. IdleOK(q)
  BY <1>1, <1>6 DEF IdleOK, Before, Drains, Around, Stage
<1> QED BY <1>2, <1>5, <1>7 DEF WorkersOK

(* ... the requests with their workers ... *)
LEMMA DrainRequests ==
  ASSUME NEW st, NEW q, NEW s, NEW Q, NEW R, Before(st, s, Q), Drains(st, q, s, Q, R)
  PROVE  RequestsOK(q)
<1>1. Stage(st, q, R)
  BY DrainsStage
<1>2. DOMAIN q.work = DOMAIN st.work /\ \A v \in DOMAIN q.work : Client(q.work[v]) = Client(st.work[v])
  BY <1>1 DEF Stage, RanOK
<1>3. st \in GroupType /\ \A r \in Requests : st.req[r] \in RequestType
  BY Typed DEF Before
<1>4. ASSUME NEW v \in DOMAIN q.work, NEW r \in Requests, Client(q.work[v]) = r
      PROVE  Agrees(q.work[v], q.req[r])
  <2>1. v \in DOMAIN st.work /\ Client(st.work[v]) = r /\ Agrees(st.work[v], st.req[r])
    BY <1>2, <1>4 DEF Before, RequestsOK
  <2>2. \A u \in R : st.work[u].http = r => u = v
    <3> SUFFICES ASSUME NEW u \in R, st.work[u].http = r PROVE u = v
      OBVIOUS
    <3>1. u \in DOMAIN st.work /\ Client(st.work[u]) = r
      BY <1>1 DEF Stage, RanOK
    <3> QED BY <2>1, <3>1 DEF Before, RequestsOK
  <2>3. CASE v \in R /\ Up(st, v)
    <3>1. Queued(st.work[v]) /\ RanOK(st.work[v], q.work[v], Up(st, v)) /\ st.work[v].http = r
      BY <1>1, <2>1, <2>3 DEF Stage, RanOK
    <3>2. q.req[r] = [st.req[r] EXCEPT !.flags = {"DATA", "FCGI", "POST"}]
      BY <2>3, <3>1 DEF Drains
    <3>3. /\ q.req[r].flags = {"DATA", "FCGI", "POST"} /\ q.req[r].begun = st.req[r].begun
          /\ q.req[r].raw = st.req[r].raw /\ q.req[r].ended = st.req[r].ended
      BY <1>3, <3>2 DEF RequestType
    <3>4. q.work[v].io \cap {"POST"} = {"POST"} /\ q.work[v].http = r /\ q.work[v].pipe = FALSE
      BY <2>3, <3>1 DEF RanOK
    <3>5. ~st.req[r].raw /\ st.req[r].ended = 0 /\ st.req[r].begun = 0
      BY <2>1, <3>1 DEF Agrees, Queued, Quiet
    <3>6. r # NoRequest
      BY FcgiAssumption
    <3> QED BY <3>3, <3>4, <3>5, <3>6 DEF Agrees
  <2>4. CASE v \in R /\ ~Up(st, v)
    <3>1. Queued(st.work[v]) /\ RanOK(st.work[v], q.work[v], Up(st, v)) /\ st.work[v].http = r
      BY <1>1, <2>1, <2>4 DEF Stage, RanOK
    <3>2. q.req[r] = st.req[r]
      <4>1. ~ \E u \in R : Up(st, u) /\ st.work[u].http = r
        BY <2>2, <2>4
      <4> QED BY <4>1 DEF Drains
    <3>3. q.work[v].io \cap {"POST"} = {} /\ q.work[v].http = r /\ q.work[v].pipe = FALSE
      BY <2>4, <3>1 DEF RanOK
    <3>4. ~st.req[r].raw /\ st.req[r].ended = 0 /\ st.req[r].begun = 0 /\ st.req[r].flags = {"DATA", "FCGI"}
      BY <2>1, <3>1 DEF Agrees, Queued, Quiet
    <3>5. r # NoRequest
      BY FcgiAssumption
    <3> QED BY <3>2, <3>3, <3>4, <3>5 DEF Agrees
  <2>5. CASE v \notin R
    <3>1. q.work[v] = st.work[v] /\ q.req[r] = st.req[r]
      <4>1. ~ \E u \in R : Up(st, u) /\ st.work[u].http = r
        BY <2>2, <2>5
      <4>2. q.req[r] = st.req[r]
        BY <4>1 DEF Drains
      <4> QED BY <1>1, <2>1, <2>5, <4>2 DEF Stage
    <3> QED BY <2>1, <3>1
  <2> QED BY <2>3, <2>4, <2>5
<1>5. \A u, v \in DOMAIN q.work, r \in Requests :
        Client(q.work[u]) = r /\ Client(q.work[v]) = r => u = v
  BY <1>2 DEF Before, RequestsOK
<1>6. ASSUME NEW r \in Requests
      PROVE  Alone(q.req[r]) \/ \E v \in DOMAIN q.work : Client(q.work[v]) = r
  <2>1. CASE \E v \in DOMAIN st.work : Client(st.work[v]) = r
    BY <1>2, <2>1
  <2>2. CASE ~ \E v \in DOMAIN st.work : Client(st.work[v]) = r
    <3>1. ~ \E v \in R : st.work[v].http = r
      BY <1>1, <2>2 DEF Stage, RanOK
    <3>2. q.req[r] = st.req[r]
      BY <3>1 DEF Drains
    <3> QED BY <2>2, <3>2 DEF Before, RequestsOK
  <2> QED BY <2>1, <2>2
<1> QED BY <1>4, <1>5, <1>6 DEF RequestsOK

(* ... the lists of the connections ... *)
LEMMA DrainSockets ==
  ASSUME NEW st, NEW q, NEW s, NEW Q, NEW R, Before(st, s, Q), Drains(st, q, s, Q, R)
  PROVE  SlotsOK(q) /\ \A t \in DOMAIN q.sock : SocketOK(q, t)
<1>1. Stage(st, q, R) /\ \A v \in R : st.work[v].socket = s
  BY DrainsStage
<1>2. /\ DOMAIN q.sock = DOMAIN st.sock /\ SameSocket(st.sock[s], q.sock[s])
      /\ \A t \in DOMAIN st.sock : t # s => q.sock[t] = st.sock[t]
      /\ q.slots = st.slots
  BY DEF Drains, Around
<1>3. /\ DOMAIN q.work = DOMAIN st.work
      /\ \A v \in DOMAIN q.work : q.work[v].socket = st.work[v].socket
      /\ \A v \in DOMAIN q.work : Queued(q.work[v]) <=> Queued(st.work[v]) /\ v \notin R
  BY <1>1 DEF Stage, RanOK
<1>4. SlotsOK(q)
  BY <1>2 DEF SlotsOK, Before, SameSocket
<1>5. ASSUME NEW t \in DOMAIN q.sock, t # s PROVE SocketOK(q, t)
  <2>1. SocketOK(st, t) /\ q.sock[t] = st.sock[t]
    BY <1>2, <1>5 DEF Before
  <2>2. \A v \in DOMAIN q.work : q.work[v].socket = t => v \notin R
    BY <1>1, <1>3, <1>5
  <2> QED BY <1>3, <2>1, <2>2 DEF SocketOK
<1>6. SocketOK(q, s)
  <2>1. /\ q.sock[s].peer /\ (q.sock[s].state = "open" => q.sock[s].reading)
        /\ IsInjective(q.sock[s].slots) /\ q.sock[s].slots = st.sock[s].slots
        /\ q.sock[s].numWorker = Len(q.sock[s].slots) /\ q.sock[s].slots # <<>>
    BY <1>2 DEF SameSocket, Before
  <2>2. IsInjective(q.sock[s].que) /\ ToSet(q.sock[s].que) = Q \ R
    BY DEF Drains
  <2>3. \A w \in Nat : w \in ToSet(q.sock[s].que) <=>
           w \in DOMAIN q.work /\ q.work[w].socket = s /\ Queued(q.work[w])
    BY <1>3, <2>2 DEF Before
  <2>4. \A w \in Nat : w \in ToSet(q.sock[s].slots) <=> w \in DOMAIN q.work /\ q.work[w].socket = s
    BY <1>3, <2>1 DEF Before
  <2> QED BY <2>1, <2>2, <2>3, <2>4 DEF SocketOK
<1> QED BY <1>4, <1>5, <1>6

(* ... and the flag busy, which the first upload takes. *)
LEMMA DrainHeld ==
  ASSUME NEW st, NEW q, NEW s, NEW Q, NEW R, Before(st, s, Q), Free(st, s),
         Drains(st, q, s, Q, R), NEW t \in DOMAIN q.sock
  PROVE  Held(q, t)
<1>1. Stage(st, q, R) /\ \A v \in R : st.work[v].socket = s
  BY DrainsStage
<1>2. /\ DOMAIN q.work = DOMAIN st.work
      /\ \A v \in DOMAIN q.work : q.work[v].socket = st.work[v].socket
      /\ \A v \in R : "POST" \in q.work[v].io <=> Up(st, v)
      /\ \A v \in DOMAIN q.work : v \notin R => q.work[v] = st.work[v]
  BY <1>1 DEF Stage, RanOK
<1>3. CASE t # s
  <2>1. Held(st, t) /\ q.sock[t] = st.sock[t]
    BY <1>3 DEF Before, Drains
  <2>2. \A v \in DOMAIN q.work : Uploads(q, v, t) <=> Uploads(st, v, t)
    BY <1>1, <1>2, <1>3 DEF Uploads
  <2> QED BY <1>2, <2>1, <2>2 DEF Held
<1>4. CASE t = s
  <2>1. \A v \in DOMAIN q.work : Uploads(q, v, s) <=> v \in R /\ Up(st, v)
    BY <1>1, <1>2 DEF Uploads, Free
  <2>2. q.sock[s].state = "open"
    BY DEF Drains, SameSocket, Free
  <2>3. q.sock[s].busy <=> \E v \in DOMAIN q.work : Uploads(q, v, s)
    <3>1. R \subseteq DOMAIN q.work
      BY <1>1, <1>2 DEF Stage
    <3> QED BY <2>1, <3>1 DEF Drains
  <2>4. \A u, v \in DOMAIN q.work : Uploads(q, u, s) /\ Uploads(q, v, s) => u = v
    BY <2>1 DEF Drains
  <2>5. q.sock[s].que # <<>> => q.sock[s].busy
    <3> SUFFICES ASSUME ~q.sock[s].busy PROVE q.sock[s].que = <<>>
      OBVIOUS
    <3>1. q \in GroupType /\ s \in DOMAIN q.sock
      BY <1>4 DEF Drains
    <3>2. q.sock[s] \in SocketType
      BY <3>1, Typed
    <3>3. q.sock[s].busy = FALSE /\ q.sock[s].que \in Seq(Nat)
      BY <3>2 DEF SocketType
    <3>4. ToSet(q.sock[s].que) = {}
      BY <3>3 DEF Drains
    <3> QED BY <3>3, <3>4, NoElements
  <2> QED BY <1>4, <2>2, <2>3, <2>4, <2>5 DEF Held
<1> QED BY <1>3, <1>4

(* So it keeps the invariant. *)
LEMMA DrainInv ==
  ASSUME NEW st, NEW q, NEW s, NEW Q, NEW R, Before(st, s, Q), Free(st, s),
         Drains(st, q, s, Q, R)
  PROVE  Inv(q)
<1>1. WorkersOK(q) /\ IdleOK(q)
  BY DrainWorkers
<1>2. RequestsOK(q)
  BY DrainRequests
<1>3. SlotsOK(q) /\ \A t \in DOMAIN q.sock : SocketOK(q, t)
  BY DrainSockets
<1>4. \A t \in DOMAIN q.sock : Held(q, t)
  BY DrainHeld
<1>5. q \in GroupType /\ ~q.stopped /\ q.bad = {}
  BY DEF Before, Drains, Around
<1> QED BY <1>1, <1>2, <1>3, <1>4, <1>5 DEF Inv, Most

(* The workers waiting on a free connection can be run. *)
LEMMA BeforeReady ==
  ASSUME NEW st, NEW s, NEW Q, Before(st, s, Q), st.sock[s].busy = FALSE,
         IsInjective(st.sock[s].que), ToSet(st.sock[s].que) \subseteq Q
  PROVE  Ready(st, s) /\ \A w \in Q \ ToSet(st.sock[s].que) : Comes(st, s, w)
<1>1. /\ st \in GroupType /\ s \in DOMAIN st.sock /\ Q \subseteq Nat
      /\ \A w \in Q : w \in DOMAIN st.work /\ st.work[w].socket = s /\ Queued(st.work[w])
  BY DEF Before
<1>2. \A w \in Q : st.work[w].http \in Requests /\ Client(st.work[w]) = st.work[w].http
  <2>1. \A w \in Q : st.work[w] \in WorkerType
    BY <1>1, Typed
  <2> QED BY <1>1, <2>1 DEF Queued, WorkerType, Client
<1>3. \A w \in Q : st.req[st.work[w].http].flags = {"DATA", "FCGI"}
  <2>1. \A w \in Q : Agrees(st.work[w], st.req[st.work[w].http])
    BY <1>1, <1>2 DEF Before, RequestsOK
  <2> QED BY <1>1, <2>1 DEF Agrees, Queued
<1>4. \A w \in Q : Waiting(st, s, w)
  BY <1>1, <1>3 DEF Waiting
<1>5. \A u, v \in Q : st.work[u].http = st.work[v].http => u = v
  BY <1>1, <1>2 DEF Before, RequestsOK
<1>6. Ready(st, s)
  BY <1>1, <1>4, <1>5 DEF Ready, Before
<1>7. \A w \in Q \ ToSet(st.sock[s].que) : Comes(st, s, w)
  BY <1>4, <1>5, <1>6 DEF Comes
<1> QED BY <1>6, <1>7

(* The list of waiting workers is within the turns of the loop. *)
LEMMA LoopEnough ==
  ASSUME NEW g0 \in GroupType, NEW st, NEW s, Ready(st, s), DOMAIN st.work = DOMAIN g0.work
  PROVE  Works(Loop(g0), Len(st.sock[s].que))
<1> DEFINE l == st.sock[s].que
<1>1. st \in GroupType /\ s \in DOMAIN st.sock /\ IsInjective(l) /\ ToSet(l) \subseteq DOMAIN g0.work
  BY DEF Ready, Waiting
<1>2. st.sock[s] \in SocketType
  BY <1>1, Typed
<1>3. l \in Seq(Nat)
  BY <1>2 DEF SocketType
<1>4. Len(l) \in 0 .. Len(g0.work) /\ Len(g0.work) \in Nat
  BY <1>1, <1>3, ShortList, Typed
<1>5. Len(l) \in 0 .. (Len(g0.work) + 1)
  BY <1>4
<1> QED BY <1>5, LoopWorks

(* Everything holds: the workers on the list of s are those that wait. *)
LEMMA InvBefore ==
  ASSUME NEW st, Inv(st), NEW s \in DOMAIN st.sock, st.sock[s].state # "closed"
  PROVE  Before(st, s, ToSet(st.sock[s].que)) /\ IsInjective(st.sock[s].que)
<1>1. Most(st) /\ SocketOK(st, s) /\ st \in GroupType
  BY DEF Inv, Most
<1>2. st.sock[s] \in SocketType
  BY <1>1, Typed
<1>3. ToSet(st.sock[s].que) \subseteq Nat
  BY <1>2, Elements DEF SocketType
<1> QED BY <1>1, <1>3 DEF Before, Inv, Most, SocketOK

(* ... and the same when the connection only changes its state. *)
LEMMA BeforeSet ==
  ASSUME NEW st, NEW s, NEW Q, Before(st, s, Q), NEW k \in SocketType,
         k.state # "closed", k.peer, k.state = "open" => k.reading,
         k.state = "open" \/ k.state = st.sock[s].state,
         k.slots = st.sock[s].slots, k.id = st.sock[s].id,
         k.numWorker = st.sock[s].numWorker
  PROVE  Before(SetS(st, s, k), s, Q)
<1> DEFINE q == SetS(st, s, k)
<1>1. st \in GroupType /\ s \in DOMAIN st.sock
  BY DEF Before
<1>2. /\ q \in GroupType /\ Around(st, q) /\ q.work = st.work /\ q.req = st.req
      /\ DOMAIN q.sock = DOMAIN st.sock /\ q.sock[s] = k
      /\ \A t \in DOMAIN st.sock : t # s => q.sock[t] = st.sock[t]
  <2>1. /\ q \in GroupType /\ Around(st, q) /\ q.work = st.work /\ q.req = st.req
        /\ Changed(st.sock, q.sock, s, k)
    BY <1>1, SetSDoes
  <2> QED BY <2>1 DEF Changed
<1> HIDE DEF q
<1>3. WorkersOK(q)
  <2>1. WorkersOK(st) /\ st.sock[s].state # "closed"
    BY DEF Before
  <2>2. \A t \in DOMAIN st.sock :
          /\ st.sock[t].state # "closed" => q.sock[t].state # "closed"
          /\ q.sock[t].state = "connecting" => st.sock[t].state = "connecting"
    BY <1>1, <1>2, <2>1
  <2> QED BY <1>2, <2>1, <2>2 DEF WorkersOK
<1>4. RequestsOK(q) /\ IdleOK(q)
  BY <1>2 DEF Before, RequestsOK, IdleOK, Around
<1>5. SlotsOK(q)
  BY <1>2 DEF Before, SlotsOK, Around
<1>6. \A t \in DOMAIN q.sock : t # s => SocketOK(q, t) /\ Held(q, t)
  BY <1>2 DEF Before, SocketOK, Held, Uploads
<1>7. Before(q, s, Q)
  BY <1>2, <1>3, <1>4, <1>5, <1>6 DEF Before, Around
<1> QED BY <1>7 DEF q

(* hin_fcgi_connect_callback *)
LEMMA ConnectedInv ==
  ASSUME IInv, NEW s \in Sockets, Connected(s)
  PROVE  IInv'
<1> DEFINE Q == ToSet(g.sock[s].que)
           k == [g.sock[s] EXCEPT !.state = "open", !.reading = TRUE, !.busy = FALSE]
           q == SetS(g, s, k)
           a == [g EXCEPT !.sock[s].state = "open", !.sock[s].reading = TRUE]
<1>1. Inv(g) /\ s \in DOMAIN g.sock /\ g \in GroupType /\ g.sock[s].state = "connecting"
  BY DEF IInv, Inv, Most, Sockets, Connected
<1>2. g.sock[s] \in SocketType /\ s \in Nat
  BY <1>1, Typed
<1>3. Before(g, s, Q) /\ IsInjective(g.sock[s].que)
  BY <1>1, InvBefore
<1>4. /\ k \in SocketType /\ k.state = "open" /\ k.reading = TRUE /\ k.busy = FALSE
      /\ k.peer = g.sock[s].peer /\ k.slots = g.sock[s].slots /\ k.id = g.sock[s].id
      /\ k.que = g.sock[s].que /\ k.numWorker = g.sock[s].numWorker
  BY <1>2 DEF SocketType
<1>5. g' = Loop(g)[<<q, s, First(g.sock[s].que)>>]
  <2> DEFINE i == [g.sock[s] EXCEPT !.state = "open", !.reading = TRUE]
  <2>1. a = SetS(g, s, i)
    BY <1>1 DEF SetS, GroupType
  <2>4. i \in SocketType /\ i.que = g.sock[s].que /\ [i EXCEPT !.busy = FALSE] = k
    BY <1>2 DEF SocketType
  <2>2. [a EXCEPT !.sock[s].busy = FALSE] = q /\ a.sock[s].que = g.sock[s].que
    <3> HIDE DEF a, i, k
    <3>1. a.sock[s] = i
      BY <1>1, <2>1, <2>4, SetSDoes DEF Changed
    <3>2. [a EXCEPT !.sock[s].busy = FALSE] = SetS(a, s, [a.sock[s] EXCEPT !.busy = FALSE])
      BY DEF SetS
    <3>3. SetS(SetS(g, s, i), s, k) = q
      BY <1>1, SetSAgain
    <3> QED BY <2>1, <2>4, <3>1, <3>2, <3>3
  <2>3. g' = hin_fcgi_socket_continue(Loop(g), a, s)
    BY DEF Connected
  <2> HIDE DEF a, q
  <2> QED BY <2>2, <2>3 DEF hin_fcgi_socket_continue, First
<1> HIDE DEF k
<1>6. Before(q, s, Q)
  <2>1. g.sock[s].peer
    BY <1>3 DEF Before
  <2> QED BY <1>3, <1>4, <2>1, BeforeSet
<1>7. q.work = g.work /\ q.sock[s] = k
  BY <1>1, <1>4, SetSDoes DEF Changed
<1> HIDE DEF q
<1>8. Ready(q, s)
  BY <1>3, <1>4, <1>6, <1>7, BeforeReady
<1>9. Works(Loop(g), Len(q.sock[s].que))
  BY <1>1, <1>7, <1>8, LoopEnough
<1>10. PICK R : Drains(q, g', s, Q, R)
  <2>1. \E R : Drains(q, Loop(g)[<<q, s, First(q.sock[s].que)>>], s, ToSet(q.sock[s].que), R)
    BY <1>8, <1>9 DEF Works
  <2> QED BY <1>4, <1>5, <1>7, <2>1
<1>11. Free(q, s)
  <2>1. \A v \in DOMAIN g.work : g.work[v].socket = s => g.work[v].io = {}
    BY <1>1, Typed DEF Inv, Most, WorkersOK, Queued
  <2> QED BY <1>4, <1>7, <2>1 DEF Free, Uploads
<1>12. Inv(g')
  BY <1>6, <1>10, <1>11, DrainInv
<1> QED BY <1>12 DEF IInv

----------------------------------------------------------------------------
(* The end of an upload. *)

(* One worker and one request of a group can be replaced. *)
LEMMA OneExists ==
  ASSUME NEW st \in GroupType, NEW w \in DOMAIN st.work, NEW k \in WorkerType,
         NEW r \in Requests, NEW n \in RequestType
  PROVE  \E q : OneWorker(st, q, w, k, r, n) /\ q.cur = st.cur
<1> DEFINE a == SetW(st, w, k)
           b == SetR(a, r, n)
           l == IF Idle(k) THEN Append(st.idle, w) ELSE st.idle
           c == [b EXCEPT !.idle = l]
<1>1. /\ a \in GroupType /\ Around(st, a) /\ a.sock = st.sock /\ a.req = st.req
      /\ Changed(st.work, a.work, w, k)
  BY SetWDoes
<1> HIDE DEF a
<1>2. /\ b \in GroupType /\ Around(a, b) /\ b.work = a.work /\ b.sock = a.sock
      /\ Changed(a.req, b.req, r, n)
  BY <1>1, SetRDoes
<1> HIDE DEF b
<1>3. l \in Seq(Nat)
  <2>1. st.idle \in Seq(Nat) /\ w \in Nat
    BY Typed
  <2> QED BY <2>1, AppendProperties
<1>4. /\ c \in GroupType /\ c.sock = b.sock /\ c.work = b.work /\ c.req = b.req
      /\ c.idle = l /\ c.slots = b.slots /\ c.stopped = b.stopped
      /\ c.bad = b.bad /\ c.cur = b.cur
  <2> HIDE DEF l
  <2> QED BY <1>2, <1>3 DEF GroupType
<1> HIDE DEF c
<1>5. OneWorker(st, c, w, k, r, n) /\ c.cur = st.cur
  BY <1>1, <1>2, <1>4 DEF OneWorker, Around, Changed
<1> QED BY <1>5

(* Whether a worker and a request that do not wait change before or after  *)
(* the queue is run makes no difference. *)
LEMMA DrainsAside ==
  ASSUME NEW p \in GroupType, NEW x, NEW s, NEW Q, NEW R, Drains(p, x, s, Q, R),
         s \in DOMAIN p.sock,
         NEW w \in DOMAIN p.work, w \notin Q, NEW r \in Requests,
         \A v \in Q : v \in DOMAIN p.work /\ p.work[v].http # r /\ p.work[v].http \in Requests,
         NEW k, NEW n, NEW f, OneWorker(p, f, w, k, r, n), f.cur = p.cur,
         NEW y, OneWorker(x, y, w, k, r, n), y.cur = x.cur
  PROVE  Drains(f, y, s, Q, R)
<1>1. /\ R \subseteq Q /\ DOMAIN x.work = DOMAIN p.work /\ x \in GroupType
      /\ DOMAIN x.sock = DOMAIN p.sock
  BY DEF Drains
<1>2. DOMAIN x.req = Requests /\ DOMAIN p.req = Requests
  BY <1>1, Typed
<1>3. /\ f.sock = p.sock /\ DOMAIN f.work = DOMAIN p.work /\ f.work[w] = k /\ f.req[r] = n
      /\ \A v \in DOMAIN p.work : v # w => f.work[v] = p.work[v]
      /\ \A a \in Requests : a # r => f.req[a] = p.req[a]
  BY <1>2 DEF OneWorker, Changed
<1>4. /\ y.sock = x.sock /\ DOMAIN y.work = DOMAIN p.work /\ y.work[w] = k /\ y.req[r] = n
      /\ \A v \in DOMAIN p.work : v # w => y.work[v] = x.work[v]
      /\ \A a \in Requests : a # r => y.req[a] = x.req[a]
      /\ y \in GroupType
  BY <1>1, <1>2 DEF OneWorker, Changed
<1>5. \A v \in R : (Up(f, v) <=> Up(p, v)) /\ f.work[v] = p.work[v] /\ f.work[v].http # r
  BY <1>1, <1>3 DEF Up
<1>6. Around(f, y)
  <2>1. Around(p, x)
    BY DEF Drains
  <2> QED BY <2>1 DEF OneWorker, Around
<1>7. ASSUME NEW v \in DOMAIN f.work
      PROVE  y.work[v] = IF v \in R THEN Ran(f.work[v], Up(f, v)) ELSE f.work[v]
  <2>1. CASE v \in R
    <3>1. v # w /\ v \in DOMAIN p.work /\ f.work[v] = p.work[v]
      BY <1>1, <1>3, <1>5, <2>1
    <3>2. y.work[v] = Ran(p.work[v], Up(p, v))
      BY <1>4, <2>1, <3>1 DEF Drains
    <3>3. Ran(p.work[v], Up(p, v)) = Ran(f.work[v], Up(f, v))
      <4>1. p.req[p.work[v].http] = f.req[f.work[v].http]
        BY <1>1, <1>3, <1>5, <2>1, <3>1
      <4> QED BY <3>1, <4>1 DEF Up
    <3> QED BY <2>1, <3>2, <3>3
  <2>2. CASE v \notin R
    BY <1>1, <1>3, <1>4, <2>2 DEF Drains
  <2> QED BY <2>1, <2>2
<1>8. /\ DOMAIN y.sock = DOMAIN f.sock /\ SameSocket(f.sock[s], y.sock[s])
      /\ \A t \in DOMAIN f.sock : t # s => y.sock[t] = f.sock[t]
      /\ IsInjective(y.sock[s].que) /\ ToSet(y.sock[s].que) = Q \ R
      /\ y.sock[s].busy = FALSE => R = Q
  BY <1>3, <1>4 DEF Drains
<1>9. /\ y.sock[s].busy <=> \E v \in R : Up(f, v)
      /\ \A u, v \in R : Up(f, u) /\ Up(f, v) => u = v
  BY <1>4, <1>5 DEF Drains
<1>10. ASSUME NEW a \in Requests
       PROVE  y.req[a] = IF \E v \in R : Up(f, v) /\ f.work[v].http = a
                         THEN [f.req[a] EXCEPT !.flags = {"DATA", "FCGI", "POST"}] ELSE f.req[a]
  <2>1. (\E v \in R : Up(f, v) /\ f.work[v].http = a) <=> \E v \in R : Up(p, v) /\ p.work[v].http = a
    BY <1>5
  <2>2. CASE a = r
    BY <1>3, <1>4, <1>5, <2>2
  <2>3. CASE a # r
    <3>1. y.req[a] = x.req[a] /\ f.req[a] = p.req[a]
      BY <1>3, <1>4, <2>3
    <3> QED BY <2>1, <3>1 DEF Drains
  <2> QED BY <2>2, <2>3
<1> QED BY <1>1, <1>3, <1>4, <1>6, <1>7, <1>8, <1>9, <1>10 DEF Drains

(* The rest of hin_fcgi_post_done_callback, once the queue was run. *)
PostEnds(x, w, r) ==
  LET q == hin_fcgi_worker_reset([x EXCEPT !.work[w].io = @ \ {"POST"}], w)
      done == [q EXCEPT !.req[r].flags = @ \ {"POST"}]
  IN  IF "DATA" \in done.req[r].flags THEN done ELSE httpd_client_finish_request(done, r)

(* What the upload leaves of the worker, and of a request whose answer still *)
(* comes. *)
Sent(k) == [k EXCEPT !.io = IF "DATA" \in k.io THEN {"DATA"} ELSE {"END"}]

SentR(q) == [q EXCEPT !.flags = {"DATA", "FCGI"}]

(* The answer still comes. *)
Answered(x, w, r) ==
  x.work[w].io = {"DATA", "POST"} /\ x.req[r].flags = {"DATA", "FCGI", "POST"}

(* The upload ends before the answer. *)
LEMMA PostBeforeAnswer ==
  ASSUME NEW x \in GroupType, NEW w \in DOMAIN x.work, NEW r \in Requests,
         Answered(x, w, r)
  PROVE  /\ OneWorker(x, PostEnds(x, w, r), w, Sent(x.work[w]), r, SentR(x.req[r]))
         /\ PostEnds(x, w, r).cur = x.cur
<1> DEFINE k == Sent(x.work[w])
           n == SentR(x.req[r])
           a == SetW(x, w, k)
           y == SetR(a, r, n)
<1>1. /\ x.work[w] \in WorkerType /\ x.req[r] \in RequestType
      /\ x.work[w].io = {"DATA", "POST"} /\ x.req[r].flags = {"DATA", "FCGI", "POST"}
  BY Typed DEF Answered
<1>2. k = [x.work[w] EXCEPT !.io = {"DATA"}] /\ k.io = {"DATA"} /\ k \in WorkerType
  BY <1>1 DEF Sent, WorkerType
<1>3. n \in RequestType /\ n.flags = {"DATA", "FCGI"} /\ n = [x.req[r] EXCEPT !.flags = {"DATA", "FCGI"}]
  BY <1>1 DEF SentR, RequestType
<1>4. [x EXCEPT !.work[w].io = @ \ {"POST"}] = a
  <2>1. {"DATA", "POST"} \ {"POST"} = {"DATA"}
    OBVIOUS
  <2> QED BY <1>1, <1>2, <2>1 DEF SetW
<1> HIDE DEF k, n
<1>5. /\ a \in GroupType /\ Around(x, a) /\ a.sock = x.sock /\ a.req = x.req
      /\ Changed(x.work, a.work, w, k)
  BY <1>2, SetWDoes
<1> HIDE DEF a
<1>6. a.work[w] = k
  BY <1>5 DEF Changed
<1>7. hin_fcgi_worker_reset(a, w) = a
  BY <1>2, <1>6 DEF hin_fcgi_worker_reset
<1>8. [a EXCEPT !.req[r].flags = @ \ {"POST"}] = y
  <2>1. {"DATA", "FCGI", "POST"} \ {"POST"} = {"DATA", "FCGI"}
    OBVIOUS
  <2> QED BY <1>1, <1>3, <1>5, <2>1 DEF SetR
<1>9. /\ y \in GroupType /\ Around(a, y) /\ y.work = a.work /\ y.sock = a.sock
      /\ Changed(a.req, y.req, r, n)
  BY <1>3, <1>5, SetRDoes
<1> HIDE DEF y
<1>10. y.req[r] = n
  BY <1>9 DEF Changed
<1>11. PostEnds(x, w, r) = y
  BY <1>3, <1>4, <1>7, <1>8, <1>10 DEF PostEnds
<1>12. ~Idle(k)
  BY <1>2 DEF Idle
<1>13. OneWorker(x, y, w, k, r, n) /\ y.cur = x.cur
  BY <1>5, <1>9, <1>12 DEF OneWorker, Around, Changed
<1> QED BY <1>11, <1>13 DEF k, n

(* The answer was written before the upload ended: the request ends, and   *)
(* the worker is idle. *)
LEMMA PostAfterAnswer ==
  ASSUME MaxSocket > 0, NEW x \in GroupType, NEW w \in DOMAIN x.work, NEW r \in Requests,
         x.work[w].io = {"POST"}, x.work[w].http = NoRequest, x.stopped = FALSE,
         x.req[r].flags = {"POST"}, x.req[r].ended = 0, Idle(Sent(x.work[w]))
  PROVE  /\ OneWorker(x, PostEnds(x, w, r), w, Sent(x.work[w]), r, LastR(x.req[r], FALSE))
         /\ PostEnds(x, w, r).cur = x.cur
<1> DEFINE m == [x.work[w] EXCEPT !.io = {}]
           k == Sent(x.work[w])
           n == LastR(x.req[r], FALSE)
           i == Flagged(x.req[r], {})
           a == SetW(x, w, m)
           b == SetW(a, w, k)
           c == [b EXCEPT !.idle = Append(@, w)]
           d == SetR(c, r, i)
           y == SetR(d, r, n)
<1>1. x.work[w] \in WorkerType /\ x.req[r] \in RequestType
  BY Typed
<1>2. /\ m \in WorkerType /\ m.io = {} /\ m.http = NoRequest
      /\ k \in WorkerType /\ [m EXCEPT !.io = {"END"}, !.http = NoRequest] = k
  <2>1. {} \in SUBSET {"DATA", "POST", "END"} /\ {"END"} \in SUBSET {"DATA", "POST", "END"}
    OBVIOUS
  <2>2. k = [x.work[w] EXCEPT !.io = {"END"}]
    BY DEF Sent
  <2> HIDE DEF k
  <2>3. m \in WorkerType /\ m.io = {} /\ m.http = NoRequest
    BY <1>1, <2>1 DEF WorkerType
  <2>4. k \in WorkerType /\ k.io = {"END"} /\ k.http = NoRequest
    BY <1>1, <2>1, <2>2 DEF WorkerType
  <2>5. [m EXCEPT !.io = {"END"}, !.http = NoRequest] = k
    BY <1>1, <2>2 DEF WorkerType
  <2> QED BY <2>3, <2>4, <2>5
<1>3. /\ n \in RequestType /\ i \in RequestType /\ i.flags = {} /\ i.ended = 0
      /\ [i EXCEPT !.flags = {}, !.ended = 1] = n
      /\ i = [x.req[r] EXCEPT !.flags = {}]
  BY <1>1 DEF Flagged, RequestType, LastR
<1>4. [x EXCEPT !.work[w].io = @ \ {"POST"}] = a
  <2>1. {"POST"} \ {"POST"} = {}
    OBVIOUS
  <2> QED BY <2>1 DEF SetW
<1> HIDE DEF m, k, n, i
<1>5. /\ a \in GroupType /\ Around(x, a) /\ a.sock = x.sock /\ a.req = x.req
      /\ Changed(x.work, a.work, w, m)
  BY <1>2, SetWDoes
<1> HIDE DEF a
<1>6. a.work[w] = m /\ w \in DOMAIN a.work /\ a.stopped = FALSE
  BY <1>5 DEF Changed, Around
<1>7. hin_fcgi_worker_reset(a, w) = c
  <2>1. [a EXCEPT !.work[w].io = @ \cup {"END"}, !.work[w].http = NoRequest] = b
    <3>1. a.work[w].io \cup {"END"} = {"END"}
      BY <1>2, <1>6
    <3>2. [a EXCEPT !.work[w].io = {"END"}, !.work[w].http = NoRequest] =
            SetW(a, w, [a.work[w] EXCEPT !.io = {"END"}, !.http = NoRequest])
      BY <1>5, <1>6 DEF SetW, GroupType
    <3> QED BY <1>2, <1>6, <3>1, <3>2
  <2> HIDE DEF b
  <2> QED BY <1>2, <1>6, <2>1 DEF hin_fcgi_worker_reset
<1>8. /\ b \in GroupType /\ Around(a, b) /\ b.sock = a.sock /\ b.req = a.req
      /\ Changed(a.work, b.work, w, k)
  BY <1>2, <1>5, <1>6, SetWDoes
<1> HIDE DEF b
<1>9. /\ c \in GroupType /\ c.sock = b.sock /\ c.work = b.work /\ c.req = b.req
      /\ c.idle = Append(b.idle, w) /\ c.slots = b.slots /\ c.stopped = b.stopped
      /\ c.bad = b.bad /\ c.cur = b.cur
  <2>1. Append(b.idle, w) \in Seq(Nat)
    BY <1>8, Typed, AppendProperties
  <2>2. \A l \in Seq(Nat) : LET z == [b EXCEPT !.idle = l]
                            IN  /\ z \in GroupType /\ z.sock = b.sock /\ z.work = b.work
                                /\ z.req = b.req /\ z.idle = l /\ z.slots = b.slots
                                /\ z.stopped = b.stopped
                                /\ z.bad = b.bad /\ z.cur = b.cur
    BY <1>8 DEF GroupType
  <2> QED BY <2>1, <2>2
<1> HIDE DEF c
<1>10. c.req = x.req
  BY <1>5, <1>8, <1>9
<1>11. [c EXCEPT !.req[r].flags = @ \ {"POST"}] = d
  <2>1. {"POST"} \ {"POST"} = {}
    OBVIOUS
  <2> QED BY <1>3, <1>10, <2>1 DEF SetR
<1>12. /\ d \in GroupType /\ Around(c, d) /\ d.work = c.work /\ d.sock = c.sock
       /\ Changed(c.req, d.req, r, i)
  BY <1>3, <1>9, SetRDoes
<1> HIDE DEF d
<1>13. d.req[r] = i
  BY <1>12 DEF Changed
<1>14. httpd_client_finish_request(d, r) = y
  <2>1. [d EXCEPT !.req[r].flags = {}, !.req[r].ended = @ + 1] =
          SetR(d, r, [d.req[r] EXCEPT !.flags = {}, !.ended = 0 + 1])
    BY <1>3, <1>12, <1>13 DEF SetR, GroupType
  <2>2. httpd_client_finish_request(d, r) = [d EXCEPT !.req[r].flags = {}, !.req[r].ended = @ + 1]
    BY <1>3, <1>13 DEF httpd_client_finish_request
  <2> QED BY <1>3, <1>13, <2>1, <2>2
<1>15. /\ y \in GroupType /\ Around(d, y) /\ y.work = d.work /\ y.sock = d.sock
       /\ Changed(d.req, y.req, r, n)
  BY <1>3, <1>12, SetRDoes
<1> HIDE DEF y
<1>16. PostEnds(x, w, r) = y
  BY <1>3, <1>4, <1>7, <1>11, <1>13, <1>14 DEF PostEnds
<1>17. /\ y.sock = x.sock /\ y.slots = x.slots /\ y.stopped = x.stopped
       /\ y.bad = x.bad /\ y.idle = Append(x.idle, w) /\ y.cur = x.cur
  BY <1>5, <1>8, <1>9, <1>12, <1>15 DEF Around
<1>18. Changed(x.work, y.work, w, k) /\ Changed(x.req, y.req, r, n)
  BY <1>5, <1>8, <1>9, <1>12, <1>15 DEF Changed
<1>19. Idle(k)
  BY DEF k
<1>20. OneWorker(x, y, w, k, r, n) /\ y.cur = x.cur
  BY <1>15, <1>17, <1>18, <1>19 DEF OneWorker
<1> QED BY <1>16, <1>20 DEF k, n

(* A connection that only changes its flag busy. *)
LEMMA BusyMost ==
  ASSUME NEW st, Most(st), NEW s \in DOMAIN st.sock, NEW k \in SocketType,
         SameSocket(st.sock[s], k), k.que = st.sock[s].que
  PROVE  Most(SetS(st, s, k))
<1> DEFINE q == SetS(st, s, k)
<1>1. st \in GroupType
  BY DEF Most
<1>2. /\ q \in GroupType /\ Around(st, q) /\ q.work = st.work /\ q.req = st.req
      /\ DOMAIN q.sock = DOMAIN st.sock /\ q.sock[s] = k
      /\ \A t \in DOMAIN st.sock : t # s => q.sock[t] = st.sock[t]
  <2>1. /\ q \in GroupType /\ Around(st, q) /\ q.work = st.work /\ q.req = st.req
        /\ Changed(st.sock, q.sock, s, k)
    BY <1>1, SetSDoes
  <2> QED BY <2>1 DEF Changed
<1> HIDE DEF q
<1>3. \A t \in DOMAIN q.sock : SameSocket(st.sock[t], q.sock[t]) /\ q.sock[t].que = st.sock[t].que
  BY <1>2 DEF SameSocket
<1>4. WorkersOK(q)
  <2>1. WorkersOK(st)
    BY DEF Most
  <2>2. \A t \in DOMAIN st.sock : q.sock[t].state = st.sock[t].state
    BY <1>2, <1>3 DEF SameSocket
  <2> QED BY <1>2, <2>1, <2>2 DEF WorkersOK
<1>5. RequestsOK(q) /\ IdleOK(q)
  BY <1>2 DEF Most, RequestsOK, IdleOK, Around
<1>6. SlotsOK(q)
  BY <1>2, <1>3 DEF Most, SlotsOK, Around, SameSocket
<1>7. ASSUME NEW t \in DOMAIN q.sock PROVE SocketOK(q, t)
  <2>1. SocketOK(st, t)
    BY <1>2 DEF Most
  <2> QED BY <1>2, <1>3, <2>1 DEF SocketOK, SameSocket
<1>8. Most(q)
  BY <1>2, <1>4, <1>5, <1>6, <1>7 DEF Most, Around
<1> QED BY <1>8 DEF q

(* What is known of a worker with an upload. *)
Sends(st, w, r, s) ==
  LET k == st.work[w]
  IN  /\ st \in GroupType /\ k \in WorkerType /\ st.req[r] \in RequestType
      /\ r \in Requests /\ r # NoRequest /\ k.upload = r /\ Client(k) = r /\ ~Queued(k)
      /\ s = k.socket /\ s \in DOMAIN st.sock /\ s # None /\ st.sock[s].state = "open"
      /\ Agrees(k, st.req[r])
      /\ \/ k.io = {"DATA", "POST"} /\ k.http = r /\ Serving(k)
            /\ st.req[r].flags = {"DATA", "FCGI", "POST"}
         \/ k.io = {"POST"} /\ k.http = NoRequest /\ Uploading(k) /\ st.req[r].flags = {"POST"}

(* What the invariant says of a worker that uploads. *)
LEMMA SendsFacts ==
  ASSUME NEW st, Inv(st), NEW w \in DOMAIN st.work, st.work[w].upload # NoRequest
  PROVE  Sends(st, w, st.work[w].upload, st.work[w].socket)
<1> DEFINE k == st.work[w]
           r == k.upload
           s == k.socket
<1>1. Most(st) /\ st \in GroupType /\ Shaped(k)
  BY DEF Inv, Most, WorkersOK
<1>2. k \in WorkerType
  BY <1>1, Typed
<1>3. r \in Requests /\ r # NoRequest
  BY <1>2 DEF WorkerType
<1>4. st.req[r] \in RequestType
  BY <1>1, <1>3, Typed
<1>5. Uploading(k) \/ (Serving(k) /\ "POST" \in k.io)
  BY <1>1, <1>3 DEF Shaped, Idle, Gone, Queued, Serving
<1>6. ~Queued(k) /\ Client(k) = r /\ s # None
  BY <1>3, <1>5 DEF Queued, Uploading, Serving, Client
<1>7. Agrees(k, st.req[r])
  BY <1>1, <1>3, <1>6 DEF Most, RequestsOK
<1>8. s \in DOMAIN st.sock /\ st.sock[s].state = "open"
  <2>1. s \in DOMAIN st.sock /\ st.sock[s].state # "closed" /\ st.sock[s].state # "connecting"
    BY <1>1, <1>6 DEF Most, WorkersOK
  <2>2. st.sock[s] \in SocketType
    BY <1>1, <2>1, Typed
  <2> QED BY <2>1, <2>2 DEF SocketType
<1>9. CASE Uploading(k)
  BY <1>1, <1>2, <1>3, <1>4, <1>6, <1>7, <1>8, <1>9 DEF Sends, Uploading, Agrees
<1>10. CASE Serving(k) /\ "POST" \in k.io
  <2>1. k.io \in SUBSET {"DATA", "POST", "END"} /\ k.http = r
    BY <1>2, <1>10 DEF WorkerType, Serving
  <2>2. k.io = {"DATA", "POST"}
    BY <1>10, <2>1 DEF Serving
  <2>3. k.io \cap {"POST"} = {"POST"}
    BY <2>2
  <2>4. st.req[r].flags = {"DATA", "FCGI", "POST"}
    <3>1. st.req[r].flags = {"DATA", "FCGI"} \cup {"POST"}
      BY <1>3, <1>7, <2>1, <2>3 DEF Agrees
    <3> QED BY <3>1
  <2> QED BY <1>1, <1>2, <1>3, <1>4, <1>6, <1>7, <1>8, <1>10, <2>1, <2>2, <2>4 DEF Sends
<1> QED BY <1>5, <1>9, <1>10
(* After its upload the worker serves on, or is idle and its request over. *)
LEMMA SentFits ==
  ASSUME MaxSocket > 0, NEW st, NEW w \in DOMAIN st.work, NEW r, NEW s, Sends(st, w, r, s),
         NEW x \in GroupType, w \in DOMAIN x.work, x.stopped = FALSE,
         x.work[w] = [st.work[w] EXCEPT !.upload = NoRequest], x.req[r] = st.req[r]
  PROVE  \E k \in WorkerType, n \in RequestType :
           /\ OneWorker(x, PostEnds(x, w, r), w, k, r, n) /\ PostEnds(x, w, r).cur = x.cur
           /\ Fits(st, w, k, r, n) /\ "POST" \notin k.io
<1> DEFINE j == st.work[w]
           k == Sent(x.work[w])
<1>1. /\ j \in WorkerType /\ st.req[r] \in RequestType /\ r \in Requests /\ r # NoRequest
      /\ Client(j) = r /\ ~Queued(j) /\ s = j.socket /\ s # None /\ Agrees(j, st.req[r])
  BY DEF Sends
<1>2. CASE /\ j.io = {"DATA", "POST"} /\ j.http = r /\ Serving(j)
           /\ st.req[r].flags = {"DATA", "FCGI", "POST"}
  <2> DEFINE n == SentR(x.req[r])
  <2>1. x.work[w].io = {"DATA", "POST"}
    BY <1>1, <1>2 DEF WorkerType
  <2>2. /\ OneWorker(x, PostEnds(x, w, r), w, k, r, n) /\ PostEnds(x, w, r).cur = x.cur
    <3>1. Answered(x, w, r)
      BY <1>2, <2>1 DEF Answered
    <3>2. /\ OneWorker(x, PostEnds(x, w, r), w, Sent(x.work[w]), r, SentR(x.req[r]))
          /\ PostEnds(x, w, r).cur = x.cur
      BY <1>1, <3>1, PostBeforeAnswer
    <3> QED BY <3>2, Zenon
  <2>3. k = [j EXCEPT !.upload = NoRequest, !.io = {"DATA"}]
    BY <1>1, <2>1 DEF Sent, WorkerType
  <2>4. /\ k \in WorkerType /\ k.upload = NoRequest /\ k.io = {"DATA"} /\ k.http = r
        /\ k.socket = j.socket /\ k.freed = j.freed /\ k.header = j.header /\ k.out = j.out
        /\ k.writing = j.writing /\ k.pipe = j.pipe /\ k.pipeFor = j.pipeFor
        /\ k.pending = j.pending /\ k.back = j.back
    <3>1. {"DATA"} \in SUBSET {"DATA", "POST", "END"} /\ NoRequest \in Requests \cup {NoRequest}
      OBVIOUS
    <3> HIDE DEF k
    <3> QED BY <1>1, <1>2, <2>3, <3>1 DEF WorkerType
  <2>5. /\ n \in RequestType /\ n.flags = {"DATA", "FCGI"} /\ n.begun = st.req[r].begun
        /\ n.raw = st.req[r].raw /\ n.ended = st.req[r].ended
    BY <1>1 DEF SentR, RequestType
  <2> HIDE DEF k, n
  <2>6. Serving(k)
    BY <1>2, <2>4 DEF Serving, Asking, Answering, Ending
  <2>7. ~Queued(k) /\ Client(k) = r
    BY <1>1, <2>4 DEF Queued, Client
  <2>8. Agrees(k, n)
    <3>1. {"DATA", "FCGI"} \cup (k.io \cap {"POST"}) = {"DATA", "FCGI"}
      BY <2>4
    <3> QED BY <1>1, <1>2, <2>4, <2>5, <3>1 DEF Agrees
  <2>9. Fits(st, w, k, r, n)
    BY <1>1, <2>4, <2>6, <2>7, <2>8 DEF Fits, Shaped
  <2> QED BY <2>2, <2>4, <2>5, <2>9
<1>3. CASE j.io = {"POST"} /\ j.http = NoRequest /\ Uploading(j) /\ st.req[r].flags = {"POST"}
  <2> DEFINE n == LastR(x.req[r], FALSE)
  <2>1. x.work[w].io = {"POST"} /\ x.work[w].http = NoRequest
    BY <1>1, <1>3 DEF WorkerType
  <2>2. k = [j EXCEPT !.upload = NoRequest, !.io = {"END"}]
    BY <1>1, <2>1 DEF Sent, WorkerType
  <2>3. /\ k \in WorkerType /\ k.upload = NoRequest /\ k.io = {"END"} /\ k.http = NoRequest
        /\ k.socket = j.socket /\ k.freed = j.freed /\ k.header = j.header /\ k.out = j.out
        /\ k.writing = j.writing /\ k.pipe = j.pipe /\ k.pending = j.pending /\ k.back = j.back
    <3>1. {"END"} \in SUBSET {"DATA", "POST", "END"} /\ NoRequest \in Requests \cup {NoRequest}
      OBVIOUS
    <3> HIDE DEF k
    <3> QED BY <1>1, <1>3, <2>2, <3>1 DEF WorkerType
  <2>4. st.req[r].ended = 0 /\ st.req[r].begun = 1 /\ st.req[r].raw = FALSE
    BY <1>1, <1>3 DEF Agrees, RequestType
  <2>5. n \in RequestType /\ n.flags = {} /\ n.begun = 1 /\ n.raw = FALSE /\ n.ended = 1
    BY <1>1, <2>4 DEF LastR, RequestType
  <2> HIDE DEF k
  <2>6. Idle(k)
    BY <1>3, <2>3 DEF Uploading, Idle, Quiet
  <2>7. /\ OneWorker(x, PostEnds(x, w, r), w, k, r, n) /\ PostEnds(x, w, r).cur = x.cur
    <3>1. Idle(Sent(x.work[w]))
      BY <2>6 DEF k
    <3>2. /\ OneWorker(x, PostEnds(x, w, r), w, Sent(x.work[w]), r, LastR(x.req[r], FALSE))
          /\ PostEnds(x, w, r).cur = x.cur
      <4>1. x.req[r].flags = {"POST"} /\ x.req[r].ended = 0
        BY <1>3, <2>4
      <4>2. /\ x \in GroupType /\ w \in DOMAIN x.work /\ r \in Requests
            /\ x.work[w].io = {"POST"} /\ x.work[w].http = NoRequest /\ x.stopped = FALSE
        BY <1>1, <2>1
      <4> QED BY <3>1, <4>1, <4>2, PostAfterAnswer
    <3> QED BY <3>2, Zenon DEF k, n
  <2> HIDE DEF n
  <2>8. Alone(n) /\ Client(k) = NoRequest /\ ~Queued(k) /\ Shaped(k)
    BY <2>3, <2>5, <2>6 DEF Alone, Client, Queued, Shaped
  <2>9. Fits(st, w, k, r, n)
    BY <1>1, <2>3, <2>8 DEF Fits
  <2> QED BY <2>3, <2>5, <2>7, <2>9
<1> QED BY <1>2, <1>3 DEF Sends

(* hin_fcgi_post_done_callback of an upload that ends. *)
LEMMA UploadDoneDoes ==
  ASSUME IInv, NEW w \in Workers, UploadDone(w), NEW r, NEW s, Sends(g, w, r, s),
         NEW j, j = [g.work[w] EXCEPT !.upload = NoRequest],
         NEW n, n = [g.sock[s] EXCEPT !.busy = FALSE]
  PROVE  g' = PostEnds(Loop(g)[<<SetS(SetW(g, w, j), s, n), s, First(g.sock[s].que)>>], w, r)
<1> DEFINE u == SetW(g, w, j)
           p == SetS(u, s, n)
<1>1. /\ w \in DOMAIN g.work /\ g \in GroupType /\ g.work[w] \in WorkerType
      /\ r = g.work[w].upload /\ s = g.work[w].socket /\ s # None
  BY DEF Workers, Sends
<1>2. j \in WorkerType /\ j.socket = s
  BY <1>1 DEF WorkerType
<1>3. [g EXCEPT !.work[w].upload = NoRequest] = u
  BY DEF SetW
<1>4. u.sock = g.sock /\ u.work[w] = j
  BY <1>1, <1>2, SetWDoes DEF Changed
<1>5. g' = hin_fcgi_post_done_callback(Loop(g), u, w, r)
  BY <1>1, <1>3 DEF UploadDone
<1> HIDE DEF u
<1>6. [u EXCEPT !.sock[s].busy = FALSE] = p
  BY <1>4 DEF SetS
<1> DEFINE x == Loop(g)[<<p, s, First(g.sock[s].que)>>]
<1>7. hin_fcgi_stdin_done(Loop(g), u, w) = x
  <2> HIDE DEF p
  <2> QED BY <1>2, <1>4, <1>6 DEF hin_fcgi_stdin_done, hin_fcgi_socket_continue, First
<1>8. hin_fcgi_post_done_callback(Loop(g), u, w, r) = PostEnds(x, w, r)
  <2> HIDE DEF x
  <2> QED BY <1>1, <1>2, <1>4, <1>7 DEF hin_fcgi_post_done_callback, PostEnds
<1> QED BY <1>5, <1>8 DEF u, x, p

(* The end of an upload keeps the invariant: the worker and its request    *)
(* change as if before those that waited were run. *)
LEMMA UploadDoneInv ==
  ASSUME MaxSocket > 0, IInv, NEW w \in Workers, UploadDone(w)
  PROVE  IInv'
<1> DEFINE r == g.work[w].upload
           s == g.work[w].socket
           Q == ToSet(g.sock[s].que)
           j == [g.work[w] EXCEPT !.upload = NoRequest]
           n == [g.sock[s] EXCEPT !.busy = FALSE]
           u == SetW(g, w, j)
           p == SetS(u, s, n)
           b == SetS(g, s, n)
           x == Loop(g)[<<p, s, First(g.sock[s].que)>>]
<1>1. Inv(g) /\ Most(g) /\ w \in DOMAIN g.work /\ r # NoRequest
  BY DEF IInv, Inv, Workers, UploadDone
<1>2. Sends(g, w, r, s)
  BY <1>1, SendsFacts
<1>3. /\ g \in GroupType /\ g.work[w] \in WorkerType /\ r \in Requests /\ g.work[w].upload = r
      /\ Client(g.work[w]) = r /\ ~Queued(g.work[w])
      /\ s \in DOMAIN g.sock /\ s # None /\ g.sock[s].state = "open"
      /\ "POST" \in g.work[w].io
  BY <1>2 DEF Sends
<1>4. g.sock[s] \in SocketType /\ s \in Nat
  BY <1>3, Typed
<1>5. g' = PostEnds(x, w, r)
  BY <1>2, UploadDoneDoes
<1>6. j \in WorkerType
  BY <1>3 DEF WorkerType
<1>7. /\ n \in SocketType /\ SameSocket(g.sock[s], n) /\ n.que = g.sock[s].que /\ n.busy = FALSE
      /\ n.state = "open"
  BY <1>3, <1>4 DEF SocketType, SameSocket
<1> HIDE DEF n, j
<1>8. /\ u \in GroupType /\ Around(g, u) /\ u.sock = g.sock /\ u.req = g.req
      /\ DOMAIN u.work = DOMAIN g.work /\ u.work[w] = j
      /\ \A v \in DOMAIN g.work : v # w => u.work[v] = g.work[v]
  BY <1>1, <1>3, <1>6, SetWDoes DEF Changed
<1> HIDE DEF u
<1>9. /\ p \in GroupType /\ Around(u, p) /\ p.work = u.work /\ p.req = u.req
      /\ DOMAIN p.sock = DOMAIN u.sock /\ p.sock[s] = n
      /\ \A t \in DOMAIN u.sock : t # s => p.sock[t] = u.sock[t]
  <2>1. s \in DOMAIN u.sock
    BY <1>3, <1>8
  <2>2. /\ p \in GroupType /\ Around(u, p) /\ p.work = u.work /\ p.req = u.req
        /\ Changed(u.sock, p.sock, s, n)
    BY <1>7, <1>8, <2>1, SetSDoes
  <2> QED BY <2>2 DEF Changed
<1>10. /\ b \in GroupType /\ Around(g, b) /\ b.work = g.work /\ b.req = g.req
       /\ DOMAIN b.sock = DOMAIN g.sock /\ b.sock[s] = n
       /\ \A t \in DOMAIN g.sock : t # s => b.sock[t] = g.sock[t]
  <2>1. /\ b \in GroupType /\ Around(g, b) /\ b.work = g.work /\ b.req = g.req
        /\ Changed(g.sock, b.sock, s, n)
    BY <1>3, <1>7, SetSDoes
  <2> QED BY <2>1 DEF Changed
<1>11. Most(b)
  BY <1>1, <1>3, <1>7, BusyMost
<1>12. Before(g, s, Q) /\ IsInjective(g.sock[s].que)
  BY <1>1, <1>3, InvBefore
<1>13. Before(b, s, Q)
  <2>1. g.sock[s].peer /\ (g.sock[s].state = "open" => g.sock[s].reading)
    BY <1>12 DEF Before
  <2> QED BY <1>3, <1>7, <1>12, <2>1, BeforeSet DEF SameSocket
<1>14. p.sock = b.sock
  <2>1. p.sock = [u.sock EXCEPT ![s] = n]
    BY <1>8 DEF SetS, GroupType
  <2>2. b.sock = [g.sock EXCEPT ![s] = n]
    BY <1>3 DEF SetS, GroupType
  <2> QED BY <1>8, <2>1, <2>2
<1> HIDE DEF p, b
<1>15. w \notin Q /\ \A v \in Q : v \in DOMAIN g.work /\ v # w /\ g.work[v].http \in Requests /\ g.work[v].http # r
  <2>1. Q \subseteq Nat /\ \A v \in Q : v \in DOMAIN g.work /\ Queued(g.work[v])
    BY <1>12 DEF Before
  <2>2. w \notin Q
    BY <1>3, <2>1
  <2>3. ASSUME NEW v \in Q PROVE g.work[v].http \in Requests /\ g.work[v].http # r
    <3>1. g.work[v] \in WorkerType /\ v # w
      BY <1>3, <2>1, <2>2, Typed
    <3>2. g.work[v].http \in Requests /\ Client(g.work[v]) = g.work[v].http
      BY <2>1, <3>1 DEF WorkerType, Queued, Client
    <3> QED BY <1>1, <1>3, <2>1, <3>1, <3>2 DEF Most, RequestsOK
  <2> QED BY <2>1, <2>2, <2>3
<1>16. Ready(p, s)
  <2>1. Ready(b, s)
    BY <1>7, <1>10, <1>12, <1>13, BeforeReady
  <2>2. \A v \in Q : p.work[v] = b.work[v]
    BY <1>8, <1>9, <1>10, <1>15
  <2>3. p.stopped = b.stopped /\ DOMAIN p.work = DOMAIN b.work /\ p.req = b.req
    BY <1>8, <1>9, <1>10 DEF Around
  <2>4. b.sock[s].que = g.sock[s].que
    BY <1>7, <1>10
  <2>5. \A v \in Q : Waiting(p, s, v)
    BY <2>1, <2>2, <2>3, <2>4 DEF Ready, Waiting
  <2>6. \A a, v \in Q : p.work[a].http = p.work[v].http => a = v
    BY <2>1, <2>2, <2>4 DEF Ready
  <2> HIDE DEF Q
  <2>7. ToSet(p.sock[s].que) = Q
    BY <1>14, <2>4 DEF Q
  <2> QED BY <1>9, <1>14, <2>1, <2>3, <2>5, <2>6, <2>7 DEF Ready
<1>17. PICK R : Drains(p, x, s, Q, R)
  <2>1. Works(Loop(g), Len(p.sock[s].que))
    BY <1>3, <1>8, <1>9, <1>16, LoopEnough
  <2>2. \E R : Drains(p, Loop(g)[<<p, s, First(p.sock[s].que)>>], s, ToSet(p.sock[s].que), R)
    BY <1>16, <2>1 DEF Works
  <2> QED BY <1>7, <1>9, <2>2
<1> HIDE DEF x
<1>18. /\ x \in GroupType /\ w \in DOMAIN x.work /\ x.stopped = FALSE
       /\ x.work[w] = j /\ x.req[r] = g.req[r]
  <2>1. x \in GroupType /\ DOMAIN x.work = DOMAIN g.work /\ w \notin R /\ R \subseteq Q
    BY <1>8, <1>9, <1>15, <1>17 DEF Drains
  <2>2. x.work[w] = j
    <3>1. \A v \in DOMAIN p.work : v \notin R => x.work[v] = p.work[v]
      BY <1>17 DEF Drains
    <3> QED BY <1>1, <1>8, <1>9, <2>1, <3>1
  <2>3. ~ \E v \in R : Up(p, v) /\ p.work[v].http = r
    BY <1>8, <1>9, <1>15, <2>1
  <2>4. x.req[r] = p.req[r]
    BY <1>3, <1>17, <2>3 DEF Drains
  <2>5. x.stopped = g.stopped /\ g.stopped \in BOOLEAN
    BY <1>3, <1>8, <1>9, <1>17 DEF Drains, Around, GroupType
  <2>6. x.stopped = FALSE
    BY <1>1, <2>5 DEF Most
  <2> QED BY <1>1, <1>8, <1>9, <2>1, <2>2, <2>4, <2>6
<1>19. PICK k \in WorkerType, m \in RequestType :
         /\ OneWorker(x, PostEnds(x, w, r), w, k, r, m) /\ PostEnds(x, w, r).cur = x.cur
         /\ Fits(g, w, k, r, m) /\ "POST" \notin k.io
  BY <1>1, <1>2, <1>18, SentFits DEF j
<1>20. PICK f : OneWorker(p, f, w, k, r, m) /\ f.cur = p.cur
  <2>1. w \in DOMAIN p.work
    BY <1>1, <1>8, <1>9
  <2> QED BY <1>3, <1>9, <2>1, OneExists
<1>21. Drains(f, PostEnds(x, w, r), s, Q, R)
  <2>1. \A v \in Q : v \in DOMAIN p.work /\ p.work[v].http # r /\ p.work[v].http \in Requests
    BY <1>8, <1>9, <1>15
  <2>2. w \in DOMAIN p.work /\ s \in DOMAIN p.sock
    BY <1>1, <1>3, <1>8, <1>9
  <2> QED BY <1>3, <1>9, <1>15, <1>17, <1>19, <1>20, <2>1, <2>2, DrainsAside
<1>22. OneWorker(b, f, w, k, r, m)
  BY <1>8, <1>9, <1>10, <1>14, <1>20 DEF OneWorker, Changed, Around
<1>23. Most(f)
  <2>1. Fits(b, w, k, r, m)
    BY <1>10, <1>19 DEF Fits
  <2> QED BY <1>11, <1>22, <2>1, OneMost
<1>24. /\ DOMAIN f.work = DOMAIN g.work /\ f.work[w] = k /\ k.socket = s
       /\ \A v \in DOMAIN g.work : v # w => f.work[v] = g.work[v]
       /\ f.sock = b.sock
  BY <1>10, <1>19, <1>22 DEF OneWorker, Changed, Fits
<1>25. Before(f, s, Q)
  <2>1. ASSUME NEW t \in DOMAIN f.sock, t # s PROVE Held(f, t)
    <3>1. Held(g, t) /\ f.sock[t] = g.sock[t]
      BY <1>1, <1>10, <1>24, <2>1 DEF Inv
    <3>2. \A v \in DOMAIN g.work : Uploads(f, v, t) <=> Uploads(g, v, t)
      BY <1>24, <2>1 DEF Uploads
    <3> QED BY <1>24, <3>1, <3>2 DEF Held
  <2>2. f.sock[s] = n /\ s \in DOMAIN f.sock /\ SocketOK(f, s)
    BY <1>3, <1>10, <1>23, <1>24 DEF Most
  <2>3. Q \subseteq Nat
    BY <1>12 DEF Before
  <2> QED BY <1>7, <1>23, <2>1, <2>2, <2>3 DEF Before, Most, SocketOK
<1>26. Free(f, s)
  <2>1. f.sock[s].state = "open"
    BY <1>7, <1>10, <1>24
  <2>2. ASSUME NEW v \in DOMAIN f.work PROVE ~Uploads(f, v, s)
    <3>1. CASE v = w
      BY <1>19, <1>24, <3>1 DEF Uploads
    <3>2. CASE v # w
      <4>1. Held(g, s) /\ Uploads(g, w, s)
        BY <1>1, <1>3 DEF Inv, Uploads
      <4>2. ~Uploads(g, v, s)
        BY <1>1, <1>3, <1>24, <3>2, <4>1 DEF Held
      <4> QED BY <1>24, <3>2, <4>2 DEF Uploads
    <3> QED BY <3>1, <3>2
  <2> QED BY <2>1, <2>2 DEF Free
<1>27. Inv(g')
  BY <1>5, <1>21, <1>25, <1>26, DrainInv
<1> QED BY <1>27 DEF IInv

----------------------------------------------------------------------------
(* Requests without a worker. *)

(* Such a request changes, and nothing else. *)
LEMMA AloneInv ==
  ASSUME NEW st, Inv(st), NEW r \in Requests, \A v \in DOMAIN st.work : Client(st.work[v]) # r,
         NEW n, Alone(n), NEW q \in GroupType, Around(st, q), q.work = st.work,
         q.sock = st.sock, Changed(st.req, q.req, r, n)
  PROVE  Inv(q)
<1>1. Most(st) /\ st \in GroupType
  BY DEF Inv, Most
<1>2. q.req[r] = n /\ \A a \in Requests : a # r => q.req[a] = st.req[a]
  BY <1>1, Typed DEF Changed
<1>3. WorkersOK(q) /\ IdleOK(q) /\ SlotsOK(q) /\ \A s \in DOMAIN q.sock : SocketOK(q, s)
  <2>1. WorkersOK(q)
    BY <1>1 DEF Most, WorkersOK
  <2>2. IdleOK(q) /\ SlotsOK(q)
    BY <1>1 DEF Most, IdleOK, SlotsOK, Around
  <2>3. \A s \in DOMAIN q.sock : SocketOK(q, s)
    BY <1>1 DEF Most, SocketOK
  <2> QED BY <2>1, <2>2, <2>3
<1>4. RequestsOK(q)
  BY <1>1, <1>2 DEF Most, RequestsOK
<1>5. \A s \in DOMAIN q.sock : Held(q, s)
  BY DEF Inv, Held, Uploads
<1> QED BY <1>1, <1>3, <1>4, <1>5 DEF Inv, Most, Around

(* http_raw_response_callback: the error response of r is written. *)
LEMMA RawDoneDoes ==
  ASSUME g \in GroupType, NEW r \in Requests, Alone(g.req[r]), RawDone(r)
  PROVE  \E n : /\ Alone(n) /\ g' \in GroupType /\ Around(g, g') /\ g'.work = g.work
                /\ g'.sock = g.sock /\ Changed(g.req, g'.req, r, n)
<1> DEFINE i == [g.req[r] EXCEPT !.raw = FALSE, !.flags = {"DATA", "FCGI"}]
           n == [i EXCEPT !.flags = {}, !.ended = 1]
           a == SetR(g, r, i)
           y == SetR(a, r, n)
<1>1. g \in GroupType /\ g.req[r].raw
  BY DEF RawDone
<1>2. g.req[r] \in RequestType /\ DOMAIN g.req = Requests
  BY <1>1, Typed
<1>4. g.req[r].flags = {"DATA", "FCGI", "ERROR"} /\ g.req[r].begun = 1 /\ g.req[r].ended = 0
  BY <1>1 DEF Alone
<1>5. i \in RequestType /\ i.flags = {"DATA", "FCGI"} /\ i.ended = 0 /\ i.begun = 1 /\ i.raw = FALSE
  BY <1>2, <1>4 DEF RequestType
<1>6. [g EXCEPT !.req[r].raw = FALSE, !.req[r].flags = @ \ {"ERROR"}] = a
  <2>1. {"DATA", "FCGI", "ERROR"} \ {"ERROR"} = {"DATA", "FCGI"}
    OBVIOUS
  <2>2. [g EXCEPT !.req[r].raw = FALSE, !.req[r].flags = {"DATA", "FCGI"}] = a
    BY <1>1, <1>2 DEF SetR, GroupType
  <2> QED BY <1>4, <2>1, <2>2
<1>7. g' = httpd_client_finish_request(a, r)
  BY <1>6 DEF RawDone
<1> HIDE DEF i
<1>8. n \in RequestType /\ n.flags = {} /\ n.ended = 1 /\ n.begun = 1 /\ n.raw = FALSE
  BY <1>5 DEF RequestType
<1>9. /\ a \in GroupType /\ Around(g, a) /\ a.work = g.work /\ a.sock = g.sock
      /\ Changed(g.req, a.req, r, i)
  BY <1>1, <1>5, SetRDoes
<1> HIDE DEF a
<1>10. a.req[r] = i
  BY <1>9 DEF Changed
<1>11. httpd_client_finish_request(a, r) = y
  <2>1. httpd_client_finish_request(a, r) = [a EXCEPT !.req[r].flags = {}, !.req[r].ended = @ + 1]
    BY <1>5, <1>10 DEF httpd_client_finish_request
  <2>2. [a EXCEPT !.req[r].flags = {}, !.req[r].ended = @ + 1] =
          SetR(a, r, [a.req[r] EXCEPT !.flags = {}, !.ended = 0 + 1])
    BY <1>5, <1>9, <1>10 DEF SetR, GroupType
  <2> QED BY <1>10, <2>1, <2>2
<1> HIDE DEF n
<1>12. /\ y \in GroupType /\ Around(a, y) /\ y.work = a.work /\ y.sock = a.sock
       /\ Changed(a.req, y.req, r, n)
  BY <1>8, <1>9, SetRDoes
<1> HIDE DEF y
<1>13. Alone(n)
  BY <1>8 DEF Alone
<1>14. Around(g, y) /\ y.work = g.work /\ y.sock = g.sock /\ Changed(g.req, y.req, r, n)
  BY <1>9, <1>12 DEF Around, Changed
<1> QED BY <1>7, <1>11, <1>12, <1>13, <1>14

(* It keeps the invariant. *)
LEMMA RawDoneInv ==
  ASSUME IInv, NEW r \in Requests, RawDone(r)
  PROVE  IInv'
<1>1. Inv(g) /\ Most(g) /\ g \in GroupType /\ g.req[r].raw
  BY DEF IInv, Inv, Most, RawDone
<1>2. \A v \in DOMAIN g.work : Client(g.work[v]) # r
  BY <1>1 DEF Most, RequestsOK, Agrees
<1>3. Alone(g.req[r])
  BY <1>1, <1>2 DEF Most, RequestsOK
<1>4. PICK n : /\ Alone(n) /\ g' \in GroupType /\ Around(g, g') /\ g'.work = g.work
               /\ g'.sock = g.sock /\ Changed(g.req, g'.req, r, n)
  BY <1>1, <1>3, RawDoneDoes
<1>5. Inv(g')
  BY <1>1, <1>2, <1>4, AloneInv
<1> QED BY <1>5 DEF IInv

----------------------------------------------------------------------------
(* A request finds a worker. *)

(* The connection s with its new worker w. *)
Joins(st, run, w, s) ==
  LET S == run.sock[s]
  IN  /\ S.state # "closed" /\ S.peer /\ (S.state = "open" => S.reading)
      /\ IsInjective(S.slots) /\ IsInjective(S.que) /\ S.slots # <<>>
      /\ S.numWorker = Len(S.slots)
      /\ IF s \in DOMAIN st.sock
         THEN /\ S.state = st.sock[s].state /\ S.busy = st.sock[s].busy
              /\ S.que = st.sock[s].que
              /\ ToSet(S.slots) = ToSet(st.sock[s].slots) \cup {w}
         ELSE /\ S.state = "connecting" /\ S.busy = TRUE
              /\ S.que = <<>> /\ ToSet(S.slots) = {w}

(* From st to run, worker w of connection s, idle or new, got request r. *)
Starts(st, run, w, r, s) ==
  /\ run \in GroupType /\ run.stopped = st.stopped
  /\ run.bad = st.bad /\ r \in Requests
  /\ \A a \in Requests : a # r => run.req[a] = st.req[a]
  /\ Agrees(run.work[w], run.req[r])
  /\ DOMAIN run.work = DOMAIN st.work \cup {w}
  /\ Queued(run.work[w]) /\ run.work[w].http = r /\ run.work[w].socket = s
  /\ w \in DOMAIN st.work => Idle(st.work[w]) /\ st.work[w].socket = s
  /\ \A v \in DOMAIN st.work : v # w => run.work[v] = st.work[v]
  /\ IsInjective(run.idle) /\ ToSet(run.idle) = ToSet(st.idle) \ {w}
  /\ DOMAIN run.sock = DOMAIN st.sock \cup {s}
  /\ \A t \in DOMAIN st.sock : t # s => run.sock[t] = st.sock[t]
  /\ Joins(st, run, w, s) /\ SlotsOK(run)

(* The worker waits for its connection like those on the list. *)
LEMMA StartsBefore ==
  ASSUME NEW st, Inv(st), NEW run, NEW w, NEW r, NEW s, Starts(st, run, w, r, s),
         \A v \in DOMAIN st.work : Client(st.work[v]) # r
  PROVE  Before(run, s, ToSet(run.sock[s].que) \cup {w})
<1> DEFINE Q == ToSet(run.sock[s].que) \cup {w}
<1>1. Most(st) /\ st \in GroupType /\ run \in GroupType /\ r # NoRequest /\ r \in Requests
  BY FcgiAssumption DEF Inv, Most, Starts
<1>2. /\ DOMAIN run.work = DOMAIN st.work \cup {w} /\ w \in Nat /\ DOMAIN run.work \subseteq Nat
      /\ s \in DOMAIN run.sock /\ s \in Nat /\ s # None
  <2>1. DOMAIN run.work = DOMAIN st.work \cup {w} /\ s \in DOMAIN run.sock
    BY DEF Starts
  <2> QED BY <1>1, <2>1, Typed
<1>3. /\ Queued(run.work[w]) /\ run.work[w].http = r /\ run.work[w].socket = s
      /\ Client(run.work[w]) = r /\ ~Idle(run.work[w])
      /\ \A v \in DOMAIN st.work : v # w => run.work[v] = st.work[v]
  BY <1>1 DEF Starts, Client, Queued, Idle
<1>4. /\ DOMAIN run.sock = DOMAIN st.sock \cup {s}
      /\ \A t \in DOMAIN st.sock : t # s => run.sock[t] = st.sock[t]
      /\ Joins(st, run, w, s)
  BY DEF Starts
<1>5. WorkersOK(run)
  <2>1. \A v \in DOMAIN run.work : Shaped(run.work[v])
    BY <1>1, <1>2, <1>3 DEF Most, WorkersOK, Shaped
  <2>2. ASSUME NEW v \in DOMAIN run.work, run.work[v].socket # None
        PROVE  /\ run.work[v].socket \in DOMAIN run.sock
               /\ run.sock[run.work[v].socket].state # "closed"
               /\ run.sock[run.work[v].socket].state = "connecting" => Queued(run.work[v])
    <3>1. CASE v = w
      BY <1>2, <1>3, <1>4, <3>1 DEF Joins
    <3>2. CASE v # w
      <4> DEFINE t == st.work[v].socket
      <4>1. v \in DOMAIN st.work /\ run.work[v] = st.work[v]
        BY <1>2, <1>3, <3>2
      <4>2. t \in DOMAIN st.sock /\ st.sock[t].state # "closed"
            /\ (st.sock[t].state = "connecting" => Queued(st.work[v]))
        BY <1>1, <2>2, <4>1 DEF Most, WorkersOK
      <4>3. t \in DOMAIN run.sock /\ run.sock[t].state = st.sock[t].state
        BY <1>4, <4>2 DEF Joins
      <4> QED BY <4>1, <4>2, <4>3
    <3> QED BY <3>1, <3>2
  <2> QED BY <2>1, <2>2 DEF WorkersOK
<1>6. w \in DOMAIN st.work => Client(st.work[w]) = NoRequest /\ Idle(st.work[w]) /\ st.work[w].socket = s
  BY DEF Starts, Client, Idle
<1>7. RequestsOK(run)
  <2>1. NoRequest \notin Requests /\ \A a \in Requests : a # r => run.req[a] = st.req[a]
    BY FcgiAssumption DEF Starts
  <2>2. ASSUME NEW v \in DOMAIN run.work, NEW a \in Requests, Client(run.work[v]) = a
        PROVE  Agrees(run.work[v], run.req[a])
    <3>1. CASE v = w
      BY <1>3, <2>2, <3>1 DEF Starts
    <3>2. CASE v # w
      <4>1. v \in DOMAIN st.work /\ run.work[v] = st.work[v] /\ Client(st.work[v]) = a /\ a # r
        BY <1>2, <1>3, <2>2, <3>2
      <4> QED BY <1>1, <2>1, <4>1 DEF Most, RequestsOK
    <3> QED BY <3>1, <3>2
  <2>3. ASSUME NEW u \in DOMAIN run.work, NEW v \in DOMAIN run.work, NEW a \in Requests,
               Client(run.work[u]) = a, Client(run.work[v]) = a
        PROVE  u = v
    <3>1. a = r => u = w /\ v = w
      BY <1>2, <1>3, <2>3
    <3>2. a # r => u # w /\ v # w
      BY <1>3, <2>3
    <3>3. a # r => u \in DOMAIN st.work /\ v \in DOMAIN st.work /\ Client(st.work[u]) = a /\ Client(st.work[v]) = a
      BY <1>2, <1>3, <2>3, <3>2
    <3> QED BY <1>1, <3>1, <3>3 DEF Most, RequestsOK
  <2>4. ASSUME NEW a \in Requests
        PROVE  Alone(run.req[a]) \/ \E v \in DOMAIN run.work : Client(run.work[v]) = a
    <3>1. CASE a = r
      BY <1>2, <1>3, <3>1
    <3>2. CASE a # r /\ Alone(st.req[a])
      BY <2>1, <3>2
    <3>3. CASE a # r /\ ~Alone(st.req[a])
      <4>1. PICK v \in DOMAIN st.work : Client(st.work[v]) = a
        BY <1>1, <3>3 DEF Most, RequestsOK
      <4>2. v # w
        BY <1>6, <2>1, <4>1
      <4> QED BY <1>2, <1>3, <4>1, <4>2
    <3> QED BY <3>1, <3>2, <3>3
  <2> QED BY <2>2, <2>3, <2>4 DEF RequestsOK
<1>8. IdleOK(run)
  <2>1. IsInjective(run.idle) /\ ToSet(run.idle) = ToSet(st.idle) \ {w}
    BY DEF Starts
  <2>2. \A v \in Nat : v \in ToSet(st.idle) <=> v \in DOMAIN st.work /\ Idle(st.work[v])
    BY <1>1 DEF Most, IdleOK
  <2> QED BY <1>2, <1>3, <2>1, <2>2 DEF IdleOK
<1>9. ASSUME NEW t \in DOMAIN run.sock, t # s PROVE SocketOK(run, t) /\ Held(run, t)
  <2>1. t \in DOMAIN st.sock /\ run.sock[t] = st.sock[t] /\ SocketOK(st, t) /\ Held(st, t)
    BY <1>1, <1>4, <1>9 DEF Inv, Most
  <2>2. \A v \in Nat : v \in DOMAIN run.work /\ run.work[v].socket = t <=>
                       v \in DOMAIN st.work /\ st.work[v].socket = t
    BY <1>2, <1>3, <1>6, <1>9
  <2>3. \A v \in DOMAIN run.work : run.work[v].socket = t => v # w /\ run.work[v] = st.work[v]
    BY <1>2, <1>3, <1>9
  <2>4. SocketOK(run, t)
    <3>1. \A v \in Nat : v \in DOMAIN run.work /\ run.work[v].socket = t /\ Queued(run.work[v]) <=>
                         v \in DOMAIN st.work /\ st.work[v].socket = t /\ Queued(st.work[v])
      BY <2>2, <2>3
    <3> QED BY <2>1, <2>2, <3>1 DEF SocketOK
  <2>5. \A v \in Nat : v \in DOMAIN run.work /\ Uploads(run, v, t) <=> v \in DOMAIN st.work /\ Uploads(st, v, t)
    BY <2>2, <2>3 DEF Uploads
  <2>6. DOMAIN st.work \subseteq Nat
    BY <1>1, Typed
  <2> QED BY <1>2, <2>1, <2>4, <2>5, <2>6 DEF Held
<1>10. \A v \in Nat : v \in ToSet(run.sock[s].slots) <=> v \in DOMAIN run.work /\ run.work[v].socket = s
  <2>1. CASE s \in DOMAIN st.sock
    <3>1. \A v \in Nat : v \in ToSet(st.sock[s].slots) <=> v \in DOMAIN st.work /\ st.work[v].socket = s
      BY <1>1, <2>1 DEF Most, SocketOK
    <3>2. ToSet(run.sock[s].slots) = ToSet(st.sock[s].slots) \cup {w}
      BY <1>4, <2>1 DEF Joins
    <3> QED BY <1>2, <1>3, <3>1, <3>2
  <2>2. CASE s \notin DOMAIN st.sock
    <3>1. \A v \in DOMAIN st.work : st.work[v].socket # s
      BY <1>1, <1>2, <2>2 DEF Most, WorkersOK
    <3>2. ToSet(run.sock[s].slots) = {w}
      BY <1>4, <2>2 DEF Joins
    <3> QED BY <1>2, <1>3, <3>1, <3>2
  <2> QED BY <2>1, <2>2
<1>11. Q \subseteq Nat /\ \A v \in Nat : v \in Q <=> v \in DOMAIN run.work /\ run.work[v].socket = s /\ Queued(run.work[v])
  <2>1. CASE s \in DOMAIN st.sock
    <3>1. \A v \in Nat : v \in ToSet(st.sock[s].que) <=> v \in DOMAIN st.work /\ st.work[v].socket = s /\ Queued(st.work[v])
      BY <1>1, <2>1 DEF Most, SocketOK
    <3>2. run.sock[s].que = st.sock[s].que
      BY <1>4, <2>1 DEF Joins
    <3>3. st.sock[s] \in SocketType
      BY <1>1, <2>1, Typed
    <3>4. ToSet(st.sock[s].que) \subseteq Nat
      BY <3>3, Elements DEF SocketType
    <3> QED BY <1>2, <1>3, <3>1, <3>2, <3>4
  <2>2. CASE s \notin DOMAIN st.sock
    <3>1. \A v \in DOMAIN st.work : st.work[v].socket # s
      BY <1>1, <1>2, <2>2 DEF Most, WorkersOK
    <3>2. ToSet(run.sock[s].que) = {}
      <4>1. run.sock[s].que = <<>>
        BY <1>4, <2>2 DEF Joins
      <4> QED BY <4>1 DEF ToSet
    <3> QED BY <1>2, <1>3, <3>1, <3>2
  <2> QED BY <2>1, <2>2
<1>12. ~run.stopped /\ run.bad = {} /\ SlotsOK(run)
  BY <1>1 DEF Starts, Most
<1>13. /\ run.sock[s].state # "closed" /\ run.sock[s].peer
       /\ run.sock[s].state = "open" => run.sock[s].reading
       /\ IsInjective(run.sock[s].slots)
       /\ run.sock[s].numWorker = Len(run.sock[s].slots) /\ run.sock[s].slots # <<>>
  BY <1>4 DEF Joins
<1> QED BY <1>1, <1>2, <1>5, <1>7, <1>8, <1>9, <1>10, <1>11, <1>12, <1>13 DEF Before

(* Nobody was run: the list has those that wait. *)
LEMMA BeforeInv ==
  ASSUME NEW st, NEW s, Before(st, s, ToSet(st.sock[s].que)), IsInjective(st.sock[s].que),
         Held(st, s)
  PROVE  Inv(st)
<1>1. SocketOK(st, s)
  BY DEF Before, SocketOK
<1>2. \A t \in DOMAIN st.sock : SocketOK(st, t) /\ Held(st, t)
  BY <1>1 DEF Before
<1> QED BY <1>2 DEF Before, Inv, Most

(* The worker runs at once, or waits behind a connect or an upload. *)
LEMMA StartsInv ==
  ASSUME NEW st, Inv(st), NEW run, NEW w, NEW r, NEW s, Starts(st, run, w, r, s),
         \A v \in DOMAIN st.work : Client(st.work[v]) # r
  PROVE  Inv(hin_fcgi_worker_run(Loop(run), run, w))
<1> DEFINE l == run.sock[s].que
           y == hin_fcgi_worker_run(Loop(run), run, w)
<1>1. Before(run, s, ToSet(l) \cup {w})
  BY StartsBefore
<1>2. /\ run \in GroupType /\ s \in DOMAIN run.sock /\ w \in DOMAIN run.work
      /\ run.work[w].socket = s /\ run.work[w].http = r /\ r \in Requests
      /\ Queued(run.work[w])
  BY DEF Starts
<1>3. s # None /\ s \in Nat /\ w \in Nat /\ run.sock[s] \in SocketType /\ r # NoRequest
  BY <1>2, Typed, FcgiAssumption
<1>4. run.sock[s].busy \in BOOLEAN /\ l \in Seq(Nat)
  BY <1>3 DEF SocketType
<1>5. Joins(st, run, w, s)
  BY DEF Starts
<1>6. \A v \in DOMAIN run.work : Uploads(run, v, s) => v \in DOMAIN st.work /\ v # w /\ Uploads(st, v, s)
  <2>1. ~Uploads(run, w, s)
    BY <1>2 DEF Uploads, Queued
  <2> QED BY <2>1 DEF Uploads, Starts
<1>7. \A v \in DOMAIN st.work : Uploads(st, v, s) => v \in DOMAIN run.work /\ Uploads(run, v, s)
  BY DEF Uploads, Starts, Idle
<1>8. w \notin ToSet(l)
  <2>1. CASE s \in DOMAIN st.sock
    <3>1. SocketOK(st, s) /\ l = st.sock[s].que
      BY <1>5, <2>1 DEF Inv, Most, Joins
    <3>2. w \in DOMAIN st.work => ~Queued(st.work[w])
      BY DEF Starts, Idle, Queued
    <3> QED BY <1>3, <3>1, <3>2 DEF SocketOK
  <2>2. CASE s \notin DOMAIN st.sock
    <3>1. l = <<>>
      BY <1>5, <2>2 DEF Joins
    <3> QED BY <3>1 DEF ToSet
  <2> QED BY <2>1, <2>2
<1>9. CASE run.sock[s].busy = TRUE
  <2> DEFINE k == [run.sock[s] EXCEPT !.que = Append(l, w)]
             z == SetS(run, s, k)
  <2>1. y = z
    <3>1. y = [run EXCEPT !.sock[s].que = Append(@, w)]
      BY <1>2, <1>3, <1>9 DEF hin_fcgi_worker_run
    <3>2. [run EXCEPT !.sock[s].que = Append(@, w)] = z
      BY DEF SetS
    <3> QED BY <3>1, <3>2
  <2>2. /\ Append(l, w) \in Seq(Nat) /\ IsInjective(Append(l, w))
        /\ ToSet(Append(l, w)) = ToSet(l) \cup {w}
    <3>1. IsInjective(l)
      BY <1>5 DEF Joins
    <3> QED BY <1>3, <1>4, <1>8, <3>1, AppendedElement, AppendProperties
  <2>3. /\ k \in SocketType /\ k.que = Append(l, w) /\ k.state = run.sock[s].state
        /\ k.peer = run.sock[s].peer /\ k.reading = run.sock[s].reading
        /\ k.slots = run.sock[s].slots /\ k.id = run.sock[s].id /\ k.busy = TRUE
        /\ k.numWorker = run.sock[s].numWorker
    <3> DEFINE m == Append(l, w)
    <3>1. m \in Seq(Nat)
      BY <2>2
    <3> HIDE DEF m
    <3>2. LET i == [run.sock[s] EXCEPT !.que = m]
          IN  /\ i \in SocketType /\ i.que = m /\ i.state = run.sock[s].state
              /\ i.peer = run.sock[s].peer /\ i.reading = run.sock[s].reading
              /\ i.slots = run.sock[s].slots /\ i.id = run.sock[s].id /\ i.busy = TRUE
              /\ i.numWorker = run.sock[s].numWorker
      BY <1>3, <1>9, <3>1 DEF SocketType
    <3> QED BY <3>2 DEF m
  <2> HIDE DEF k
  <2>4. Before(z, s, ToSet(l) \cup {w})
    BY <1>1, <1>5, <2>3, BeforeSet DEF Joins
  <2>5. z.sock[s] = k /\ z.work = run.work
    BY <1>2, <2>3, SetSDoes DEF Changed
  <2> HIDE DEF z
  <2>6. Held(z, s)
    <3>1. \A v \in DOMAIN z.work : Uploads(z, v, s) <=> Uploads(run, v, s)
      BY <2>5 DEF Uploads
    <3>2. CASE s \in DOMAIN st.sock
      <4>1. Held(st, s) /\ st.sock[s].state = k.state /\ st.sock[s].busy = TRUE /\ k.state # "closed"
        BY <1>5, <1>9, <2>3, <3>2 DEF Inv, Joins
      <4>2. k.state = "connecting" \/ \E v \in DOMAIN z.work : Uploads(z, v, s)
        BY <1>7, <2>5, <3>1, <4>1 DEF Held
      <4>3. \A u, v \in DOMAIN z.work : Uploads(z, u, s) /\ Uploads(z, v, s) => u = v
        BY <1>6, <2>5, <3>1, <4>1 DEF Held
      <4> QED BY <2>3, <2>5, <4>2, <4>3 DEF Held
    <3>3. CASE s \notin DOMAIN st.sock
      <4>1. \A v \in DOMAIN st.work : st.work[v].socket # s
        BY <1>3, <3>3 DEF Inv, Most, WorkersOK
      <4>2. \A v \in DOMAIN z.work : ~Uploads(z, v, s)
        BY <1>6, <2>5, <3>1, <4>1 DEF Uploads
      <4>3. k.state = "connecting"
        BY <1>5, <2>3, <3>3 DEF Joins
      <4> QED BY <2>3, <2>5, <4>2, <4>3 DEF Held
    <3> QED BY <3>2, <3>3
  <2>7. Inv(z)
    BY <2>2, <2>3, <2>4, <2>5, <2>6, BeforeInv
  <2> QED BY <2>1, <2>7
<1>10. CASE run.sock[s].busy = FALSE
  <2>1. s \in DOMAIN st.sock
    BY <1>5, <1>10 DEF Joins
  <2>2. Held(st, s) /\ st.sock[s].busy = FALSE /\ st.sock[s].state = run.sock[s].state /\ l = st.sock[s].que
        /\ run.sock[s].state # "closed"
    BY <1>5, <1>10, <2>1 DEF Inv, Joins
  <2>3. l = <<>> /\ run.sock[s].state # "connecting" /\ \A v \in DOMAIN st.work : ~Uploads(st, v, s)
    BY <2>2 DEF Held
  <2>4. Free(run, s)
    <3>1. run.sock[s].state = "open"
      BY <1>3, <2>2, <2>3 DEF SocketType
    <3> QED BY <1>6, <2>3, <3>1 DEF Free
  <2>5. Ready(run, s) /\ Comes(run, s, w)
    <3>1. IsInjective(l)
      BY <1>5 DEF Joins
    <3> DEFINE Q == ToSet(l) \cup {w}
    <3>2. Before(run, s, Q) /\ ToSet(l) \subseteq Q /\ w \in Q \ ToSet(l)
      BY <1>1, <1>8
    <3> HIDE DEF Q
    <3>3. Ready(run, s) /\ \A v \in Q \ ToSet(l) : Comes(run, s, v)
      BY <1>10, <3>1, <3>2, BeforeReady
    <3> QED BY <3>2, <3>3
  <2>6. Works(Loop(run), Len(l))
    BY <1>2, <2>5, LoopEnough
  <2>7. \E R : Drains(run, y, s, ToSet(l) \cup {w}, R)
    BY <2>5, <2>6, RunDoes
  <2> HIDE DEF y
  <2>8. Inv(y)
    BY <1>1, <2>4, <2>7, DrainInv
  <2> QED BY <2>8 DEF y
<1> QED BY <1>4, <1>9, <1>10

(* The first of a list without duplicates, and the rest. *)
LEMMA FirstAndRest ==
  ASSUME NEW S, NEW l \in Seq(S), IsInjective(l), l # <<>>
  PROVE  /\ Head(l) \in ToSet(l) /\ Tail(l) \in Seq(S) /\ IsInjective(Tail(l))
         /\ ToSet(Tail(l)) = ToSet(l) \ {Head(l)}
<1> DEFINE n == Len(l)
           t == Tail(l)
<1>1. n \in Nat /\ DOMAIN l = 1 .. n /\ \A x : x \in ToSet(l) <=> \E i \in 1 .. n : l[i] = x
  BY Elements, LenProperties
<1>2. n # 0
  BY <1>1, EmptySeq
<1>3. /\ t \in Seq(S) /\ Len(t) = n - 1 /\ \A i \in 1 .. (n - 1) : t[i] = l[i + 1]
  BY HeadTailProperties
<1>4. Head(l) = l[1]
  OBVIOUS
<1>5. DOMAIN t = 1 .. (n - 1) /\ \A x : x \in ToSet(t) <=> \E i \in 1 .. (n - 1) : t[i] = x
  BY <1>3, Elements, LenProperties
<1> HIDE DEF t, n
<1>6. \A i, j \in 1 .. n : l[i] = l[j] => i = j
  BY <1>1 DEF IsInjective
<1>7. \A i, j \in 1 .. (n - 1) : t[i] = t[j] => i = j
  <2> SUFFICES ASSUME NEW i \in 1 .. (n - 1), NEW j \in 1 .. (n - 1), t[i] = t[j] PROVE i = j
    OBVIOUS
  <2>1. i + 1 \in 1 .. n /\ j + 1 \in 1 .. n /\ l[i + 1] = l[j + 1]
    BY <1>1, <1>3
  <2>2. i + 1 = j + 1
    BY <1>6, <2>1
  <2> QED BY <1>1, <2>2
<1>8. IsInjective(t)
  BY <1>5, <1>7 DEF IsInjective
<1>9. \A x : x \in ToSet(t) <=> x \in ToSet(l) /\ x # l[1]
  <2> SUFFICES ASSUME NEW x PROVE x \in ToSet(t) <=> x \in ToSet(l) /\ x # l[1]
    OBVIOUS
  <2>1. ASSUME x \in ToSet(t) PROVE x \in ToSet(l) /\ x # l[1]
    <3>1. PICK i \in 1 .. (n - 1) : t[i] = x
      BY <1>5, <2>1
    <3>2. i + 1 \in 1 .. n /\ i + 1 # 1 /\ 1 \in 1 .. n /\ l[i + 1] = x
      BY <1>1, <1>2, <1>3, <3>1
    <3> QED BY <1>1, <1>6, <3>2
  <2>2. ASSUME x \in ToSet(l), x # l[1] PROVE x \in ToSet(t)
    <3>1. PICK i \in 1 .. n : l[i] = x
      BY <1>1, <2>2
    <3>2. i - 1 \in 1 .. (n - 1) /\ (i - 1) + 1 = i
      BY <1>1, <2>2, <3>1
    <3>3. t[i - 1] = x
      BY <1>3, <3>1, <3>2
    <3> QED BY <1>5, <3>2, <3>3
  <2> QED BY <2>1, <2>2
<1>10. l[1] \in ToSet(l)
  BY <1>1, <1>2
<1> QED BY <1>3, <1>4, <1>8, <1>9, <1>10 DEF t

(* The request as hin_fastcgi sets it up. *)
Opened(n) ==
  /\ n \in RequestType /\ n.flags = {"DATA", "FCGI"} /\ n.raw = FALSE
  /\ n.begun = 0 /\ n.ended = 0

(* The group once the request has its worker. *)
Picked(q, r, how) ==
  [hin_fcgi_get_worker(q, how).group EXCEPT !.work[hin_fcgi_get_worker(q, how).worker].http = r]

(* The request is one of a worker that waits. *)
LEMMA OpenedAgrees ==
  ASSUME NEW n, Opened(n), NEW k, Queued(k)
  PROVE  Agrees(k, n)
<1>1. {"DATA", "FCGI"} \cup (k.io \cap {"POST"}) = {"DATA", "FCGI"}
  BY DEF Queued
<1> QED BY <1>1 DEF Opened, Agrees, Queued, Quiet

(* An idle worker is taken from the list. *)
LEMMA ReuseStarts ==
  ASSUME NEW st, Inv(st), NEW r \in Requests, NEW n, Opened(n), st.idle # <<>>,
         NEW q, q = SetR(st, r, n), NEW how
  PROVE  \E s : Starts(st, Picked(q, r, how), hin_fcgi_get_worker(q, how).worker, r, s)
<1> DEFINE w == Head(st.idle)
           s == st.work[w].socket
           j == [st.work[w] EXCEPT !.io = {}]
           k == [j EXCEPT !.http = r]
           a == [q EXCEPT !.idle = Tail(@)]
           b == SetW(a, w, j)
           c == SetW(b, w, k)
<1>1. st \in GroupType /\ Most(st) /\ n \in RequestType /\ r # NoRequest
  BY FcgiAssumption DEF Inv, Most, Opened
<1>2. st.idle \in Seq(Nat) /\ IsInjective(st.idle)
  BY <1>1, Typed DEF Most, IdleOK
<1>3. /\ w \in ToSet(st.idle) /\ Tail(st.idle) \in Seq(Nat) /\ IsInjective(Tail(st.idle))
      /\ ToSet(Tail(st.idle)) = ToSet(st.idle) \ {w}
  BY <1>2, FirstAndRest
<1>4. w \in DOMAIN st.work /\ Idle(st.work[w])
  <2>1. w \in Nat
    BY <1>2, <1>3, Elements
  <2> QED BY <1>1, <1>3, <2>1 DEF Most, IdleOK
<1>5. st.work[w] \in WorkerType
  BY <1>1, <1>4, Typed
<1>6. j \in WorkerType /\ k \in WorkerType /\ Queued(k) /\ k.http = r /\ k.socket = s
  <2>1. /\ j \in WorkerType /\ j.io = {} /\ j.upload = st.work[w].upload
        /\ j.socket = s /\ j.freed = st.work[w].freed /\ j.header = st.work[w].header
        /\ j.out = st.work[w].out /\ j.writing = st.work[w].writing /\ j.pipe = st.work[w].pipe
        /\ j.pending = st.work[w].pending /\ j.back = st.work[w].back
    BY <1>5 DEF WorkerType
  <2> HIDE DEF j
  <2>2. /\ k \in WorkerType /\ k.http = r /\ k.io = j.io /\ k.upload = j.upload
        /\ k.socket = j.socket /\ k.freed = j.freed /\ k.header = j.header
        /\ k.out = j.out /\ k.writing = j.writing /\ k.pipe = j.pipe
        /\ k.pending = j.pending /\ k.back = j.back
    BY <2>1 DEF WorkerType
  <2> HIDE DEF k
  <2> QED BY <1>1, <1>4, <2>1, <2>2 DEF Queued, Idle, Quiet
<1>7. /\ q \in GroupType /\ Around(st, q) /\ q.work = st.work /\ q.sock = st.sock
      /\ Changed(st.req, q.req, r, n)
  BY <1>1, SetRDoes
<1>8. q.idle = st.idle /\ q.idle # <<>>
  BY <1>7 DEF Around
<1>9. /\ a \in GroupType /\ a.work = q.work /\ a.sock = q.sock /\ a.req = q.req
      /\ a.idle = Tail(st.idle) /\ a.slots = q.slots /\ a.stopped = q.stopped
      /\ a.bad = q.bad
  <2> DEFINE t == Tail(st.idle)
  <2>1. t \in Seq(Nat) /\ a = [q EXCEPT !.idle = t]
    BY <1>3, <1>8
  <2> HIDE DEF t, a
  <2>2. LET z == [q EXCEPT !.idle = t]
        IN  /\ z \in GroupType /\ z.work = q.work /\ z.sock = q.sock /\ z.req = q.req
            /\ z.idle = t /\ z.slots = q.slots /\ z.stopped = q.stopped
            /\ z.bad = q.bad
    BY <1>7, <2>1 DEF GroupType
  <2> QED BY <2>1, <2>2 DEF t
<1>10. /\ hin_fcgi_get_worker(q, how).worker = w
       /\ hin_fcgi_get_worker(q, how).group = [q EXCEPT !.idle = Tail(@), !.work[w].io = @ \ {"END"}]
  BY <1>8 DEF hin_fcgi_get_worker
<1>11. [q EXCEPT !.idle = Tail(@), !.work[w].io = @ \ {"END"}] = b
  <2>1. q.work[w].io \ {"END"} = {}
    BY <1>4, <1>7 DEF Idle
  <2>2. [q EXCEPT !.idle = Tail(@), !.work[w].io = {}] = b
    BY <1>7, <1>9 DEF SetW, GroupType
  <2> QED BY <2>1, <2>2
<1> HIDE DEF a, j
<1>12. /\ b \in GroupType /\ Around(a, b) /\ b.sock = a.sock /\ b.req = a.req
       /\ Changed(a.work, b.work, w, j)
  BY <1>4, <1>6, <1>7, <1>9, SetWDoes
<1> HIDE DEF b
<1>13. Picked(q, r, how) = c
  <2>1. b.work[w] = j
    BY <1>12 DEF Changed
  <2>2. Picked(q, r, how) = [b EXCEPT !.work[w].http = r]
    BY <1>10, <1>11 DEF Picked
  <2> QED BY <2>1, <2>2 DEF SetW
<1> HIDE DEF k
<1>14. /\ c \in GroupType /\ Around(b, c) /\ c.sock = b.sock /\ c.req = b.req
       /\ Changed(b.work, c.work, w, k)
  <2>1. w \in DOMAIN b.work
    BY <1>4, <1>7, <1>9, <1>12 DEF Changed
  <2> QED BY <1>6, <1>12, <2>1, SetWDoes
<1> HIDE DEF c
<1>15. /\ c.sock = st.sock /\ c.slots = st.slots /\ c.stopped = st.stopped
       /\ c.bad = st.bad /\ c.idle = Tail(st.idle)
       /\ c.req[r] = n /\ \A x \in Requests : x # r => c.req[x] = st.req[x]
       /\ DOMAIN c.work = DOMAIN st.work /\ c.work[w] = k
       /\ \A v \in DOMAIN st.work : v # w => c.work[v] = st.work[v]
  <2>1. DOMAIN st.req = Requests
    BY <1>1, Typed
  <2>2. /\ c.sock = st.sock /\ c.slots = st.slots /\ c.stopped = st.stopped
        /\ c.bad = st.bad /\ c.idle = Tail(st.idle)
    BY <1>7, <1>9, <1>12, <1>14 DEF Around
  <2>3. c.req[r] = n /\ \A x \in Requests : x # r => c.req[x] = st.req[x]
    BY <1>7, <1>9, <1>12, <1>14, <2>1 DEF Changed
  <2>4. /\ DOMAIN c.work = DOMAIN st.work /\ c.work[w] = k
        /\ \A v \in DOMAIN st.work : v # w => c.work[v] = st.work[v]
    BY <1>7, <1>9, <1>12, <1>14 DEF Changed
  <2> QED BY <2>2, <2>3, <2>4
<1>16. s # None /\ s \in DOMAIN st.sock /\ st.sock[s].state # "closed" /\ SocketOK(st, s)
  BY <1>1, <1>4 DEF Idle, Most, WorkersOK
<1>17. w \in ToSet(st.sock[s].slots)
  <2>1. w \in Nat
    BY <1>1, <1>4, Typed
  <2> QED BY <1>4, <1>16, <2>1 DEF SocketOK
<1>18. Joins(st, c, w, s)
  <2>1. ToSet(st.sock[s].slots) = ToSet(st.sock[s].slots) \cup {w}
    BY <1>17
  <2> QED BY <1>15, <1>16, <2>1 DEF Joins, SocketOK
<1>19. SlotsOK(c)
  BY <1>1, <1>15 DEF Most, SlotsOK
<1>20. Agrees(c.work[w], c.req[r])
  BY <1>6, <1>15, OpenedAgrees
<1>21. Starts(st, c, w, r, s)
  <2>1. DOMAIN c.work = DOMAIN st.work \cup {w} /\ DOMAIN c.sock = DOMAIN st.sock \cup {s}
    BY <1>4, <1>15, <1>16
  <2> QED BY <1>3, <1>4, <1>6, <1>14, <1>15, <1>18, <1>19, <1>20, <2>1 DEF Starts
<1> QED BY <1>10, <1>13, <1>21

(* From st to c the group found, or began to open, connection s. *)
Found(st, c, s) ==
  /\ c \in GroupType /\ c.work = st.work /\ c.req = st.req /\ c.idle = st.idle
  /\ c.stopped = st.stopped /\ c.bad = st.bad
  /\ DOMAIN c.sock = DOMAIN st.sock \cup {s}
  /\ \A t \in DOMAIN st.sock : c.sock[t] = st.sock[t]
  /\ c.sock[s].state # "closed" /\ SlotsOK(c)
  /\ s \notin DOMAIN st.sock =>
       /\ c.sock[s].state = "connecting" /\ c.sock[s].busy = TRUE /\ c.sock[s].que = <<>>
       /\ c.sock[s].slots = <<>> /\ c.sock[s].peer = TRUE /\ c.sock[s].numWorker = 0

(* hin_fcgi_get_socket, when there is a socket; its name may not resolve. *)
LEMMA GetSocketDoes ==
  ASSUME MaxSocket > 0, NEW st \in GroupType, SlotsOK(st),
         NEW how \in Connecting, how # "failed"
  PROVE  Found(st, hin_fcgi_get_socket(st, how).group, hin_fcgi_get_socket(st, how).socket)
<1> DEFINE pos == (st.cur % MaxSocket) + 1
           p == [st EXCEPT !.cur = pos % MaxSocket]
           new == NewSocket(pos, how)
           n == Len(st.sock) + 1
           l == Append(st.sock, new)
           sl == [i \in 1 .. MaxSocket |-> IF i = pos THEN n ELSE st.slots[i]]
           c == [[p EXCEPT !.sock = l] EXCEPT !.slots = sl]
<1>1. /\ MaxSocket \in Nat /\ st.cur \in Nat /\ st.slots \in [1 .. MaxSocket -> Nat]
      /\ st.sock \in Seq(SocketType) /\ Len(st.sock) \in Nat /\ DOMAIN st.sock = 1 .. Len(st.sock)
  BY FcgiAssumption, Typed DEF GroupType
<1>2. \A x \in Nat : x % MaxSocket \in 0 .. (MaxSocket - 1)
  BY <1>1
<1>3. pos \in 1 .. MaxSocket /\ pos % MaxSocket \in Nat /\ pos # None /\ pos \in Nat
  <2>1. pos \in 1 .. MaxSocket
    <3> DEFINE m == st.cur % MaxSocket
    <3>1. m \in 0 .. (MaxSocket - 1)
      BY <1>1, <1>2
    <3> HIDE DEF m
    <3>2. m + 1 \in 1 .. MaxSocket
      BY <1>1, <3>1
    <3> QED BY <3>2 DEF m
  <2>2. pos \in Nat
    BY <2>1
  <2> HIDE DEF pos
  <2>3. pos % MaxSocket \in 0 .. (MaxSocket - 1)
    BY <1>2, <2>2
  <2> QED BY <2>1, <2>2, <2>3 DEF None
<1>4. /\ hin_fcgi_get_socket(st, how).group =
           IF st.slots[pos] # None THEN p
           ELSE [p EXCEPT !.sock = Append(@, new),
                          !.slots = [i \in DOMAIN @ |-> IF i = pos THEN n ELSE @[i]]]
      /\ hin_fcgi_get_socket(st, how).socket = IF st.slots[pos] # None THEN st.slots[pos] ELSE n
  <2>1. pos # None
    BY <1>3
  <2> QED BY <2>1 DEF hin_fcgi_get_socket
<1> HIDE DEF pos
<1>5. /\ p \in GroupType /\ p.work = st.work /\ p.req = st.req /\ p.idle = st.idle
      /\ p.stopped = st.stopped /\ p.bad = st.bad
      /\ p.sock = st.sock /\ p.slots = st.slots
  <2> DEFINE m == pos % MaxSocket
  <2>1. m \in Nat
    BY <1>3
  <2> HIDE DEF m
  <2>2. LET z == [st EXCEPT !.cur = m]
        IN  /\ z \in GroupType /\ z.work = st.work /\ z.req = st.req /\ z.idle = st.idle
            /\ z.stopped = st.stopped /\ z.bad = st.bad
            /\ z.sock = st.sock /\ z.slots = st.slots
    BY <2>1 DEF GroupType
  <2> QED BY <2>2 DEF m
<1> HIDE DEF p
<1>6. CASE st.slots[pos] # None
  <2> DEFINE s == st.slots[pos]
  <2>1. s \in DOMAIN st.sock /\ st.sock[s].state # "closed"
    BY <1>3, <1>6 DEF SlotsOK
  <2>2. SlotsOK(p)
    BY <1>5 DEF SlotsOK
  <2>3. DOMAIN p.sock = DOMAIN st.sock \cup {s}
    BY <1>5, <2>1
  <2>4. Found(st, p, s)
    BY <1>5, <2>1, <2>2, <2>3 DEF Found
  <2> QED BY <1>4, <1>6, <2>4
<1>7. CASE st.slots[pos] = None
  <2>1. new \in SocketType
    <3>1. pos \in Nat
      BY <1>3
    <3> QED BY <3>1 DEF SocketType, NewSocket
  <2>2. /\ new.state = "connecting" /\ new.busy = TRUE /\ new.que = <<>> /\ new.slots = <<>> /\ new.peer = TRUE /\ new.id = pos
        /\ new.numWorker = 0
    BY DEF NewSocket
  <2> HIDE DEF new
  <2>3. /\ l \in Seq(SocketType) /\ DOMAIN l = DOMAIN st.sock \cup {n} /\ l[n] = new
        /\ \A t \in DOMAIN st.sock : l[t] = st.sock[t]
        /\ n \notin DOMAIN st.sock /\ n \in Nat /\ n # None
    <3>1. /\ l \in Seq(SocketType) /\ Len(l) = Len(st.sock) + 1 /\ l[Len(st.sock) + 1] = new
          /\ \A i \in 1 .. Len(st.sock) : l[i] = st.sock[i]
      BY <1>1, <2>1, AppendProperties
    <3>2. DOMAIN l = 1 .. (Len(st.sock) + 1)
      BY <3>1, LenProperties
    <3>3. 1 .. (Len(st.sock) + 1) = (1 .. Len(st.sock)) \cup {Len(st.sock) + 1}
      BY <1>1
    <3>4. n \notin DOMAIN st.sock /\ n \in Nat /\ n # None
      BY <1>1 DEF None
    <3> QED BY <1>1, <3>1, <3>2, <3>3, <3>4
  <2> HIDE DEF n
  <2>4. sl \in [1 .. MaxSocket -> Nat] /\ \A i \in 1 .. MaxSocket : sl[i] = IF i = pos THEN n ELSE st.slots[i]
    BY <1>1, <2>3
  <2>5. [p EXCEPT !.sock = Append(@, new),
                  !.slots = [i \in DOMAIN @ |-> IF i = pos THEN n ELSE @[i]]] = c
    <3>1. [p EXCEPT !.sock = Append(@, new), !.slots = [i \in DOMAIN @ |-> IF i = pos THEN n ELSE @[i]]] =
          [p EXCEPT !.sock = Append(p.sock, new),
                    !.slots = [i \in DOMAIN p.slots |-> IF i = pos THEN n ELSE p.slots[i]]]
      OBVIOUS
    <3>2. [i \in DOMAIN p.slots |-> IF i = pos THEN n ELSE p.slots[i]] = sl
      BY <1>1, <1>5
    <3>3. \A x, y : [p EXCEPT !.sock = x, !.slots = y] = [[p EXCEPT !.sock = x] EXCEPT !.slots = y]
      BY <1>5 DEF GroupType
    <3> HIDE DEF sl
    <3> QED BY <1>5, <3>1, <3>2, <3>3
  <2> HIDE DEF l, sl
  <2>6. /\ c \in GroupType /\ c.work = p.work /\ c.req = p.req /\ c.idle = p.idle
        /\ c.stopped = p.stopped /\ c.bad = p.bad
        /\ c.sock = l /\ c.slots = sl
    <3> DEFINE d == [p EXCEPT !.sock = l]
    <3>1. /\ d \in GroupType /\ d.work = p.work /\ d.req = p.req /\ d.idle = p.idle
          /\ d.stopped = p.stopped /\ d.bad = p.bad
          /\ d.sock = l
      BY <1>5, <2>3 DEF GroupType
    <3> HIDE DEF d
    <3>2. LET z == [d EXCEPT !.slots = sl]
          IN  /\ z \in GroupType /\ z.work = d.work /\ z.req = d.req /\ z.idle = d.idle
              /\ z.stopped = d.stopped /\ z.bad = d.bad
              /\ z.sock = d.sock /\ z.slots = sl
      BY <2>4, <3>1 DEF GroupType
    <3> QED BY <3>1, <3>2 DEF d
  <2> HIDE DEF c
  <2>7. SlotsOK(c)
    <3> SUFFICES ASSUME NEW i \in 1 .. MaxSocket, c.slots[i] # None
                 PROVE  /\ c.slots[i] \in DOMAIN c.sock /\ c.sock[c.slots[i]].state # "closed"
                        /\ c.sock[c.slots[i]].id = i
      BY DEF SlotsOK
    <3>1. CASE i = pos
      BY <2>2, <2>3, <2>4, <2>6, <3>1
    <3>2. CASE i # pos
      <4>1. c.slots[i] = st.slots[i]
        BY <2>4, <2>6, <3>2
      <4>2. st.slots[i] \in DOMAIN st.sock /\ st.sock[st.slots[i]].state # "closed" /\ st.sock[st.slots[i]].id = i
        BY <4>1 DEF SlotsOK
      <4> QED BY <2>3, <2>6, <4>1, <4>2
    <3> QED BY <3>1, <3>2
  <2>8. Found(st, c, n)
    BY <1>5, <2>2, <2>3, <2>6, <2>7 DEF Found
  <2> QED BY <1>4, <1>7, <2>5, <2>8 DEF n
<1> QED BY <1>6, <1>7

(* The record of a new worker of connection s. *)
Fresh(s) ==
  [socket |-> s, freed |-> FALSE, io |-> {}, http |-> NoRequest,
   header |-> FALSE, out |-> "none", writing |-> FALSE,
   upload |-> NoRequest, pipe |-> FALSE, pipeFor |-> NoRequest,
   pending |-> FALSE, back |-> <<>>]

(* A connection gets a new slot. *)
Widened(k, m) == [k EXCEPT !.numWorker = @ + 1, !.slots = Append(@, m)]

(* Nobody is idle: a new worker of a connection that was found. *)
LEMMA FreshStarts ==
  ASSUME MaxSocket > 0, NEW st, Inv(st), NEW r \in Requests, NEW n, Opened(n), st.idle = <<>>,
         NEW q, q = SetR(st, r, n), NEW how \in Connecting, how # "failed"
  PROVE  \E s : Starts(st, Picked(q, r, how), hin_fcgi_get_worker(q, how).worker, r, s)
<1> DEFINE c == hin_fcgi_get_socket(q, how).group
           s == hin_fcgi_get_socket(q, how).socket
           m == Len(q.work) + 1
           new == Fresh(s)
           k == [new EXCEPT !.http = r]
           S == Widened(c.sock[s], m)
           d == SetS(c, s, S)
           l == Append(d.work, new)
           e == [d EXCEPT !.work = l]
           run == SetW(e, m, k)
<1>1. st \in GroupType /\ Most(st) /\ n \in RequestType /\ r # NoRequest
  BY FcgiAssumption DEF Inv, Most, Opened
<1>2. /\ q \in GroupType /\ Around(st, q) /\ q.work = st.work /\ q.sock = st.sock
      /\ q.req[r] = n /\ \A a \in Requests : a # r => q.req[a] = st.req[a]
  <2>1. /\ q \in GroupType /\ Around(st, q) /\ q.work = st.work /\ q.sock = st.sock
        /\ Changed(st.req, q.req, r, n)
    BY <1>1, SetRDoes
  <2>2. DOMAIN st.req = Requests
    BY <1>1, Typed
  <2> QED BY <2>1, <2>2 DEF Changed
<1>3. q.idle = <<>> /\ SlotsOK(q)
  BY <1>1, <1>2 DEF Around, Most, SlotsOK
<1>4. Found(q, c, s)
  BY <1>2, <1>3, GetSocketDoes
<1>5. /\ hin_fcgi_get_worker(q, how).worker = m
      /\ hin_fcgi_get_worker(q, how).group =
           [c EXCEPT !.work = Append(@, new), !.sock[s].numWorker = @ + 1,
                     !.sock[s].slots = Append(@, m)]
  BY <1>3 DEF hin_fcgi_get_worker, Fresh
<1> HIDE DEF c, s
<1>6. /\ c \in GroupType /\ s \in DOMAIN c.sock /\ c.work = st.work /\ SlotsOK(c)
      /\ c.sock[s].state # "closed"
      /\ DOMAIN c.sock = DOMAIN st.sock \cup {s}
      /\ \A t \in DOMAIN st.sock : c.sock[t] = st.sock[t]
  BY <1>2, <1>4 DEF Found
<1>7. s \in Nat /\ s # None /\ c.sock[s] \in SocketType
  BY <1>6, Typed
<1>8. /\ m \in Nat /\ m \notin DOMAIN st.work /\ DOMAIN st.work = 1 .. Len(st.work)
      /\ 1 .. m = (1 .. Len(st.work)) \cup {m} /\ m = Len(st.work) + 1
  <2>1. q.work = st.work /\ st \in GroupType
    BY <1>1, <1>2
  <2>2. Len(st.work) \in Nat /\ DOMAIN st.work = 1 .. Len(st.work) /\ m = Len(st.work) + 1
    BY <2>1, Typed
  <2> HIDE DEF m
  <2> QED BY <2>2
<1> HIDE DEF m
<1>9. /\ new \in WorkerType /\ k \in WorkerType /\ Queued(k) /\ k.http = r /\ k.socket = s
  <2>1. new \in WorkerType
    <3>1. {} \in SUBSET {"DATA", "POST", "END"} /\ NoRequest \in Requests \cup {NoRequest}
          /\ <<>> \in Seq(Requests)
      OBVIOUS
    <3> QED BY <1>7, <3>1 DEF Fresh, WorkerType
  <2>2. /\ new.io = {} /\ new.upload = NoRequest /\ new.socket = s /\ new.freed = FALSE
        /\ new.header = FALSE /\ new.out = "none" /\ new.writing = FALSE /\ new.pipe = FALSE
        /\ new.pending = FALSE /\ new.back = <<>>
    BY DEF Fresh
  <2> HIDE DEF new
  <2>3. /\ k \in WorkerType /\ k.http = r /\ k.io = new.io /\ k.upload = new.upload
        /\ k.socket = new.socket /\ k.freed = new.freed /\ k.header = new.header
        /\ k.out = new.out /\ k.writing = new.writing /\ k.pipe = new.pipe
        /\ k.pending = new.pending /\ k.back = new.back
    BY <2>1 DEF WorkerType
  <2> HIDE DEF k
  <2> QED BY <1>1, <1>7, <2>1, <2>2, <2>3 DEF Queued, Quiet
<1>10. c.sock[s].slots \in Seq(Nat) /\ IsInjective(c.sock[s].slots) /\ m \notin ToSet(c.sock[s].slots)
       /\ IsInjective(c.sock[s].que) /\ c.sock[s].numWorker = Len(c.sock[s].slots)
  <2>1. c.sock[s].slots \in Seq(Nat)
    BY <1>7 DEF SocketType
  <2>2. CASE s \in DOMAIN st.sock
    <3>1. SocketOK(st, s) /\ c.sock[s] = st.sock[s]
      BY <1>1, <1>6, <2>2 DEF Most
    <3> QED BY <1>6, <1>8, <2>1, <3>1 DEF SocketOK
  <2>3. CASE s \notin DOMAIN st.sock
    <3>1. c.sock[s].slots = <<>> /\ c.sock[s].que = <<>> /\ c.sock[s].numWorker = 0
      BY <1>2, <1>4, <2>3 DEF Found
    <3> QED BY <2>1, <3>1 DEF IsInjective, ToSet
  <2> QED BY <2>2, <2>3
<1>11. /\ Append(c.sock[s].slots, m) \in Seq(Nat) /\ IsInjective(Append(c.sock[s].slots, m))
       /\ ToSet(Append(c.sock[s].slots, m)) = ToSet(c.sock[s].slots) \cup {m}
       /\ Len(Append(c.sock[s].slots, m)) = Len(c.sock[s].slots) + 1
       /\ Append(c.sock[s].slots, m) # <<>>
  BY <1>8, <1>10, AppendedElement, AppendProperties
<1>12. /\ S \in SocketType /\ S.slots = Append(c.sock[s].slots, m) /\ S.state = c.sock[s].state
       /\ S.busy = c.sock[s].busy /\ S.que = c.sock[s].que /\ S.reading = c.sock[s].reading
       /\ S.peer = c.sock[s].peer /\ S.id = c.sock[s].id
       /\ S.numWorker = c.sock[s].numWorker + 1
  <2> DEFINE x == Append(c.sock[s].slots, m)
             z == c.sock[s]
  <2>1. x \in Seq(Nat) /\ z \in SocketType /\ S = [z EXCEPT !.numWorker = z.numWorker + 1, !.slots = x]
    BY <1>7, <1>11 DEF Widened
  <2>2. z.numWorker + 1 \in Nat
    BY <2>1 DEF SocketType
  <2> HIDE DEF x, z, S
  <2>3. /\ S \in SocketType /\ S.slots = x /\ S.state = z.state
        /\ S.busy = z.busy /\ S.que = z.que /\ S.reading = z.reading
        /\ S.peer = z.peer /\ S.id = z.id /\ S.numWorker = z.numWorker + 1
    BY <2>1, <2>2 DEF SocketType
  <2> QED BY <2>3 DEF x, z
<1>13. [c EXCEPT !.work = Append(@, new), !.sock[s].numWorker = @ + 1, !.sock[s].slots = Append(@, m)] = e
  <2>1. d = [c EXCEPT !.sock[s].numWorker = @ + 1, !.sock[s].slots = Append(@, m)]
    BY <1>6, <1>7 DEF SetS, Widened, GroupType
  <2>2. d.work = c.work
    BY <1>6, <1>12, SetSDoes
  <2> HIDE DEF new, d
  <2>3. [c EXCEPT !.work = Append(@, new), !.sock[s].numWorker = @ + 1, !.sock[s].slots = Append(@, m)] =
        [[c EXCEPT !.sock[s].numWorker = @ + 1, !.sock[s].slots = Append(@, m)] EXCEPT !.work = Append(c.work, new)]
    BY <1>6 DEF GroupType
  <2> QED BY <2>1, <2>2, <2>3
<1> HIDE DEF S
<1>14. /\ d \in GroupType /\ Around(c, d) /\ d.work = c.work /\ d.req = c.req
       /\ DOMAIN d.sock = DOMAIN c.sock /\ d.sock[s] = S
       /\ \A t \in DOMAIN c.sock : t # s => d.sock[t] = c.sock[t]
  BY <1>6, <1>12, SetSDoes DEF Changed
<1> HIDE DEF d, new, k
<1>15. /\ l \in Seq(WorkerType) /\ DOMAIN l = DOMAIN st.work \cup {m} /\ l[m] = new
       /\ \A v \in DOMAIN st.work : l[v] = st.work[v]
  <2>1. /\ l \in Seq(WorkerType) /\ Len(l) = Len(d.work) + 1 /\ l[Len(d.work) + 1] = new
        /\ \A i \in 1 .. Len(d.work) : l[i] = d.work[i]
    <3>1. d.work \in Seq(WorkerType)
      BY <1>14, Typed
    <3> QED BY <1>9, <3>1, AppendProperties
  <2>2. DOMAIN l = 1 .. m
    BY <1>6, <1>8, <1>14, <2>1, LenProperties
  <2> QED BY <1>6, <1>8, <1>14, <2>1, <2>2
<1> HIDE DEF l
<1>16. /\ e \in GroupType /\ e.work = l /\ e.sock = d.sock /\ e.req = d.req /\ Around(d, e)
  <2>1. \A x \in Seq(WorkerType) : LET z == [d EXCEPT !.work = x]
                                   IN  /\ z \in GroupType /\ z.work = x /\ z.sock = d.sock
                                       /\ z.req = d.req /\ Around(d, z)
    BY <1>14 DEF GroupType, Around
  <2> QED BY <1>15, <2>1
<1> HIDE DEF e
<1>17. Picked(q, r, how) = run
  <2>1. Picked(q, r, how) = [e EXCEPT !.work[m].http = r]
    BY <1>5, <1>13 DEF Picked
  <2> QED BY <1>15, <1>16, <2>1 DEF SetW, k
<1>18. /\ run \in GroupType /\ Around(e, run) /\ run.sock = e.sock /\ run.req = e.req
       /\ Changed(e.work, run.work, m, k)
  BY <1>9, <1>15, <1>16, SetWDoes
<1> HIDE DEF run
<1>19. /\ DOMAIN run.work = DOMAIN st.work \cup {m} /\ run.work[m] = k
       /\ \A v \in DOMAIN st.work : v # m => run.work[v] = st.work[v]
  BY <1>15, <1>16, <1>18 DEF Changed
<1>20. /\ run.req = q.req /\ run.idle = st.idle /\ run.stopped = st.stopped
       /\ run.bad = st.bad /\ run.slots = c.slots
       /\ run.sock = d.sock
  <2>1. /\ run.idle = c.idle /\ run.stopped = c.stopped
        /\ run.bad = c.bad /\ run.slots = c.slots /\ run.req = c.req /\ run.sock = d.sock
    BY <1>14, <1>16, <1>18 DEF Around
  <2>2. /\ c.idle = q.idle /\ c.stopped = q.stopped /\ c.bad = q.bad
        /\ c.req = q.req
    BY <1>4 DEF Found
  <2> QED BY <1>2, <2>1, <2>2 DEF Around
<1>21. SlotsOK(run)
  <2>1. \A t \in DOMAIN c.sock : run.sock[t].state = c.sock[t].state /\ run.sock[t].id = c.sock[t].id
    BY <1>12, <1>14, <1>20
  <2> QED BY <1>6, <1>14, <1>20, <2>1 DEF SlotsOK
<1>22. Joins(st, run, m, s)
  <2>1. /\ run.sock[s] = S /\ IsInjective(S.slots) /\ ToSet(S.slots) = ToSet(c.sock[s].slots) \cup {m}
        /\ S.numWorker = Len(S.slots) /\ S.slots # <<>>
    BY <1>10, <1>11, <1>12, <1>14, <1>20
  <2>2. CASE s \in DOMAIN st.sock
    <3>1. c.sock[s] = st.sock[s] /\ SocketOK(st, s)
      BY <1>1, <1>6, <2>2 DEF Most
    <3> QED BY <1>6, <1>10, <1>12, <2>1, <2>2, <3>1 DEF Joins, SocketOK
  <2>3. CASE s \notin DOMAIN st.sock
    <3>1. /\ c.sock[s].state = "connecting" /\ c.sock[s].busy = TRUE /\ c.sock[s].que = <<>>
          /\ c.sock[s].slots = <<>> /\ c.sock[s].peer = TRUE
      BY <1>2, <1>4, <2>3 DEF Found
    <3>2. ToSet(S.slots) = {m}
      <4>1. ToSet(<<>>) = {}
        BY DEF ToSet
      <4> QED BY <2>1, <3>1, <4>1
    <3> QED BY <1>10, <1>12, <2>1, <2>3, <3>1, <3>2 DEF Joins
  <2> QED BY <2>2, <2>3
<1>23. Agrees(run.work[m], run.req[r])
  BY <1>2, <1>9, <1>19, <1>20, OpenedAgrees
<1>24. IsInjective(run.idle) /\ ToSet(run.idle) = ToSet(st.idle) \ {m}
  <2>1. run.idle = <<>>
    BY <1>20
  <2> QED BY <2>1 DEF IsInjective, ToSet
<1>25. Starts(st, run, m, r, s)
  <2>1. /\ DOMAIN run.sock = DOMAIN st.sock \cup {s}
        /\ \A t \in DOMAIN st.sock : t # s => run.sock[t] = st.sock[t]
    BY <1>6, <1>14, <1>20
  <2>2. \A a \in Requests : a # r => run.req[a] = st.req[a]
    BY <1>2, <1>20
  <2> QED BY <1>8, <1>9, <1>18, <1>19, <1>20, <1>21, <1>22, <1>23, <1>24, <2>1, <2>2 DEF Starts
<1> QED BY <1>5, <1>17, <1>25

(* hin_fastcgi *)
LEMMA StartInv ==
  ASSUME MaxSocket > 0, IInv, NEW r \in Requests, Start(r), faults' = {}
  PROVE  IInv'
<1>0. PICK how \in Connecting :
        /\ g' = hin_fastcgi(g, r, how)
        /\ how = "failed" => g.stopped \/ "socket" \in faults'
  BY DEF Start, Note
<1> DEFINE n == [g.req[r] EXCEPT !.flags = {"DATA", "FCGI"}]
           q == SetR(g, r, n)
           w == hin_fcgi_get_worker(q, how).worker
           run == Picked(q, r, how)
<1>1. Inv(g) /\ Most(g) /\ g \in GroupType /\ g.req[r].flags = {} /\ g.req[r].ended = 0
  BY DEF IInv, Inv, Most, Start, Untouched
<1>2. g.req[r] \in RequestType
  BY <1>1, Typed
<1>3. \A v \in DOMAIN g.work : Client(g.work[v]) # r
  <2> SUFFICES ASSUME NEW v \in DOMAIN g.work, Client(g.work[v]) = r PROVE FALSE
    OBVIOUS
  <2>1. Agrees(g.work[v], g.req[r])
    BY <1>1 DEF Most, RequestsOK
  <2>2. "DATA" \in g.req[r].flags \/ "POST" \in g.req[r].flags
    BY <2>1 DEF Agrees
  <2> QED BY <1>1, <2>2
<1>4. Alone(g.req[r])
  BY <1>1, <1>3 DEF Most, RequestsOK
<1>5. Opened(n)
  <2>1. g.req[r].raw = FALSE /\ g.req[r].begun = 0
    BY <1>1, <1>2, <1>4 DEF Alone, RequestType
  <2> QED BY <1>1, <1>2, <2>1 DEF Opened, RequestType
<1>6. [g EXCEPT !.req[r].flags = @ \cup {"DATA", "FCGI"}] = q
  <2>1. g.req[r].flags \cup {"DATA", "FCGI"} = {"DATA", "FCGI"}
    BY <1>1
  <2> QED BY <2>1 DEF SetR
<1>7. g.stopped = FALSE
  BY <1>1 DEF Most, GroupType
<1>8. g' = hin_fastcgi(g, r, how) /\ how # "failed"
  <2>1. "socket" \notin faults'
    OBVIOUS
  <2> QED BY <1>0, <1>7, <2>1
<1> HIDE DEF n, q
<1>9. hin_fastcgi(g, r, how) = hin_fcgi_worker_run(Loop(run), run, w)
  BY <1>6, <1>7 DEF hin_fastcgi, Picked
<1>10. PICK s : Starts(g, run, w, r, s)
  <2>1. q = SetR(g, r, n)
    BY DEF q
  <2>2. CASE g.idle = <<>>
    BY <1>1, <1>5, <1>8, <2>1, <2>2, FreshStarts
  <2>3. CASE g.idle # <<>>
    BY <1>1, <1>5, <2>1, <2>3, ReuseStarts
  <2> QED BY <2>2, <2>3
<1> HIDE DEF run, w
<1>11. Inv(hin_fcgi_worker_run(Loop(run), run, w))
  BY <1>1, <1>3, <1>10, StartsInv
<1>12. Inv(g')
  BY <1>8, <1>9, <1>11
<1> QED BY <1>12 DEF IInv

----------------------------------------------------------------------------
(* A connection that could not be made is closed. *)

(* What hin_fcgi_socket_close leaves of a worker that waits, and of its    *)
(* request. *)
Left(k) == [k EXCEPT !.http = NoRequest, !.socket = None, !.io = {"END"}, !.freed = TRUE]

Failed(q) == [q EXCEPT !.flags = {"DATA", "FCGI", "ERROR"}, !.begun = 1, !.raw = TRUE]

(* Of the workers of st those of D were abandoned. *)
Closing(st, q, D) ==
  /\ q \in GroupType /\ q.sock = st.sock /\ Around(st, q) /\ DOMAIN q.work = DOMAIN st.work
  /\ \A v \in DOMAIN st.work : q.work[v] = IF v \in D THEN Left(st.work[v]) ELSE st.work[v]
  /\ \A a \in Requests : q.req[a] = IF \E v \in D : st.work[v].http = a
                                    THEN Failed(st.req[a]) ELSE st.req[a]

(* The request of w is open, and of no worker in D. *)
Unserved(st, w, D) ==
  /\ st \in GroupType /\ w \in DOMAIN st.work /\ w \notin D /\ Queued(st.work[w])
  /\ st.work[w].http \in Requests /\ \A v \in D : st.work[v].http # st.work[w].http
  /\ Opened(st.req[st.work[w].http])

(* One worker is abandoned. *)
LEMMA AbandonDoes ==
  ASSUME NEW st, NEW w, NEW D, Unserved(st, w, D), NEW p, Closing(st, p, D)
  PROVE  Closing(st, Abandon(p, w), D \cup {w})
<1> DEFINE r == st.work[w].http
           n == Failed(st.req[r])
           a == httpd_error(p, r)
           j == [st.work[w] EXCEPT !.http = NoRequest, !.socket = None]
           b == SetW(a, w, j)
           k == Left(st.work[w])
           y == SetW(b, w, k)
<1>1. /\ st \in GroupType /\ w \in DOMAIN st.work /\ w \notin D /\ Queued(st.work[w])
      /\ r \in Requests /\ r # NoRequest /\ st.work[w] \in WorkerType
      /\ st.req[r] \in RequestType /\ st.req[r].flags = {"DATA", "FCGI"}
      /\ st.req[r].begun = 0 /\ st.req[r].ended = 0
  BY Typed, FcgiAssumption DEF Unserved, Opened
<1>2. /\ p \in GroupType /\ p.work[w] = st.work[w] /\ p.req[r] = st.req[r]
      /\ DOMAIN p.work = DOMAIN st.work
  BY <1>1 DEF Closing, Unserved
<1>3. n \in RequestType
  <2>1. {"DATA", "FCGI", "ERROR"} \in SUBSET {"DATA", "POST", "FCGI", "ERROR"}
    OBVIOUS
  <2> QED BY <1>1, <2>1 DEF Failed, RequestType
<1> DEFINE F == {"DATA", "FCGI", "ERROR"}
           x1 == [p EXCEPT !.req[r].flags = F]
           x2 == [x1 EXCEPT !.req[r].begun = 1]
           n1 == [st.req[r] EXCEPT !.flags = F]
           n2 == [n1 EXCEPT !.begun = 1]
<1>4. a = [x2 EXCEPT !.req[r].raw = TRUE]
  <2>1. (p.req[r].flags \ {"POST"}) \cup {"ERROR", "DATA"} = F
    BY <1>1, <1>2
  <2>2. p.req[r].begun + 1 = 1
    BY <1>1, <1>2
  <2>3. ~(p.req[r].ended > 0) /\ "ERROR" \notin p.req[r].flags
    BY <1>1, <1>2
  <2>4. a = [p EXCEPT !.req[r].flags = (@ \ {"POST"}) \cup {"ERROR", "DATA"},
                      !.req[r].begun = @ + 1, !.req[r].raw = TRUE]
    BY <2>3, Zenon DEF httpd_error
  <2> HIDE DEF F, a
  <2>5. a = [p EXCEPT !.req[r].flags = F, !.req[r].begun = 1, !.req[r].raw = TRUE]
    BY <2>1, <2>2, <2>4, Zenon
  <2> QED BY <2>5, Zenon
<1>5. /\ a \in GroupType /\ Around(p, a) /\ a.work = p.work /\ a.sock = p.sock
      /\ Changed(p.req, a.req, r, n)
  <2>1. n1 \in RequestType /\ n2 \in RequestType /\ n = [n2 EXCEPT !.raw = TRUE]
    <3>1. F \in SUBSET {"DATA", "POST", "FCGI", "ERROR"}
      OBVIOUS
    <3> QED BY <1>1, <3>1 DEF Failed, RequestType
  <2> HIDE DEF F, n, a
  <2>2. x1 = SetR(p, r, n1)
    BY <1>2 DEF SetR
  <2> HIDE DEF n1, x1
  <2>3. /\ x1 \in GroupType /\ Around(p, x1) /\ x1.work = p.work /\ x1.sock = p.sock
        /\ Changed(p.req, x1.req, r, n1)
    BY <1>1, <1>2, <2>1, <2>2, SetRDoes
  <2>4. x2 = SetR(x1, r, n2)
    BY <2>3 DEF SetR, Changed
  <2> HIDE DEF n2, x2
  <2>5. /\ x2 \in GroupType /\ Around(x1, x2) /\ x2.work = x1.work /\ x2.sock = x1.sock
        /\ Changed(x1.req, x2.req, r, n2)
    BY <1>1, <2>1, <2>3, <2>4, SetRDoes
  <2>6. a = SetR(x2, r, n)
    BY <1>4, <2>1, <2>5 DEF SetR, Changed
  <2>7. /\ a \in GroupType /\ Around(x2, a) /\ a.work = x2.work /\ a.sock = x2.sock
        /\ Changed(x2.req, a.req, r, n)
    BY <1>1, <1>3, <2>5, <2>6, SetRDoes
  <2> QED BY <2>3, <2>5, <2>7 DEF Around, Changed
<1> HIDE DEF n, a, x1, x2, n1, n2, F
<1>6. /\ j \in WorkerType /\ j.io = {} /\ [j EXCEPT !.io = {"END"}, !.freed = TRUE] = k
  BY <1>1 DEF WorkerType, Queued, Left, None
<1>7. k \in WorkerType
  <2>1. {"END"} \in SUBSET {"DATA", "POST", "END"}
    OBVIOUS
  <2> HIDE DEF j, k
  <2> QED BY <1>6, <2>1 DEF WorkerType
<1>8. [a EXCEPT !.work[w].http = NoRequest, !.work[w].socket = None] = b
  BY <1>1, <1>2, <1>5 DEF SetW, GroupType
<1> HIDE DEF j, k
<1>9. /\ b \in GroupType /\ Around(a, b) /\ b.sock = a.sock /\ b.req = a.req
      /\ Changed(a.work, b.work, w, j)
  BY <1>1, <1>2, <1>5, <1>6, SetWDoes
<1>10. b.work[w] = j /\ w \in DOMAIN b.work
  BY <1>1, <1>2, <1>5, <1>9 DEF Changed
<1> HIDE DEF b
<1>11. Abandon(p, w) = y
  <2>1. Abandon(p, w) = [b EXCEPT !.work[w].io = {"END"}, !.work[w].freed = TRUE]
    BY <1>1, <1>2, <1>6, <1>8, <1>10 DEF Abandon, a
  <2>2. [b EXCEPT !.work[w].io = {"END"}, !.work[w].freed = TRUE] =
          SetW(b, w, [b.work[w] EXCEPT !.io = {"END"}, !.freed = TRUE])
    BY <1>9, <1>10 DEF SetW, GroupType
  <2> QED BY <1>6, <1>10, <2>1, <2>2
<1>12. /\ y \in GroupType /\ Around(b, y) /\ y.sock = b.sock /\ y.req = b.req
       /\ Changed(b.work, y.work, w, k)
  BY <1>7, <1>9, <1>10, SetWDoes
<1> HIDE DEF y
<1>13. /\ y.sock = st.sock /\ Around(st, y) /\ DOMAIN y.work = DOMAIN st.work
       /\ y.work[w] = k /\ \A v \in DOMAIN st.work : v # w => y.work[v] = p.work[v]
       /\ y.req[r] = n /\ \A x \in Requests : x # r => y.req[x] = p.req[x]
  <2>1. Around(st, p) /\ p.sock = st.sock /\ DOMAIN p.req = Requests
    BY <1>2, Typed DEF Closing
  <2>2. y.sock = st.sock /\ Around(st, y)
    BY <1>5, <1>9, <1>12, <2>1 DEF Around
  <2>3. /\ DOMAIN y.work = DOMAIN st.work
        /\ y.work[w] = k /\ \A v \in DOMAIN st.work : v # w => y.work[v] = p.work[v]
    BY <1>2, <1>5, <1>9, <1>12 DEF Changed
  <2>4. y.req[r] = n /\ \A x \in Requests : x # r => y.req[x] = p.req[x]
    BY <1>5, <1>9, <1>12, <2>1 DEF Changed
  <2> QED BY <2>2, <2>3, <2>4
<1>14. ASSUME NEW v \in DOMAIN st.work
       PROVE  y.work[v] = IF v \in D \cup {w} THEN Left(st.work[v]) ELSE st.work[v]
  <2>1. CASE v = w
    BY <1>13, <2>1 DEF k
  <2>2. CASE v # w
    BY <1>13, <2>2 DEF Closing
  <2> QED BY <2>1, <2>2
<1>15. ASSUME NEW x \in Requests
       PROVE  y.req[x] = IF \E v \in D \cup {w} : st.work[v].http = x
                         THEN Failed(st.req[x]) ELSE st.req[x]
  <2>1. CASE x = r
    BY <1>13, <2>1 DEF n
  <2>2. CASE x # r
    <3>1. (\E v \in D \cup {w} : st.work[v].http = x) <=> \E v \in D : st.work[v].http = x
      BY <2>2
    <3> QED BY <1>13, <2>2, <3>1 DEF Closing
  <2> QED BY <2>1, <2>2
<1>16. Closing(st, y, D \cup {w})
  BY <1>12, <1>13, <1>14, <1>15 DEF Closing
<1> QED BY <1>11, <1>16

(* The loops over a list l of workers: hin_fcgi_clean frees them, and      *)
(* hin_fcgi_socket_close abandons those that are there. *)
Dropped(how, l, i, x) ==
  IF how = "free" THEN hin_fcgi_worker_free(x, l[i])
  ELSE IF l[i] = None THEN x ELSE Abandon(x, l[i])

IsAfter(how, f, st, l, n) ==
  f = [i \in 0 .. n |-> IF i = 0 THEN st ELSE Dropped(how, l, i, f[i - 1])]

(* Its recursive definition has a solution. *)
LEMMA AfterExists ==
  ASSUME NEW how, NEW st, NEW l, NEW n \in Nat
  PROVE  \E f : IsAfter(how, f, st, l, n)
<1> DEFINE T == {m \in Nat : ~ \E f : IsAfter(how, f, st, l, m)}
<1> SUFFICES ASSUME T # {} PROVE FALSE
  OBVIOUS
<1>1. PICK m \in T : \A j \in T : m <= j
  <2>1. T \in SUBSET Nat
    OBVIOUS
  <2> HIDE DEF T
  <2> QED BY <2>1, LeastNat
<1>2. m \in Nat /\ ~ \E f : IsAfter(how, f, st, l, m)
  OBVIOUS
<1>3. CASE m = 0
  <2> DEFINE f == [i \in 0 .. m |-> st]
  <2>1. \A i \in 0 .. m : i = 0
    BY <1>3
  <2>2. IsAfter(how, f, st, l, m)
    BY <2>1 DEF IsAfter
  <2> QED BY <1>2, <2>2
<1>4. CASE m # 0
  <2>1. m - 1 \in Nat /\ ~ (m <= m - 1)
    BY <1>2, <1>4
  <2>2. m - 1 \notin T
    BY <1>1, <2>1
  <2>3. PICK e : IsAfter(how, e, st, l, m - 1)
    BY <2>1, <2>2
  <2> DEFINE f == [i \in 0 .. m |-> IF i = m THEN Dropped(how, l, m, e[m - 1]) ELSE e[i]]
  <2>4. \A i \in 0 .. (m - 1) : e[i] = IF i = 0 THEN st ELSE Dropped(how, l, i, e[i - 1])
    BY <2>3 DEF IsAfter
  <2>5. \A i \in 0 .. m : i # m => i \in 0 .. (m - 1) /\ f[i] = e[i]
    BY <1>2
  <2>6. ASSUME NEW i \in 0 .. m
        PROVE  f[i] = IF i = 0 THEN st ELSE Dropped(how, l, i, f[i - 1])
    <3>1. CASE i = m
      <4>1. f[i] = Dropped(how, l, m, e[m - 1])
        BY <3>1
      <4>2. m - 1 \in 0 .. m /\ m - 1 # m
        BY <1>2, <1>4
      <4>3. f[m - 1] = e[m - 1]
        BY <2>5, <4>2
      <4> QED BY <1>4, <3>1, <4>1, <4>3
    <3>2. CASE i # m /\ i = 0
      BY <2>4, <2>5, <3>2
    <3>3. CASE i # m /\ i # 0
      <4>1. f[i] = Dropped(how, l, i, e[i - 1])
        BY <2>4, <2>5, <3>3
      <4>2. i - 1 \in 0 .. m /\ i - 1 # m
        BY <1>2, <3>3
      <4>3. f[i - 1] = e[i - 1]
        BY <2>5, <4>2
      <4> QED BY <3>3, <4>1, <4>3
    <3> QED BY <3>1, <3>2, <3>3
  <2>7. f = [i \in 0 .. m |-> f[i]]
    OBVIOUS
  <2> HIDE DEF f
  <2>8. f = [i \in 0 .. m |-> IF i = 0 THEN st ELSE Dropped(how, l, i, f[i - 1])]
    BY <2>6, <2>7
  <2> QED BY <1>2, <2>8 DEF IsAfter
<1> QED BY <1>3, <1>4

(* ... and goes over the list one by one. *)
LEMMA AfterSteps ==
  ASSUME NEW how, NEW f, NEW st, NEW l, NEW n \in Nat, IsAfter(how, f, st, l, n)
  PROVE  f[0] = st /\ \A i \in 0 .. n : i # 0 => f[i] = Dropped(how, l, i, f[i - 1])
<1>1. 0 \in 0 .. n
  OBVIOUS
<1>2. \A i \in 0 .. n : f[i] = IF i = 0 THEN st ELSE Dropped(how, l, i, f[i - 1])
  BY Zenon DEF IsAfter
<1> QED BY <1>1, <1>2

(* The group as hin_fcgi_socket_close leaves it after its loop. *)
Shut(st, q, s) ==
  [q EXCEPT !.sock[s].state = "closed", !.sock[s].slots = <<>>, !.sock[s].que = <<>>,
            !.slots = [i \in DOMAIN @ |-> IF i = st.sock[s].id THEN None ELSE @[i]]]

(* The loop abandons every worker of the connection. *)
LEMMA LoopCloses ==
  ASSUME NEW st, Inv(st), NEW s \in DOMAIN st.sock, st.sock[s].state = "connecting"
  PROVE  \E q : /\ Closing(st, q, ToSet(st.sock[s].slots))
                /\ hin_fcgi_socket_close(st, s) = Shut(st, q, s)
<1> DEFINE l == st.sock[s].slots
           n == Len(l)
           t == CHOOSE f : f = [i \in 0 .. n |-> IF i = 0 THEN st
                                                 ELSE IF l[i] = None THEN f[i - 1]
                                                 ELSE Abandon(f[i - 1], l[i])]
<1>1. Most(st) /\ st \in GroupType /\ st.stopped = FALSE /\ SocketOK(st, s)
  BY DEF Inv, Most, GroupType
<1>2. l \in Seq(Nat) /\ IsInjective(l)
  <2>1. st.sock[s] \in SocketType
    BY <1>1, Typed
  <2> QED BY <1>1, <2>1 DEF SocketType, SocketOK
<1>3. /\ n \in Nat /\ \A i \in 1 .. n : l[i] \in Nat /\ l[i] \in ToSet(l)
      /\ \A x : x \in ToSet(l) <=> \E i \in 1 .. n : l[i] = x
  BY <1>2, Elements
<1>4. \A i, j \in 1 .. n : l[i] = l[j] => i = j
  BY <1>2, LenProperties DEF IsInjective
<1>5. hin_fcgi_socket_close(st, s) = Shut(st, t[n], s)
  BY <1>1, Zenon DEF hin_fcgi_socket_close, Shut
<1> HIDE DEF n
<1>6. IsAfter("abandon", t, st, l, n)
  <2>1. PICK f : IsAfter("abandon", f, st, l, n)
    BY <1>3, AfterExists
  <2>2. f = [i \in 0 .. n |-> IF i = 0 THEN st
                              ELSE IF l[i] = None THEN f[i - 1] ELSE Abandon(f[i - 1], l[i])]
    BY <2>1, Zenon DEF IsAfter, Dropped
  <2>3. t = [i \in 0 .. n |-> IF i = 0 THEN st
                              ELSE IF l[i] = None THEN t[i - 1] ELSE Abandon(t[i - 1], l[i])]
    BY <2>2, Zenon
  <2> HIDE DEF t
  <2> QED BY <2>3, Zenon DEF IsAfter, Dropped
<1> HIDE DEF t
<1>7. t[0] = st /\ \A i \in 0 .. n : i # 0 => t[i] = Dropped("abandon", l, i, t[i - 1])
  BY <1>3, <1>6, AfterSteps
<1>8. \A v \in ToSet(l) : /\ v \in DOMAIN st.work /\ v # None /\ Queued(st.work[v])
                          /\ st.work[v].http \in Requests /\ Opened(st.req[st.work[v].http])
                          /\ Client(st.work[v]) = st.work[v].http
  <2> SUFFICES ASSUME NEW v \in ToSet(l)
               PROVE  /\ v \in DOMAIN st.work /\ v # None /\ Queued(st.work[v])
                      /\ st.work[v].http \in Requests /\ Opened(st.req[st.work[v].http])
                      /\ Client(st.work[v]) = st.work[v].http
    OBVIOUS
  <2>1. v \in Nat
    BY <1>3
  <2>2. v \in DOMAIN st.work /\ st.work[v].socket = s
    BY <1>1, <2>1 DEF SocketOK
  <2>3. s # None /\ v # None /\ st.work[v] \in WorkerType
    BY <1>1, <2>2, Typed
  <2>4. Queued(st.work[v])
    BY <1>1, <2>2, <2>3 DEF Most, WorkersOK
  <2>5. st.work[v].http \in Requests /\ Client(st.work[v]) = st.work[v].http
    BY <2>3, <2>4 DEF WorkerType, Queued, Client
  <2>6. Agrees(st.work[v], st.req[st.work[v].http]) /\ st.req[st.work[v].http] \in RequestType
    BY <1>1, <2>2, <2>5, Typed DEF Most, RequestsOK
  <2>7. {"DATA", "FCGI"} \cup (st.work[v].io \cap {"POST"}) = {"DATA", "FCGI"}
    BY <2>4 DEF Queued
  <2>8. Opened(st.req[st.work[v].http])
    BY <2>4, <2>6, <2>7 DEF Opened, Agrees, Queued, Quiet, RequestType
  <2> QED BY <2>2, <2>3, <2>4, <2>5, <2>8
<1> DEFINE D(m) == {l[i] : i \in 1 .. m}
           T == {m \in 0 .. n : ~Closing(st, t[m], D(m))}
<1>9. T = {}
  <2> SUFFICES ASSUME T # {} PROVE FALSE
    OBVIOUS
  <2>1. PICK m \in T : \A j \in T : m <= j
    <3>1. T \in SUBSET Nat
      BY <1>3
    <3> HIDE DEF T
    <3> QED BY <3>1, LeastNat
  <2>2. m \in 0 .. n /\ ~Closing(st, t[m], D(m)) /\ m \in Nat
    BY <1>3
  <2>3. CASE m = 0
    <3>1. D(m) = {}
      BY <2>3
    <3>2. Closing(st, st, {})
      BY <1>1 DEF Closing, Around
    <3> HIDE DEF D
    <3> QED BY <1>7, <2>2, <2>3, <3>1, <3>2
  <2>4. CASE m # 0
    <3> DEFINE w == l[m]
               E == D(m - 1)
    <3>1. m - 1 \in 0 .. n /\ ~(m <= m - 1) /\ m \in 1 .. n
      BY <1>3, <2>2, <2>4
    <3>2. Closing(st, t[m - 1], E)
      BY <2>1, <3>1
    <3>3. w \in ToSet(l) /\ w # None
      BY <1>3, <1>8, <3>1
    <3>4. t[m] = Abandon(t[m - 1], w)
      BY <1>7, <2>2, <2>4, <3>3 DEF Dropped
    <3>5. E \subseteq ToSet(l) /\ w \notin E
      <4>1. \A i \in 1 .. (m - 1) : i \in 1 .. n /\ i # m
        BY <1>3, <3>1
      <4> QED BY <1>3, <1>4, <3>1, <4>1
    <3>6. D(m) = E \cup {w}
      <4>1. 1 .. m = (1 .. (m - 1)) \cup {m}
        BY <2>2, <3>1
      <4> QED BY <4>1
    <3> HIDE DEF E, w
    <3>7. Unserved(st, w, E)
      <4>1. \A v \in E : st.work[v].http # st.work[w].http
        <5> SUFFICES ASSUME NEW v \in E, st.work[v].http = st.work[w].http PROVE FALSE
          OBVIOUS
        <5>1. v = w
          BY <1>1, <1>8, <3>3, <3>5 DEF Most, RequestsOK
        <5> QED BY <3>5, <5>1
      <4> QED BY <1>1, <1>8, <3>3, <3>5, <4>1 DEF Unserved
    <3>8. Closing(st, t[m], E \cup {w})
      BY <3>2, <3>4, <3>7, AbandonDoes
    <3> QED BY <2>2, <3>6, <3>8
  <2> QED BY <2>3, <2>4
<1>10. Closing(st, t[n], D(n))
  <2>1. n \in 0 .. n
    BY <1>3
  <2> QED BY <1>9, <2>1
<1>11. D(n) = ToSet(l)
  BY <1>3
<1> QED BY <1>5, <1>10, <1>11

(* The connection s is closed and without workers, and no slot has it. *)
ShutDone(st, q, y, s) ==
  /\ y \in GroupType /\ y.work = q.work /\ y.req = q.req /\ y.idle = q.idle
  /\ y.stopped = q.stopped /\ y.bad = q.bad
  /\ DOMAIN y.sock = DOMAIN q.sock /\ \A t \in DOMAIN q.sock : t # s => y.sock[t] = q.sock[t]
  /\ y.sock[s].state = "closed" /\ y.sock[s].slots = <<>> /\ y.sock[s].que = <<>>
  /\ y.sock[s].peer = q.sock[s].peer
  /\ \A i \in 1 .. MaxSocket : y.slots[i] = IF i = st.sock[s].id THEN None ELSE q.slots[i]

(* The end of hin_fcgi_socket_close does that. *)
LEMMA ShutDoes ==
  ASSUME NEW st, NEW q \in GroupType, NEW s \in DOMAIN q.sock
  PROVE  ShutDone(st, q, Shut(st, q, s), s)
<1> DEFINE k1 == [q.sock[s] EXCEPT !.state = "closed"]
           k2 == [k1 EXCEPT !.slots = <<>>]
           k3 == [k2 EXCEPT !.que = <<>>]
           a == [q EXCEPT !.sock[s].state = "closed"]
           b == [a EXCEPT !.sock[s].slots = <<>>]
           c == [b EXCEPT !.sock[s].que = <<>>]
           sl == [i \in DOMAIN q.slots |-> IF i = st.sock[s].id THEN None ELSE q.slots[i]]
           y == [c EXCEPT !.slots = sl]
<1>1. Shut(st, q, s) = y
  BY Zenon DEF Shut
<1>2. q.sock[s] \in SocketType /\ q.slots \in [1 .. MaxSocket -> Nat]
  BY Typed DEF GroupType
<1>3. sl \in [1 .. MaxSocket -> Nat] /\ \A i \in 1 .. MaxSocket : sl[i] = IF i = st.sock[s].id THEN None ELSE q.slots[i]
  BY <1>2 DEF None
<1>4. /\ k1 \in SocketType /\ k2 \in SocketType /\ k3 \in SocketType
      /\ k3.state = "closed" /\ k3.slots = <<>> /\ k3.que = <<>> /\ k3.peer = q.sock[s].peer
  <2>1. k1 \in SocketType /\ k1.state = "closed" /\ k1.peer = q.sock[s].peer
    BY <1>2 DEF SocketType
  <2> HIDE DEF k1
  <2>2. /\ k2 \in SocketType /\ k2.state = "closed" /\ k2.peer = q.sock[s].peer
        /\ k2.slots = <<>>
    <3>1. \A l \in Seq(Nat) : LET z == [k1 EXCEPT !.slots = l]
                              IN  /\ z \in SocketType /\ z.state = k1.state /\ z.peer = k1.peer
                                  /\ z.slots = l
      BY <2>1 DEF SocketType
    <3>2. <<>> \in Seq(Nat)
      OBVIOUS
    <3> QED BY <2>1, <3>1, <3>2
  <2> HIDE DEF k2
  <2> QED BY <2>1, <2>2 DEF SocketType
<1> HIDE DEF sl
<1>5. a = SetS(q, s, k1)
  BY DEF SetS
<1> HIDE DEF a, k1
<1>6. /\ a \in GroupType /\ Around(q, a) /\ a.work = q.work /\ a.req = q.req
      /\ Changed(q.sock, a.sock, s, k1)
  BY <1>4, <1>5, SetSDoes
<1>7. b = SetS(a, s, k2)
  BY <1>6 DEF SetS, Changed
<1> HIDE DEF b, k2
<1>8. /\ b \in GroupType /\ Around(a, b) /\ b.work = a.work /\ b.req = a.req
      /\ Changed(a.sock, b.sock, s, k2)
  <2>1. s \in DOMAIN a.sock
    BY <1>6 DEF Changed
  <2> QED BY <1>4, <1>6, <1>7, <2>1, SetSDoes
<1>9. c = SetS(b, s, k3)
  BY <1>8 DEF SetS, Changed
<1> HIDE DEF c, k3
<1>10. /\ c \in GroupType /\ Around(b, c) /\ c.work = b.work /\ c.req = b.req
       /\ Changed(b.sock, c.sock, s, k3)
  <2>1. s \in DOMAIN b.sock
    BY <1>6, <1>8 DEF Changed
  <2> QED BY <1>4, <1>8, <1>9, <2>1, SetSDoes
<1>11. /\ y \in GroupType /\ y.work = c.work /\ y.req = c.req /\ y.idle = c.idle
       /\ y.stopped = c.stopped /\ y.bad = c.bad
       /\ y.sock = c.sock /\ y.slots = sl
  BY <1>3, <1>10 DEF GroupType
<1> HIDE DEF y
<1>12. Changed(q.sock, y.sock, s, k3)
  BY <1>6, <1>8, <1>10, <1>11 DEF Changed
<1>13. /\ y.work = q.work /\ y.req = q.req /\ y.idle = q.idle
       /\ y.stopped = q.stopped /\ y.bad = q.bad
  BY <1>6, <1>8, <1>10, <1>11 DEF Around
<1>14. ShutDone(st, q, y, s)
  BY <1>3, <1>4, <1>11, <1>12, <1>13 DEF ShutDone, Changed
<1> QED BY <1>1, <1>14

(* A worker that was abandoned is gone, and its request is answered. *)
LEMMA LeftFacts ==
  ASSUME NEW k \in WorkerType, Queued(k)
  PROVE  Gone(Left(k)) /\ Client(Left(k)) = NoRequest
<1>1. Left(k) = [[k EXCEPT !.http = NoRequest, !.socket = None] EXCEPT !.io = {"END"}, !.freed = TRUE]
  BY DEF Left
<1> DEFINE j == [k EXCEPT !.http = NoRequest, !.socket = None]
           i == [j EXCEPT !.io = {"END"}, !.freed = TRUE]
<1>2. /\ j \in WorkerType /\ j.http = NoRequest /\ j.socket = None /\ j.upload = k.upload
      /\ j.header = k.header /\ j.out = k.out /\ j.writing = k.writing /\ j.pipe = k.pipe
      /\ j.pending = k.pending /\ j.back = k.back
  BY DEF WorkerType, None
<1> HIDE DEF j
<1>3. /\ i.http = NoRequest /\ i.socket = None /\ i.upload = k.upload /\ i.io = {"END"}
      /\ i.header = k.header /\ i.out = k.out /\ i.writing = k.writing /\ i.pipe = k.pipe
      /\ i.pending = k.pending /\ i.back = k.back /\ i.freed = TRUE
  BY <1>2 DEF WorkerType
<1>4. Left(k) = i
  BY <1>1 DEF j
<1> HIDE DEF i
<1>5. Gone(i) /\ Client(i) = NoRequest
  BY <1>3 DEF Gone, Client, Quiet, Queued
<1> QED BY <1>4, <1>5

(* hin_fcgi_socket_close keeps the invariant. *)
LEMMA CloseInv ==
  ASSUME NEW st, Inv(st), NEW s \in DOMAIN st.sock, st.sock[s].state = "connecting",
         NEW q, Closing(st, q, ToSet(st.sock[s].slots)), NEW y, ShutDone(st, q, y, s)
  PROVE  Inv(y)
<1> DEFINE D == ToSet(st.sock[s].slots)
<1>1. Most(st) /\ st \in GroupType /\ SocketOK(st, s) /\ s # None
  BY Typed DEF Inv, Most
<1>2. \A v \in DOMAIN st.work : /\ v \in Nat /\ v # None /\ st.work[v] \in WorkerType
                                /\ v \in D <=> st.work[v].socket = s
  BY <1>1, Typed DEF SocketOK
<1>3. \A v \in D : v \in DOMAIN st.work
  <2>1. st.sock[s] \in SocketType
    BY <1>1, Typed
  <2>2. D \subseteq Nat
    BY <2>1, Elements DEF SocketType
  <2> QED BY <1>1, <2>2 DEF SocketOK
<1>4. \A v \in D : Queued(st.work[v])
  BY <1>1, <1>2, <1>3 DEF Most, WorkersOK
<1>5. /\ y \in GroupType /\ y.stopped = st.stopped /\ y.bad = st.bad
      /\ y.idle = st.idle /\ DOMAIN y.work = DOMAIN st.work /\ DOMAIN y.sock = DOMAIN st.sock
      /\ \A t \in DOMAIN st.sock : t # s => y.sock[t] = st.sock[t]
      /\ \A v \in DOMAIN st.work : v \notin D => y.work[v] = st.work[v]
      /\ \A v \in D : y.work[v] = Left(st.work[v])
      /\ y.sock[s].state = "closed" /\ y.sock[s].slots = <<>> /\ y.sock[s].que = <<>>
      /\ y.sock[s].peer = st.sock[s].peer
  BY <1>3 DEF Closing, ShutDone, Around
<1>6. \A v \in D : Gone(y.work[v]) /\ Client(y.work[v]) = NoRequest
  BY <1>2, <1>3, <1>4, <1>5, LeftFacts
<1> HIDE DEF D
<1>7. WorkersOK(y)
  <2>1. \A v \in DOMAIN y.work : Shaped(y.work[v])
    BY <1>1, <1>5, <1>6 DEF Most, WorkersOK, Shaped
  <2>2. ASSUME NEW v \in DOMAIN y.work, y.work[v].socket # None
        PROVE  /\ y.work[v].socket \in DOMAIN y.sock /\ y.sock[y.work[v].socket].state # "closed"
               /\ y.sock[y.work[v].socket].state = "connecting" => Queued(y.work[v])
    <3>1. v \notin D
      BY <1>6, <2>2 DEF Gone
    <3>2. v \in DOMAIN st.work /\ y.work[v] = st.work[v] /\ st.work[v].socket # s
      BY <1>2, <1>5, <3>1
    <3>3. /\ st.work[v].socket \in DOMAIN st.sock /\ st.sock[st.work[v].socket].state # "closed"
          /\ st.sock[st.work[v].socket].state = "connecting" => Queued(st.work[v])
      BY <1>1, <2>2, <3>2 DEF Most, WorkersOK
    <3> QED BY <1>5, <3>2, <3>3
  <2> QED BY <2>1, <2>2 DEF WorkersOK
<1>8. RequestsOK(y)
  <2>1. NoRequest \notin Requests
    BY FcgiAssumption
  <2>2. \A v \in DOMAIN y.work, r \in Requests :
          Client(y.work[v]) = r => v \in DOMAIN st.work /\ v \notin D /\ y.work[v] = st.work[v]
    BY <1>5, <1>6, <2>1
  <2>3. \A v \in D : st.work[v].http # NoRequest /\ Client(st.work[v]) = st.work[v].http
    BY <1>4 DEF Queued, Client
  <2>4. \A r \in Requests : y.req[r] = IF \E v \in D : st.work[v].http = r
                                       THEN Failed(st.req[r]) ELSE st.req[r]
    BY DEF Closing, ShutDone, D
  <2>5. ASSUME NEW v \in DOMAIN y.work, NEW r \in Requests, Client(y.work[v]) = r
        PROVE  Agrees(y.work[v], y.req[r])
    <3>1. v \in DOMAIN st.work /\ v \notin D /\ y.work[v] = st.work[v] /\ Client(st.work[v]) = r
      BY <2>2, <2>5
    <3>2. ~ \E u \in D : st.work[u].http = r
      <4> SUFFICES ASSUME NEW u \in D, st.work[u].http = r PROVE FALSE
        OBVIOUS
      <4>1. u \in DOMAIN st.work /\ Client(st.work[u]) = r
        BY <1>3, <2>3 DEF D
      <4>2. u = v
        BY <1>1, <3>1, <4>1 DEF Most, RequestsOK
      <4> QED BY <3>1, <4>2
    <3>3. y.req[r] = st.req[r]
      BY <2>4, <3>2
    <3> QED BY <1>1, <3>1, <3>3 DEF Most, RequestsOK
  <2>6. ASSUME NEW u \in DOMAIN y.work, NEW v \in DOMAIN y.work, NEW r \in Requests,
               Client(y.work[u]) = r, Client(y.work[v]) = r
        PROVE  u = v
    <3>1. /\ u \in DOMAIN st.work /\ v \in DOMAIN st.work
          /\ Client(st.work[u]) = r /\ Client(st.work[v]) = r
      BY <2>2, <2>6
    <3> QED BY <1>1, <3>1 DEF Most, RequestsOK
  <2>7. ASSUME NEW r \in Requests
        PROVE  Alone(y.req[r]) \/ \E v \in DOMAIN y.work : Client(y.work[v]) = r
    <3>1. CASE \E v \in D : st.work[v].http = r
      <4>1. PICK v \in D : st.work[v].http = r
        BY <3>1
      <4>2. v \in DOMAIN st.work /\ Client(st.work[v]) = r
        BY <1>3, <2>3, <4>1 DEF D
      <4>3. Agrees(st.work[v], st.req[r]) /\ st.req[r] \in RequestType
        BY <1>1, <4>2, Typed DEF Most, RequestsOK
      <4>4. y.req[r] = Failed(st.req[r])
        BY <2>4, <3>1
      <4>5. /\ y.req[r].flags = {"DATA", "FCGI", "ERROR"} /\ y.req[r].raw = TRUE
            /\ y.req[r].begun = 1 /\ y.req[r].ended = st.req[r].ended
        BY <4>3, <4>4 DEF Failed, RequestType
      <4>6. st.req[r].ended = 0
        BY <4>3 DEF Agrees
      <4> QED BY <4>5, <4>6 DEF Alone
    <3>2. CASE ~ \E v \in D : st.work[v].http = r
      <4>1. y.req[r] = st.req[r]
        BY <2>4, <3>2
      <4>2. \A v \in DOMAIN st.work : Client(st.work[v]) = r => v \notin D
        BY <2>3, <3>2
      <4>3. Alone(st.req[r]) \/ \E v \in DOMAIN st.work : Client(st.work[v]) = r
        BY <1>1 DEF Most, RequestsOK
      <4> QED BY <1>5, <4>1, <4>2, <4>3
    <3> QED BY <3>1, <3>2
  <2> QED BY <2>5, <2>6, <2>7 DEF RequestsOK
<1>9. IdleOK(y)
  <2>1. \A v \in D : ~Idle(st.work[v]) /\ ~Idle(y.work[v])
    BY <1>4, <1>6 DEF Queued, Gone, Idle, D
  <2>2. \A v \in DOMAIN st.work : Idle(y.work[v]) <=> Idle(st.work[v])
    BY <1>5, <2>1
  <2> QED BY <1>1, <1>5, <2>2 DEF Most, IdleOK
<1>10. SlotsOK(y)
  <2> SUFFICES ASSUME NEW i \in 1 .. MaxSocket, y.slots[i] # None
               PROVE  /\ y.slots[i] \in DOMAIN y.sock /\ y.sock[y.slots[i]].state # "closed"
                      /\ y.sock[y.slots[i]].id = i
    BY DEF SlotsOK
  <2>1. i # st.sock[s].id /\ y.slots[i] = st.slots[i]
    BY DEF ShutDone, Closing, Around
  <2>2. st.slots[i] \in DOMAIN st.sock /\ st.sock[st.slots[i]].state # "closed" /\ st.sock[st.slots[i]].id = i
    BY <1>1, <2>1 DEF Most, SlotsOK
  <2> QED BY <1>5, <2>1, <2>2
<1>11. \A v \in DOMAIN y.work : v \in D => y.work[v].socket = None /\ ~Queued(y.work[v]) /\ "POST" \notin y.work[v].io
  BY <1>6 DEF Gone, Queued
<1>12. ASSUME NEW t \in DOMAIN y.sock, t # s PROVE SocketOK(y, t) /\ Held(y, t)
  <2>1. /\ t \in DOMAIN st.sock /\ y.sock[t] = st.sock[t] /\ SocketOK(st, t) /\ Held(st, t)
        /\ t # None
    BY <1>1, <1>5, <1>12, Typed DEF Inv, Most
  <2>2. \A v \in DOMAIN st.work : v \in D => st.work[v].socket # t /\ y.work[v].socket # t
    BY <1>2, <1>5, <1>11, <1>12, <2>1
  <2>3. \A v \in DOMAIN st.work : /\ y.work[v].socket = t <=> st.work[v].socket = t
                                  /\ y.work[v].socket = t => y.work[v] = st.work[v]
    BY <1>5, <2>2
  <2>4. SocketOK(y, t)
    <3>1. \A v \in Nat : /\ v \in DOMAIN y.work /\ y.work[v].socket = t <=>
                            v \in DOMAIN st.work /\ st.work[v].socket = t
                         /\ v \in DOMAIN y.work /\ y.work[v].socket = t /\ Queued(y.work[v]) <=>
                            v \in DOMAIN st.work /\ st.work[v].socket = t /\ Queued(st.work[v])
      BY <1>5, <2>3
    <3> QED BY <2>1, <3>1 DEF SocketOK
  <2>5. \A v \in DOMAIN st.work : Uploads(y, v, t) <=> Uploads(st, v, t)
    BY <2>3 DEF Uploads
  <2> QED BY <1>5, <2>1, <2>4, <2>5 DEF Held
<1>13. SocketOK(y, s) /\ Held(y, s)
  <2>1. \A v \in DOMAIN y.work : y.work[v].socket # s
    BY <1>1, <1>2, <1>5, <1>11
  <2>2. IsInjective(<<>>) /\ ToSet(<<>>) = {}
    BY DEF IsInjective, ToSet
  <2>3. y.sock[s].peer
    BY <1>1, <1>5 DEF SocketOK
  <2> QED BY <1>5, <2>1, <2>2, <2>3 DEF SocketOK, Held
<1>14. ~y.stopped /\ y.bad = {}
  BY <1>1, <1>5 DEF Most
<1> QED BY <1>5, <1>7, <1>8, <1>9, <1>10, <1>12, <1>13, <1>14 DEF Inv, Most

(* hin_fcgi_connect_callback of a refused connection. *)
LEMMA ConnectFailsInv ==
  ASSUME IInv, NEW s \in Sockets, ConnectFails(s)
  PROVE  IInv'
<1>1. /\ Inv(g) /\ s \in DOMAIN g.sock /\ g.sock[s].state = "connecting"
      /\ g' = hin_fcgi_socket_close(g, s)
  BY DEF IInv, Sockets, ConnectFails
<1>2. PICK q : Closing(g, q, ToSet(g.sock[s].slots)) /\ hin_fcgi_socket_close(g, s) = Shut(g, q, s)
  BY <1>1, LoopCloses
<1>3. q \in GroupType /\ s \in DOMAIN q.sock
  BY <1>1, <1>2 DEF Closing
<1>4. ShutDone(g, q, Shut(g, q, s), s)
  BY <1>3, ShutDoes
<1>5. Inv(Shut(g, q, s))
  BY <1>1, <1>2, <1>4, CloseInv
<1> QED BY <1>1, <1>2, <1>5 DEF IInv

----------------------------------------------------------------------------
(* The steps that a fault is needed for. *)

(* No write is refused while every backend keeps its connection. *)
LEMMA NoWriteFails ==
  ASSUME IInv, NEW w \in Workers
  PROVE  ~WriteFails(w)
<1> SUFFICES ASSUME WriteFails(w) PROVE FALSE
  OBVIOUS
<1>1. w \in DOMAIN g.work /\ g.work[w].writing
  BY DEF Workers, WriteFails
<1>2. Shaped(g.work[w])
  BY <1>1 DEF IInv, Inv, Most, WorkersOK
<1>3. g.work[w].socket # None
  BY <1>1, <1>2 DEF Shaped, Idle, Gone, Queued, Uploading, Serving, Quiet
<1>4. g.work[w].socket \in DOMAIN g.sock
  BY <1>1, <1>3 DEF IInv, Inv, Most, WorkersOK
<1>5. g.sock[g.work[w].socket].peer
  BY <1>4 DEF IInv, Inv, Most, SocketOK
<1> QED BY <1>3, <1>5 DEF WriteFails

(* Nothing that went wrong is forgotten. *)
LEMMA FaultsStay ==
  ASSUME [Next]_vars
  PROVE  faults \subseteq faults'
<1>1. CASE UNCHANGED vars
  BY <1>1 DEF vars
<1>2. ASSUME NEW r \in Requests, Start(r) \/ RawDone(r) PROVE faults \subseteq faults'
  BY <1>2 DEF Start, RawDone, Note
<1>3. ASSUME NEW s \in Sockets, Connected(s) \/ ConnectFails(s) \/ BackendCloses(s)
      PROVE  faults \subseteq faults'
  BY <1>3 DEF Connected, ConnectFails, BackendCloses, Note
<1>4. ASSUME NEW w \in Workers,
             WriteDone(w) \/ WriteFails(w) \/ UploadDone(w) \/ Stdout(w) \/ EndRequest(w)
               \/ BareEnd(w) \/ PipeWritten(w) \/ PipeFails(w)
      PROVE  faults \subseteq faults'
  BY <1>4 DEF WriteDone, WriteFails, UploadDone, Stdout, EndRequest, BareEnd, PipeWritten,
              PipeFails, Note
<1>5. CASE Stop \/ Done
  BY <1>5 DEF Stop, Done, Note, vars
<1> QED BY <1>1, <1>2, <1>3, <1>4, <1>5 DEF Next

(* A connection that the backend closes, or a request that it ends without *)
(* a head, is a fault. *)
LEMMA BackendFaults ==
  /\ \A s \in Sockets : BackendCloses(s) => faults' # {}
  /\ \A w \in Workers : BareEnd(w) => faults' # {}
BY DEF BackendCloses, BareEnd, Note

(* A client that leaves early is a fault, and one that leaves with nothing *)
(* but the last write missing does what the end of that write does. *)
LEMMA PipeFailsInv ==
  ASSUME MaxSocket > 0, IInv, NEW w \in Workers, PipeFails(w), faults' = {}
  PROVE  IInv'
<1>1. g \in GroupType /\ w \in DOMAIN g.work /\ g.work[w] \in WorkerType
  BY Typed DEF IInv, Inv, Most, Workers
<1> DEFINE p == [g EXCEPT !.work[w].pending = FALSE,
                          !.work[w].out = IF @ = "open" THEN "freed" ELSE @]
           q == [g EXCEPT !.work[w].pending = FALSE]
<1>2. g' = hin_fcgi_pipe_finish_callback(p, w)
  BY DEF PipeFails
<1>3. g.work[w].out # "open"
  BY DEF PipeFails, Note
<1>4. p = q
  <2> DEFINE e == [g.work[w] EXCEPT !.pending = FALSE]
  <2>1. q = SetW(g, w, e)
    BY <1>1 DEF GroupType, WorkerType, SetW
  <2>2. e \in WorkerType /\ e.out = g.work[w].out
    BY <1>1 DEF WorkerType
  <2> HIDE DEF e
  <2>3. q \in GroupType /\ w \in DOMAIN q.work /\ q.work[w] = e
    <3>1. SetW(g, w, e) \in GroupType /\ Changed(g.work, SetW(g, w, e).work, w, e)
      BY <1>1, <2>2, SetWDoes
    <3> HIDE DEF q
    <3> QED BY <1>1, <2>1, <3>1 DEF Changed
  <2>4. p = [q EXCEPT !.work[w].out = IF @ = "open" THEN "freed" ELSE @]
    OBVIOUS
  <2> HIDE DEF p, q
  <2>5. [e EXCEPT !.out = IF @ = "open" THEN "freed" ELSE @] = e
    BY <1>3, <2>2 DEF WorkerType
  <2>6. p = [q EXCEPT !.work = [q.work EXCEPT ![w] = e]]
    BY <2>3, <2>4, <2>5
  <2> QED BY <2>3, <2>6 DEF GroupType
<1>5. g' = hin_fcgi_pipe_finish_callback(q, w)
  BY <1>2, <1>4
<1>6. PipeWritten(w)
  BY <1>3, <1>5 DEF PipeWritten, PipeFails, Note
<1> QED BY <1>6, PipeWrittenInv

----------------------------------------------------------------------------
(* hin_fcgi_clean frees the idle workers. *)

(* A connection without workers is closed without further ado. *)
LEMMA CloseUnused ==
  ASSUME NEW st, NEW s, st.stopped = FALSE, st.sock[s].slots \in Seq(Nat),
         \A i \in DOMAIN st.sock[s].slots : st.sock[s].slots[i] = None
  PROVE  hin_fcgi_socket_close(st, s) = Shut(st, st, s)
<1> DEFINE l == st.sock[s].slots
           n == Len(l)
           t == CHOOSE f : f = [i \in 0 .. n |-> IF i = 0 THEN st
                                                 ELSE IF l[i] = None THEN f[i - 1]
                                                 ELSE Abandon(f[i - 1], l[i])]
<1>1. n \in Nat /\ DOMAIN l = 1 .. n
  BY LenProperties
<1>2. hin_fcgi_socket_close(st, s) = Shut(st, t[n], s)
  BY Zenon DEF hin_fcgi_socket_close, Shut
<1>3. \A i \in 1 .. n : l[i] = None
  BY <1>1
<1> HIDE DEF n, l
<1>4. IsAfter("abandon", t, st, l, n)
  <2>1. PICK f : IsAfter("abandon", f, st, l, n)
    BY <1>1, AfterExists
  <2>2. f = [i \in 0 .. n |-> IF i = 0 THEN st
                              ELSE IF l[i] = None THEN f[i - 1] ELSE Abandon(f[i - 1], l[i])]
    BY <2>1, Zenon DEF IsAfter, Dropped
  <2>3. t = [i \in 0 .. n |-> IF i = 0 THEN st
                              ELSE IF l[i] = None THEN t[i - 1] ELSE Abandon(t[i - 1], l[i])]
    BY <2>2, Zenon
  <2> HIDE DEF t
  <2> QED BY <2>3, Zenon DEF IsAfter, Dropped
<1> HIDE DEF t
<1>5. t[0] = st /\ \A i \in 0 .. n : i # 0 => t[i] = Dropped("abandon", l, i, t[i - 1])
  BY <1>1, <1>4, AfterSteps
<1>6. \A i \in 1 .. n : t[i] = t[i - 1]
  <2> SUFFICES ASSUME NEW i \in 1 .. n PROVE t[i] = t[i - 1]
    OBVIOUS
  <2>1. i \in 0 .. n /\ i # 0
    BY <1>1
  <2> QED BY <1>3, <1>5, <2>1 DEF Dropped
<1> DEFINE T == {m \in 0 .. n : t[m] # st}
<1>7. T = {}
  <2> SUFFICES ASSUME T # {} PROVE FALSE
    OBVIOUS
  <2>1. PICK m \in T : \A j \in T : m <= j
    <3>1. T \in SUBSET Nat
      BY <1>1
    <3> HIDE DEF T
    <3> QED BY <3>1, LeastNat
  <2>2. m \in 1 .. n
    BY <1>1, <1>5, <2>1
  <2>3. m - 1 \in 0 .. n /\ ~(m <= m - 1)
    BY <1>1, <2>2
  <2>4. t[m - 1] = st
    BY <2>1, <2>3
  <2> QED BY <1>6, <2>1, <2>2, <2>4
<1>8. t[n] = st
  BY <1>1, <1>7
<1> QED BY <1>2, <1>8

(* The slots of connection t whose worker is not in D. *)
Filled(st, t, D) == {i \in DOMAIN st.sock[t].slots : st.sock[t].slots[i] \notin D}

(* The connection n was k and the workers in D are freed: it is closed     *)
(* with its last one. *)
Reduced(st, q, t, D) ==
  IF st.sock[t].state = "closed" \/ Filled(st, t, D) = {}
  THEN q.sock[t].state = "closed"
  ELSE /\ DOMAIN q.sock[t].slots = DOMAIN st.sock[t].slots
       /\ \A i \in DOMAIN st.sock[t].slots :
            q.sock[t].slots[i] = IF i \in Filled(st, t, D) THEN st.sock[t].slots[i] ELSE None
       /\ q.sock[t].numWorker = Cardinality(Filled(st, t, D))

(* Of the idle workers of st those of D were freed. *)
Cleaned(st, q, D) ==
  /\ q \in GroupType /\ q.req = st.req /\ q.idle = st.idle
  /\ q.stopped = st.stopped /\ q.bad = st.bad
  /\ DOMAIN q.work = DOMAIN st.work /\ DOMAIN q.sock = DOMAIN st.sock
  /\ \A v \in DOMAIN st.work :
       q.work[v] = IF v \in D THEN [st.work[v] EXCEPT !.freed = TRUE] ELSE st.work[v]
  /\ \A t \in DOMAIN st.sock : Reduced(st, q, t, D)

(* What hin_fcgi_clean needs: num_worker counts the workers. *)
Countable(st) ==
  /\ st \in GroupType /\ ~st.stopped /\ IsInjective(st.idle)
  /\ \A w \in ToSet(st.idle) : /\ w \in DOMAIN st.work /\ st.work[w].socket \in DOMAIN st.sock
                               /\ st.sock[st.work[w].socket].state # "closed"
  /\ \A t \in DOMAIN st.sock :
       /\ IsInjective(st.sock[t].slots)
       /\ \A v \in Nat : v \in ToSet(st.sock[t].slots) <=> v \in DOMAIN st.work /\ st.work[v].socket = t
       /\ st.sock[t].state # "closed" => /\ st.sock[t].numWorker = Len(st.sock[t].slots)
                                         /\ st.sock[t].slots # <<>>

(* Before the first one all slots are filled. *)
LEMMA CleanedNone ==
  ASSUME NEW st, Countable(st)
  PROVE  Cleaned(st, st, {})
<1>1. st \in GroupType
  BY DEF Countable
<1>2. ASSUME NEW t \in DOMAIN st.sock PROVE Reduced(st, st, t, {})
  <2> DEFINE l == st.sock[t].slots
  <2>1. l \in Seq(Nat)
    BY <1>1, Typed DEF SocketType
  <2>2. Len(l) \in Nat /\ DOMAIN l = 1 .. Len(l)
    BY <2>1, LenProperties
  <2>3. Filled(st, t, {}) = 1 .. Len(l)
    BY <2>2 DEF Filled
  <2>4. Cardinality(1 .. Len(l)) = Len(l)
    <3> DEFINE n == Len(l)
    <3>1. 1 \in Int /\ n \in Int /\ n \in Nat
      BY <2>2
    <3> HIDE DEF n
    <3>2. Cardinality(1 .. n) = IF 1 > n THEN 0 ELSE n - 1 + 1
      BY <3>1, FS_Interval
    <3>3. Cardinality(1 .. n) = n
      BY <3>1, <3>2
    <3> QED BY <3>3 DEF n
  <2>5. CASE st.sock[t].state = "closed"
    BY <2>5 DEF Reduced
  <2>6. CASE st.sock[t].state # "closed"
    <3>1. st.sock[t].numWorker = Len(l) /\ l # <<>>
      BY <2>6 DEF Countable
    <3>2. Len(l) # 0
      BY <2>1, <3>1, EmptySeq
    <3>3. 1 \in 1 .. Len(l)
      BY <2>2, <3>2
    <3> QED BY <2>2, <2>3, <2>4, <2>6, <3>1, <3>3 DEF Reduced
  <2> QED BY <2>5, <2>6
<1> QED BY <1>1, <1>2 DEF Cleaned

(* The slots and the count of connection s without worker w. *)
Emptied(l, w) == [i \in DOMAIN l |-> IF l[i] = w THEN None ELSE l[i]]

Thinned(q, s, w) ==
  [q EXCEPT !.work[w].freed = TRUE, !.sock[s].numWorker = @ - 1,
            !.sock[s].slots = [i \in DOMAIN @ |-> IF @[i] = w THEN None ELSE @[i]]]

(* hin_fcgi_worker_free before it looks at the count. *)
ThinnedDone(q, y, s, w) ==
  /\ y \in GroupType /\ y.req = q.req /\ Around(q, y)
  /\ DOMAIN y.work = DOMAIN q.work /\ DOMAIN y.sock = DOMAIN q.sock
  /\ y.work[w] = [q.work[w] EXCEPT !.freed = TRUE]
  /\ \A v \in DOMAIN q.work : v # w => y.work[v] = q.work[v]
  /\ \A t \in DOMAIN q.sock : t # s => y.sock[t] = q.sock[t]
  /\ y.sock[s].numWorker = q.sock[s].numWorker - 1
  /\ y.sock[s].slots = Emptied(q.sock[s].slots, w) /\ y.sock[s].slots \in Seq(Nat)
  /\ y.sock[s].id = q.sock[s].id

(* The first half of hin_fcgi_worker_free does that. *)
LEMMA ThinnedDoes ==
  ASSUME NEW q \in GroupType, NEW w \in DOMAIN q.work, NEW s \in DOMAIN q.sock,
         q.sock[s].numWorker # 0
  PROVE  ThinnedDone(q, Thinned(q, s, w), s, w)
<1> DEFINE k == [q.work[w] EXCEPT !.freed = TRUE]
           z == q.sock[s]
           sl == Emptied(z.slots, w)
           n1 == [z EXCEPT !.numWorker = z.numWorker - 1]
           n2 == [n1 EXCEPT !.slots = sl]
           a == [q EXCEPT !.work[w].freed = TRUE]
           b == [a EXCEPT !.sock[s].numWorker = z.numWorker - 1]
           c == [b EXCEPT !.sock[s].slots = sl]
<1>1. q.work[w] \in WorkerType /\ z \in SocketType
  BY Typed
<1>2. z.slots \in Seq(Nat) /\ Len(z.slots) \in Nat /\ DOMAIN z.slots = 1 .. Len(z.slots)
  BY <1>1, LenProperties DEF SocketType
<1>3. sl \in Seq(Nat)
  <2>1. \A i \in 1 .. Len(z.slots) : z.slots[i] \in Nat
    BY <1>2, ElementOfSeq
  <2>2. sl \in [1 .. Len(z.slots) -> Nat]
    BY <1>2, <2>1 DEF Emptied, None
  <2> QED BY <1>2, <2>2, SeqDef
<1>4. Thinned(q, s, w) = c
  <2>1. Thinned(q, s, w) =
          [q EXCEPT !.work[w].freed = TRUE, !.sock[s].numWorker = z.numWorker - 1,
                    !.sock[s].slots = sl]
    BY Zenon DEF Thinned, Emptied
  <2> HIDE DEF sl, z
  <2> QED BY <2>1, Zenon
<1>5. k \in WorkerType
  BY <1>1 DEF WorkerType
<1>6. n1 \in SocketType /\ n1.numWorker = z.numWorker - 1 /\ n1.id = z.id
  <2>1. z.numWorker - 1 \in Nat
    BY <1>1 DEF SocketType
  <2> HIDE DEF z
  <2> QED BY <1>1, <2>1 DEF SocketType
<1> HIDE DEF sl, n1
<1>7. n2 \in SocketType /\ n2.numWorker = z.numWorker - 1 /\ n2.slots = sl /\ n2.id = z.id
  BY <1>3, <1>6 DEF SocketType
<1>8. a = SetW(q, w, k)
  BY DEF SetW
<1> HIDE DEF a, k, n2
<1>9. /\ a \in GroupType /\ Around(q, a) /\ a.sock = q.sock /\ a.req = q.req
      /\ Changed(q.work, a.work, w, k)
  BY <1>5, <1>8, SetWDoes
<1>10. b = SetS(a, s, n1)
  BY <1>9 DEF SetS, n1
<1> HIDE DEF b
<1>11. /\ b \in GroupType /\ Around(a, b) /\ b.work = a.work /\ b.req = a.req
       /\ Changed(a.sock, b.sock, s, n1)
  BY <1>6, <1>9, <1>10, SetSDoes
<1>12. c = SetS(b, s, n2)
  BY <1>9, <1>11 DEF SetS, Changed, n2
<1> HIDE DEF c
<1>13. /\ c \in GroupType /\ Around(b, c) /\ c.work = b.work /\ c.req = b.req
       /\ Changed(b.sock, c.sock, s, n2)
  <2>1. s \in DOMAIN b.sock
    BY <1>9, <1>11 DEF Changed
  <2> QED BY <1>7, <1>11, <1>12, <2>1, SetSDoes
<1>14. c.req = q.req /\ Around(q, c) /\ Changed(q.work, c.work, w, k) /\ Changed(q.sock, c.sock, s, n2)
  BY <1>9, <1>11, <1>13 DEF Around, Changed
<1>15. ThinnedDone(q, c, s, w)
  BY <1>3, <1>7, <1>13, <1>14 DEF ThinnedDone, Changed, k, sl
<1> QED BY <1>4, <1>15

(* One idle worker more is freed. *)
LEMMA FreeCleans ==
  ASSUME NEW st, Countable(st), NEW q, NEW D, Cleaned(st, q, D), NEW w \in ToSet(st.idle), w \notin D
  PROVE  Cleaned(st, hin_fcgi_worker_free(q, w), D \cup {w})
<1> DEFINE s == st.work[w].socket
           F == Filled(st, s, D)
           G == Filled(st, s, D \cup {w})
           l == st.sock[s].slots
           x == Thinned(q, s, w)
           y == hin_fcgi_worker_free(q, w)
<1>1. /\ st \in GroupType /\ w \in DOMAIN st.work /\ s \in DOMAIN st.sock
      /\ st.sock[s].state # "closed" /\ st.stopped = FALSE
  BY DEF Countable, GroupType
<1>2. /\ q \in GroupType /\ DOMAIN q.work = DOMAIN st.work /\ DOMAIN q.sock = DOMAIN st.sock
      /\ q.work[w] = st.work[w] /\ q.stopped = FALSE /\ w \in Nat /\ s # None /\ w # None
  BY <1>1, Typed DEF Cleaned
<1>3. /\ l \in Seq(Nat) /\ Len(l) \in Nat /\ DOMAIN l = 1 .. Len(l) /\ IsInjective(l)
  <2>1. l \in Seq(Nat)
    BY <1>1, Typed DEF SocketType
  <2> QED BY <1>1, <2>1, LenProperties DEF Countable
<1>4. PICK j \in DOMAIN l : l[j] = w
  <2>1. w \in ToSet(l)
    BY <1>1, <1>2 DEF Countable
  <2> QED BY <2>1 DEF ToSet
<1>5. j \in F /\ G = F \ {j}
  BY <1>3, <1>4 DEF Filled, IsInjective
<1>6. IsFiniteSet(F) /\ Cardinality(F) \in Nat
  <2>1. F \in SUBSET (1 .. Len(l)) /\ IsFiniteSet(1 .. Len(l))
    <3> DEFINE n == Len(l)
    <3>0. n \in Nat
      BY <1>3, Zenon
    <3> HIDE DEF n
    <3>1. 1 \in Int /\ n \in Int
      BY <3>0
    <3>2. IsFiniteSet(1 .. n)
      BY <3>1, FS_Interval
    <3>3. F \in SUBSET DOMAIN l
      BY DEF Filled
    <3> QED BY <1>3, <3>2, <3>3 DEF n
  <2>2. IsFiniteSet(F)
    BY <2>1, FS_Subset
  <2> QED BY <2>2, FS_CardinalityType
<1>7. /\ IsFiniteSet(G) /\ Cardinality(G) = Cardinality(F) - 1 /\ Cardinality(G) \in Nat
  <2>1. IsFiniteSet(F \ {j}) /\ Cardinality(F \ {j}) = Cardinality(F) - 1
    BY <1>5, <1>6, FS_RemoveElement
  <2>2. Cardinality(F \ {j}) \in Nat
    BY <2>1, FS_CardinalityType
  <2> QED BY <1>5, <2>1, <2>2
<1>8. /\ DOMAIN q.sock[s].slots = DOMAIN l
      /\ \A i \in DOMAIN l : q.sock[s].slots[i] = IF i \in F THEN l[i] ELSE None
      /\ q.sock[s].numWorker = Cardinality(F)
  <2>1. Reduced(st, q, s, D)
    BY <1>1 DEF Cleaned
  <2>2. F # {}
    BY <1>5
  <2> QED BY <1>1, <2>1, <2>2 DEF Reduced
<1> HIDE DEF F, G, s
<1>9. ThinnedDone(q, x, s, w)
  <2>1. Cardinality(F) # 0
    BY <1>6, <1>7
  <2>2. s \in DOMAIN q.sock
    BY <1>1, <1>2
  <2> QED BY <1>1, <1>2, <1>8, <2>1, <2>2, ThinnedDoes
<1>10. y = IF x.sock[s].numWorker <= 0 THEN hin_fcgi_socket_close(x, s) ELSE x
  <2>1. q.work[w].socket = s /\ s # None
    BY <1>2 DEF s
  <2> QED BY <2>1 DEF hin_fcgi_worker_free, Thinned
<1>11. /\ DOMAIN x.sock[s].slots = DOMAIN l
       /\ \A i \in DOMAIN l : x.sock[s].slots[i] = IF i \in G THEN l[i] ELSE None
       /\ x.sock[s].numWorker = Cardinality(G)
  <2>1. x.sock[s].slots = Emptied(q.sock[s].slots, w)
    BY <1>9 DEF ThinnedDone
  <2>2. DOMAIN x.sock[s].slots = DOMAIN l
    BY <1>8, <2>1 DEF Emptied
  <2>3. ASSUME NEW i \in DOMAIN l PROVE x.sock[s].slots[i] = IF i \in G THEN l[i] ELSE None
    <3>1. x.sock[s].slots[i] = IF q.sock[s].slots[i] = w THEN None ELSE q.sock[s].slots[i]
      BY <1>8, <2>1 DEF Emptied
    <3>2. l[i] = w <=> i = j
      BY <1>3, <1>4 DEF IsInjective
    <3> QED BY <1>2, <1>4, <1>5, <1>8, <3>1, <3>2
  <2>4. x.sock[s].numWorker = Cardinality(G)
    BY <1>7, <1>8, <1>9 DEF ThinnedDone
  <2> QED BY <2>2, <2>3, <2>4
<1> HIDE DEF x, y
<1>12. /\ x \in GroupType /\ x.req = st.req /\ x.idle = st.idle
       /\ x.stopped = st.stopped /\ x.bad = st.bad
       /\ DOMAIN x.work = DOMAIN st.work /\ DOMAIN x.sock = DOMAIN st.sock
       /\ \A t \in DOMAIN st.sock : t # s => x.sock[t] = q.sock[t]
       /\ \A v \in DOMAIN st.work :
            x.work[v] = IF v \in D \cup {w} THEN [st.work[v] EXCEPT !.freed = TRUE] ELSE st.work[v]
  <2>1. /\ x \in GroupType /\ x.req = st.req /\ x.idle = st.idle
        /\ x.stopped = st.stopped /\ x.bad = st.bad
        /\ DOMAIN x.work = DOMAIN st.work /\ DOMAIN x.sock = DOMAIN st.sock
        /\ \A t \in DOMAIN st.sock : t # s => x.sock[t] = q.sock[t]
    BY <1>9 DEF ThinnedDone, Cleaned, Around
  <2>2. ASSUME NEW v \in DOMAIN st.work
        PROVE  x.work[v] = IF v \in D \cup {w} THEN [st.work[v] EXCEPT !.freed = TRUE] ELSE st.work[v]
    <3>1. CASE v = w
      BY <1>2, <1>9, <3>1 DEF ThinnedDone
    <3>2. CASE v # w
      <4>1. x.work[v] = q.work[v]
        BY <1>2, <1>9, <3>2 DEF ThinnedDone
      <4> QED BY <3>2, <4>1 DEF Cleaned
    <3> QED BY <3>1, <3>2
  <2> QED BY <2>1, <2>2
<1>13. ASSUME NEW t \in DOMAIN st.sock, t # s
       PROVE  Filled(st, t, D \cup {w}) = Filled(st, t, D)
  <2>1. w \notin ToSet(st.sock[t].slots)
    BY <1>2, <1>13 DEF Countable, s
  <2>2. \A i \in DOMAIN st.sock[t].slots : st.sock[t].slots[i] # w
    BY <2>1 DEF ToSet
  <2> QED BY <2>2 DEF Filled
<1>14. ASSUME NEW t \in DOMAIN st.sock, t # s, NEW z, z.sock[t] = q.sock[t]
       PROVE  Reduced(st, z, t, D \cup {w})
  <2>1. Reduced(st, q, t, D)
    BY DEF Cleaned
  <2> QED BY <1>13, <1>14, <2>1 DEF Reduced
<1>15. CASE Cardinality(G) = 0
  <2>1. G = {}
    BY <1>7, <1>15, FS_EmptySet
  <2>2. y = hin_fcgi_socket_close(x, s)
    BY <1>10, <1>11, <1>15
  <2>3. hin_fcgi_socket_close(x, s) = Shut(x, x, s)
    <3>1. x.stopped = FALSE /\ x.sock[s].slots \in Seq(Nat)
      BY <1>1, <1>9, <1>12 DEF ThinnedDone
    <3>2. \A i \in DOMAIN x.sock[s].slots : x.sock[s].slots[i] = None
      BY <1>11, <2>1
    <3> QED BY <3>1, <3>2, CloseUnused
  <2>4. ShutDone(x, x, y, s)
    BY <1>1, <1>12, <2>2, <2>3, ShutDoes
  <2>5. Reduced(st, y, s, D \cup {w})
    BY <2>1, <2>4 DEF ShutDone, Reduced, G
  <2>6. \A t \in DOMAIN st.sock : Reduced(st, y, t, D \cup {w})
    <3> SUFFICES ASSUME NEW t \in DOMAIN st.sock, t # s PROVE Reduced(st, y, t, D \cup {w})
      BY <2>5
    <3>1. y.sock[t] = q.sock[t]
      BY <1>12, <2>4 DEF ShutDone
    <3> QED BY <1>14, <3>1
  <2> QED BY <1>12, <2>4, <2>6 DEF Cleaned, ShutDone, y
<1>16. CASE Cardinality(G) # 0
  <2>1. y = x
    <3> DEFINE n == x.sock[s].numWorker
    <3>1. n \in Nat /\ n # 0
      BY <1>7, <1>11, <1>16
    <3>2. y = IF n <= 0 THEN hin_fcgi_socket_close(x, s) ELSE x
      BY <1>10
    <3> HIDE DEF n
    <3>3. ~(n <= 0)
      BY <3>1
    <3> QED BY <3>2, <3>3
  <2>2. G # {}
    BY <1>16, FS_EmptySet
  <2>3. Reduced(st, y, s, D \cup {w})
    BY <1>1, <1>11, <2>1, <2>2 DEF Reduced, G
  <2>4. \A t \in DOMAIN st.sock : Reduced(st, y, t, D \cup {w})
    BY <1>12, <1>14, <2>1, <2>3
  <2> QED BY <1>12, <2>1, <2>4 DEF Cleaned, y
<1> QED BY <1>15, <1>16

(* hin_fcgi_clean frees all of them. *)
LEMMA CleanDoes ==
  ASSUME NEW st, Countable(st)
  PROVE  \E q : /\ Cleaned(st, q, ToSet(st.idle))
                /\ hin_fcgi_clean(st) = [q EXCEPT !.idle = <<>>, !.stopped = TRUE]
<1> DEFINE l == st.idle
           n == Len(l)
           t == CHOOSE f : f = [i \in 0 .. n |-> IF i = 0 THEN st
                                                 ELSE hin_fcgi_worker_free(f[i - 1], l[i])]
<1>1. l \in Seq(Nat) /\ IsInjective(l)
  BY Typed DEF Countable
<1>2. /\ n \in Nat /\ \A i \in 1 .. n : l[i] \in Nat /\ l[i] \in ToSet(l)
      /\ \A x : x \in ToSet(l) <=> \E i \in 1 .. n : l[i] = x
  BY <1>1, Elements
<1>3. \A i, j \in 1 .. n : l[i] = l[j] => i = j
  BY <1>1, LenProperties DEF IsInjective
<1>4. hin_fcgi_clean(st) = [t[n] EXCEPT !.idle = <<>>, !.stopped = TRUE]
  BY Zenon DEF hin_fcgi_clean
<1> HIDE DEF n
<1>5. IsAfter("free", t, st, l, n)
  <2>1. PICK f : IsAfter("free", f, st, l, n)
    BY <1>2, AfterExists
  <2>2. f = [i \in 0 .. n |-> IF i = 0 THEN st ELSE hin_fcgi_worker_free(f[i - 1], l[i])]
    BY <2>1, Zenon DEF IsAfter, Dropped
  <2>3. t = [i \in 0 .. n |-> IF i = 0 THEN st ELSE hin_fcgi_worker_free(t[i - 1], l[i])]
    BY <2>2, Zenon
  <2> HIDE DEF t
  <2> QED BY <2>3, Zenon DEF IsAfter, Dropped
<1> HIDE DEF t
<1>6. t[0] = st /\ \A i \in 0 .. n : i # 0 => t[i] = Dropped("free", l, i, t[i - 1])
  BY <1>2, <1>5, AfterSteps
<1> DEFINE D(m) == {l[i] : i \in 1 .. m}
           T == {m \in 0 .. n : ~Cleaned(st, t[m], D(m))}
<1>7. T = {}
  <2> SUFFICES ASSUME T # {} PROVE FALSE
    OBVIOUS
  <2>1. PICK m \in T : \A j \in T : m <= j
    <3>1. T \in SUBSET Nat
      BY <1>2
    <3> HIDE DEF T
    <3> QED BY <3>1, LeastNat
  <2>2. m \in 0 .. n /\ ~Cleaned(st, t[m], D(m)) /\ m \in Nat
    BY <1>2
  <2>3. CASE m = 0
    <3>1. D(m) = {}
      BY <2>3
    <3> HIDE DEF D
    <3> QED BY <1>6, <2>2, <2>3, <3>1, CleanedNone
  <2>4. CASE m # 0
    <3> DEFINE w == l[m]
               E == D(m - 1)
    <3>1. m - 1 \in 0 .. n /\ ~(m <= m - 1) /\ m \in 1 .. n
      BY <1>2, <2>2, <2>4
    <3>2. Cleaned(st, t[m - 1], E)
      BY <2>1, <3>1
    <3>3. w \in ToSet(l)
      BY <1>2, <3>1
    <3>4. t[m] = hin_fcgi_worker_free(t[m - 1], w)
      BY <1>6, <2>2, <2>4 DEF Dropped
    <3>5. w \notin E
      <4>1. \A i \in 1 .. (m - 1) : i \in 1 .. n /\ i # m
        BY <1>2, <3>1
      <4> QED BY <1>3, <3>1, <4>1
    <3>6. D(m) = E \cup {w}
      <4>1. 1 .. m = (1 .. (m - 1)) \cup {m}
        BY <2>2, <3>1
      <4> QED BY <4>1
    <3> HIDE DEF E, w
    <3>7. Cleaned(st, t[m], E \cup {w})
      BY <3>2, <3>3, <3>4, <3>5, FreeCleans
    <3> QED BY <2>2, <3>6, <3>7
  <2> QED BY <2>3, <2>4
<1>8. Cleaned(st, t[n], D(n))
  <2>1. n \in 0 .. n
    BY <1>2
  <2> QED BY <1>7, <2>1
<1>9. D(n) = ToSet(l)
  BY <1>2
<1> QED BY <1>4, <1>8, <1>9

(* The program was asked to stop when nobody was served: every connection  *)
(* is closed, every worker freed, and of the requests only error responses *)
(* are left to write. *)
Resting(st) ==
  /\ st \in GroupType /\ st.stopped /\ st.bad = {} /\ st.idle = <<>>
  /\ \A s \in DOMAIN st.sock : st.sock[s].state = "closed"
  /\ \A w \in DOMAIN st.work :
       LET k == st.work[w]
       IN k.io = {"END"} /\ k.http = NoRequest /\ k.upload = NoRequest /\ Quiet(k)
  /\ \A r \in Requests : Alone(st.req[r])

(* num_worker is exact when the program stops. *)
LEMMA InvCounts ==
  ASSUME NEW st, Inv(st)
  PROVE  Countable(st)
<1>1. Most(st) /\ st \in GroupType /\ ~st.stopped /\ IsInjective(st.idle)
  BY DEF Inv, Most, IdleOK
<1>2. ASSUME NEW w \in ToSet(st.idle)
      PROVE  /\ w \in DOMAIN st.work /\ st.work[w].socket \in DOMAIN st.sock
             /\ st.sock[st.work[w].socket].state # "closed"
  <2>1. w \in Nat
    BY <1>1, Typed, Elements
  <2>2. w \in DOMAIN st.work /\ Idle(st.work[w])
    BY <1>1, <1>2, <2>1 DEF Most, IdleOK
  <2>3. st.work[w].socket # None
    BY <2>2 DEF Idle
  <2> QED BY <1>1, <2>2, <2>3 DEF Most, WorkersOK
<1>3. \A t \in DOMAIN st.sock : SocketOK(st, t)
  BY <1>1 DEF Most
<1> QED BY <1>1, <1>2, <1>3 DEF Countable, SocketOK

(* Nobody in flight: the workers are idle, or gone. *)
LEMMA NotInFlight ==
  ASSUME IInv, ~InFlight
  PROVE  /\ \A w \in DOMAIN g.work : Idle(g.work[w]) \/ Gone(g.work[w])
         /\ \A r \in Requests : Alone(g.req[r])
<1>1. ASSUME NEW w \in DOMAIN g.work PROVE Idle(g.work[w]) \/ Gone(g.work[w])
  <2>1. g.work[w].freed \/ "END" \in g.work[w].io
    BY DEF InFlight, Workers
  <2>2. Shaped(g.work[w])
    BY DEF IInv, Inv, Most, WorkersOK
  <2> QED BY <2>1, <2>2 DEF Shaped, Queued, Uploading, Serving
<1>2. \A w \in DOMAIN g.work : Client(g.work[w]) = NoRequest
  BY <1>1 DEF Idle, Gone, Client
<1>3. \A r \in Requests : r # NoRequest
  BY FcgiAssumption
<1> QED BY <1>1, <1>2, <1>3 DEF IInv, Inv, Most, RequestsOK

(* hin_fcgi_clean: with requests in flight it is a fault, without it       *)
(* closes every connection. *)
LEMMA StopInv ==
  ASSUME IInv, Stop, faults' = {}
  PROVE  Resting(g')
<1>1. g \in GroupType /\ Most(g) /\ Inv(g) /\ g.bad = {}
  BY DEF IInv, Inv, Most
<1>2. g' = hin_fcgi_clean(g)
  BY DEF Stop
<1>3. Countable(g)
  BY <1>1, InvCounts
<1>4. ~InFlight
  BY DEF Stop, Note
<1>5. PICK q : Cleaned(g, q, ToSet(g.idle)) /\ g' = [q EXCEPT !.idle = <<>>, !.stopped = TRUE]
  BY <1>2, <1>3, CleanDoes
<1>6. q \in GroupType
  BY <1>5 DEF Cleaned
<1>7. /\ g' \in GroupType /\ g'.stopped = TRUE /\ g'.idle = <<>> /\ g'.sock = q.sock
      /\ g'.work = q.work /\ g'.req = q.req /\ g'.bad = q.bad
  <2>1. \A e \in Seq(Nat) :
          LET z == [q EXCEPT !.idle = e, !.stopped = TRUE]
          IN  /\ z \in GroupType /\ z.stopped = TRUE /\ z.idle = e /\ z.sock = q.sock
              /\ z.work = q.work /\ z.req = q.req /\ z.bad = q.bad
    BY <1>6 DEF GroupType
  <2>2. <<>> \in Seq(Nat)
    OBVIOUS
  <2> QED BY <1>5, <2>1, <2>2
<1>8. /\ \A w \in DOMAIN g.work : Idle(g.work[w]) \/ Gone(g.work[w])
      /\ \A r \in Requests : Alone(g.req[r])
  BY <1>4, NotInFlight
<1>9. ASSUME NEW s \in DOMAIN q.sock PROVE q.sock[s].state = "closed"
  <2>1. s \in DOMAIN g.sock /\ Reduced(g, q, s, ToSet(g.idle)) /\ SocketOK(g, s)
    BY <1>1, <1>5 DEF Cleaned, Most
  <2>2. g.sock[s].slots \in Seq(Nat) /\ s # None
    BY <1>1, <2>1, Typed DEF SocketType
  <2>3. ASSUME NEW i \in DOMAIN g.sock[s].slots PROVE g.sock[s].slots[i] \in ToSet(g.idle)
    <3> DEFINE w == g.sock[s].slots[i]
    <3>1. w \in Nat /\ w \in ToSet(g.sock[s].slots)
      BY <2>2, <2>3, Elements, LenProperties DEF ToSet
    <3> HIDE DEF w
    <3>2. w \in DOMAIN g.work /\ g.work[w].socket = s
      BY <2>1, <3>1 DEF SocketOK
    <3>3. Idle(g.work[w])
      BY <1>8, <2>2, <3>2 DEF Gone
    <3>4. w \in ToSet(g.idle)
      BY <1>1, <3>1, <3>2, <3>3 DEF Most, IdleOK
    <3> QED BY <3>4 DEF w
  <2>4. Filled(g, s, ToSet(g.idle)) = {}
    BY <2>3 DEF Filled
  <2> QED BY <2>1, <2>4 DEF Reduced
<1>10. ASSUME NEW w \in DOMAIN q.work
       PROVE  /\ q.work[w].io = {"END"} /\ q.work[w].http = NoRequest
              /\ q.work[w].upload = NoRequest /\ Quiet(q.work[w])
  <2>1. w \in DOMAIN g.work /\ g.work[w] \in WorkerType
    BY <1>1, <1>5, Typed DEF Cleaned
  <2>2. q.work[w] = [g.work[w] EXCEPT !.freed = TRUE] \/ q.work[w] = g.work[w]
    BY <1>5, <2>1 DEF Cleaned
  <2>3. /\ q.work[w].io = g.work[w].io /\ q.work[w].http = g.work[w].http
        /\ q.work[w].upload = g.work[w].upload /\ q.work[w].header = g.work[w].header
        /\ q.work[w].out = g.work[w].out /\ q.work[w].writing = g.work[w].writing
        /\ q.work[w].pipe = g.work[w].pipe /\ q.work[w].pending = g.work[w].pending
        /\ q.work[w].back = g.work[w].back
    BY <2>1, <2>2 DEF WorkerType
  <2>4. /\ g.work[w].io = {"END"} /\ g.work[w].http = NoRequest
        /\ g.work[w].upload = NoRequest /\ Quiet(g.work[w])
    BY <1>8, <2>1 DEF Idle, Gone
  <2> QED BY <2>3, <2>4 DEF Quiet
<1>11. q.req = g.req /\ q.bad = {}
  BY <1>1, <1>5 DEF Cleaned
<1> QED BY <1>7, <1>8, <1>9, <1>10, <1>11 DEF Resting

(* What is left after that: the error responses, and nobody to start. *)
LEMMA RestingNext ==
  ASSUME Resting(g), [Next]_vars, faults' = {}
  PROVE  Resting(g')
<1>1. /\ g \in GroupType /\ g.stopped = TRUE
      /\ \A w \in Workers : /\ g.work[w].writing = FALSE /\ g.work[w].upload = NoRequest
                            /\ g.work[w].back = <<>> /\ g.work[w].pipe = FALSE
  <2>1. g \in GroupType /\ g.stopped = TRUE
    BY DEF Resting, GroupType
  <2>2. ASSUME NEW w \in Workers
        PROVE  /\ g.work[w].writing = FALSE /\ g.work[w].upload = NoRequest
               /\ g.work[w].back = <<>> /\ g.work[w].pipe = FALSE
    <3>1. g.work[w] \in WorkerType
      BY <2>1, Typed DEF Workers
    <3> QED BY <3>1 DEF Resting, Quiet, Workers, WorkerType
  <2> QED BY <2>1, <2>2
<1>2. ASSUME NEW r \in Requests, Start(r) PROVE FALSE
  BY <1>1, <1>2 DEF Start, Note
<1>3. ASSUME NEW r \in Requests, RawDone(r) PROVE Resting(g')
  <2>1. PICK n : /\ Alone(n) /\ g' \in GroupType /\ Around(g, g') /\ g'.work = g.work
                 /\ g'.sock = g.sock /\ Changed(g.req, g'.req, r, n)
    BY <1>1, <1>3, RawDoneDoes DEF Resting
  <2>2. \A a \in Requests : Alone(g'.req[a])
    BY <1>1, <2>1, Typed DEF Changed, Resting
  <2> QED BY <2>1, <2>2 DEF Resting, Around
<1>4. ASSUME NEW s \in Sockets, Connected(s) \/ ConnectFails(s) PROVE FALSE
  BY <1>4 DEF Connected, ConnectFails, Resting, Sockets
<1>5. ASSUME NEW s \in Sockets, BackendCloses(s) PROVE FALSE
  BY <1>5, BackendFaults
<1>6. ASSUME NEW w \in Workers,
             WriteDone(w) \/ WriteFails(w) \/ UploadDone(w) \/ Stdout(w) \/ EndRequest(w)
               \/ BareEnd(w) \/ PipeWritten(w) \/ PipeFails(w)
      PROVE  FALSE
  BY <1>1, <1>6 DEF WriteDone, WriteFails, UploadDone, Record, Stdout, EndRequest, BareEnd,
                    PipeWritten, PipeFails
<1>7. ASSUME Stop PROVE FALSE
  BY <1>1, <1>7 DEF Stop
<1>8. CASE UNCHANGED vars
  BY <1>8 DEF vars
<1>9. CASE Done
  BY <1>9 DEF Done, vars
<1> QED BY <1>2, <1>3, <1>4, <1>5, <1>6, <1>7, <1>8, <1>9 DEF Next

----------------------------------------------------------------------------
(* The theorems. *)

(* A group that starts, without connections, workers or answers. *)
LEMMA InitInv == Init => IInv
<1> SUFFICES ASSUME NEW kind \in Mixes,
                    g = [slots |-> [i \in 1 .. MaxSocket |-> None], cur |-> 0, idle |-> <<>>,
                         sock |-> <<>>, work |-> <<>>,
                         req |-> [r \in Requests |-> [kind |-> kind[r], flags |-> {}, begun |-> 0,
                                                      raw |-> FALSE, ended |-> 0]],
                         stopped |-> FALSE, bad |-> {}]
             PROVE  IInv
  BY DEF Init
<1> DEFINE rq == [r \in Requests |-> [kind |-> kind[r], flags |-> {}, begun |-> 0,
                                      raw |-> FALSE, ended |-> 0]]
           sl == [i \in 1 .. MaxSocket |-> None]
<1>1. rq \in [Requests -> RequestType]
  <2>1. \A r \in Requests : kind[r] \in Kind
    BY FcgiAssumption
  <2>2. {} \in SUBSET {"DATA", "POST", "FCGI", "ERROR"}
    OBVIOUS
  <2> QED BY <2>1, <2>2 DEF RequestType
<1>2. sl \in [1 .. MaxSocket -> Nat] /\ \A i \in 1 .. MaxSocket : sl[i] = None
  BY DEF None
<1>3. \A r \in Requests : Alone(rq[r])
  BY DEF Alone
<1>4. /\ g.slots = sl /\ g.idle = <<>> /\ g.sock = <<>> /\ g.work = <<>> /\ g.req = rq
      /\ g.stopped = FALSE /\ g.bad = {}
  OBVIOUS
<1>5. g \in GroupType
  <2>1. /\ <<>> \in Seq(Nat) /\ <<>> \in Seq(SocketType) /\ <<>> \in Seq(WorkerType) /\ 0 \in Nat
        /\ {} \in SUBSET {"null", "freed", "mixed"} /\ FALSE \in BOOLEAN
    OBVIOUS
  <2>2. g = [slots |-> sl, cur |-> 0, idle |-> <<>>, sock |-> <<>>, work |-> <<>>, req |-> rq,
             stopped |-> FALSE, bad |-> {}]
    OBVIOUS
  <2>3. \A a \in [1 .. MaxSocket -> Nat], b \in Seq(Nat), c \in Seq(SocketType), d \in Seq(WorkerType),
           e \in [Requests -> RequestType], j \in SUBSET {"null", "freed", "mixed"} :
          [slots |-> a, cur |-> 0, idle |-> b, sock |-> c, work |-> d, req |-> e,
           stopped |-> FALSE, bad |-> j] \in GroupType
    BY DEF GroupType
  <2> HIDE DEF sl, rq
  <2>4. [slots |-> sl, cur |-> 0, idle |-> <<>>, sock |-> <<>>, work |-> <<>>, req |-> rq,
         stopped |-> FALSE, bad |-> {}] \in GroupType
    BY <1>1, <1>2, <2>1, <2>3, Zenon
  <2> QED BY <2>2, <2>4, Zenon
<1> HIDE DEF rq, sl
<1>6. DOMAIN g.work = {} /\ DOMAIN g.sock = {} /\ IsInjective(g.idle) /\ ToSet(g.idle) = {}
  BY <1>4 DEF IsInjective, ToSet
<1>7. WorkersOK(g) /\ RequestsOK(g) /\ IdleOK(g) /\ SlotsOK(g)
  BY <1>2, <1>3, <1>4, <1>6 DEF WorkersOK, RequestsOK, IdleOK, SlotsOK
<1> QED BY <1>4, <1>5, <1>6, <1>7 DEF IInv, Inv, Most

(* The invariant of the behaviours in which nothing goes wrong: the group  *)
(* serves, or is at rest. *)
Whole == IInv \/ Resting(g)

(* Every step without a fault keeps it. *)
LEMMA NextInv ==
  ASSUME MaxSocket > 0, IInv, [Next]_vars, faults' = {}
  PROVE  Whole'
<1>1. ASSUME NEW r \in Requests, Start(r) PROVE IInv'
  BY <1>1, StartInv
<1>2. ASSUME NEW r \in Requests, RawDone(r) PROVE IInv'
  BY <1>2, RawDoneInv
<1>3. ASSUME NEW s \in Sockets, Connected(s) PROVE IInv'
  BY <1>3, ConnectedInv
<1>4. ASSUME NEW s \in Sockets, ConnectFails(s) PROVE IInv'
  BY <1>4, ConnectFailsInv
<1>5. ASSUME NEW s \in Sockets, BackendCloses(s) PROVE FALSE
  BY <1>5, BackendFaults
<1>6. ASSUME NEW w \in Workers, WriteDone(w) PROVE IInv'
  BY <1>6, WriteDoneInv
<1>7. ASSUME NEW w \in Workers, WriteFails(w) PROVE FALSE
  BY <1>7, NoWriteFails
<1>8. ASSUME NEW w \in Workers, UploadDone(w) PROVE IInv'
  BY <1>8, UploadDoneInv
<1>9. ASSUME NEW w \in Workers, Stdout(w) PROVE IInv'
  BY <1>9, StdoutInv
<1>10. ASSUME NEW w \in Workers, EndRequest(w) PROVE IInv'
  BY <1>10, EndRequestInv
<1>11. ASSUME NEW w \in Workers, BareEnd(w) PROVE FALSE
  BY <1>11, BackendFaults
<1>12. ASSUME NEW w \in Workers, PipeWritten(w) PROVE IInv'
  BY <1>12, PipeWrittenInv
<1>13. ASSUME NEW w \in Workers, PipeFails(w) PROVE IInv'
  BY <1>13, PipeFailsInv
<1>14. ASSUME Stop PROVE Resting(g')
  BY <1>14, StopInv
<1>15. CASE Done
  BY <1>15 DEF Done, IInv, Whole, vars
<1>16. CASE UNCHANGED vars
  BY <1>16 DEF vars, IInv, Whole
<1> QED
  BY <1>1, <1>2, <1>3, <1>4, <1>5, <1>6, <1>7, <1>8, <1>9, <1>10, <1>11, <1>12,
     <1>13, <1>14, <1>15, <1>16 DEF Next, Whole

(* What the invariant says of the answers. *)
LEMMA WholeAnswers == Whole => AnsweredOnce
<1> SUFFICES ASSUME Whole, NEW r \in Requests
             PROVE  g.req[r].ended <= 1 /\ g.req[r].begun <= 1 /\ g.req[r].ended <= g.req[r].begun
  BY DEF AnsweredOnce
<1>1. g \in GroupType
  BY DEF Whole, IInv, Inv, Most, Resting
<1>2. g.req[r].ended \in Nat /\ g.req[r].begun \in Nat
  BY <1>1, Typed DEF RequestType
<1>3. Alone(g.req[r]) \/ \E w \in DOMAIN g.work : Agrees(g.work[w], g.req[r])
  BY DEF Whole, IInv, Inv, Most, RequestsOK, Resting
<1>4. CASE Alone(g.req[r])
  BY <1>2, <1>4 DEF Alone
<1>5. CASE \E w \in DOMAIN g.work : Agrees(g.work[w], g.req[r])
  <2>1. g.req[r].ended = 0 /\ (g.req[r].begun = 0 \/ g.req[r].begun = 1)
    BY <1>5 DEF Agrees
  <2> QED BY <2>1
<1> QED BY <1>3, <1>4, <1>5

(* What it says of those who wait. *)
LEMMA WholeStalls == Whole => StalledOnlyUnmade
<1> DEFINE Served(r, w) ==
             LET k == g.work[w]
                 s == k.socket
             IN \/ k.upload = r
                \/ k.http = r /\ (k.writing \/ k.back # <<>> \/ k.pending)
                \/ /\ k.http = r /\ w \in ToSet(g.sock[s].que)
                   /\ \/ g.sock[s].state = "connecting" /\ g.sock[s].resolved
                      \/ \E v \in ToSet(g.sock[s].slots) : g.work[v].upload # NoRequest
                      \/ Unmade(s)
<1> SUFFICES ASSUME Whole, NEW r \in Requests, g.req[r].flags # {}, ~g.req[r].raw
             PROVE  \E w \in Workers : Served(r, w)
  BY DEF StalledOnlyUnmade
<1>1. ~Alone(g.req[r])
  BY DEF Alone
<1>2. Inv(g) /\ Most(g) /\ g \in GroupType
  BY <1>1 DEF Whole, Resting, IInv, Inv, Most
<1>3. PICK w \in DOMAIN g.work : Client(g.work[w]) = r
  BY <1>1, <1>2 DEF Most, RequestsOK
<1> DEFINE k == g.work[w]
           s == k.socket
<1>4. Shaped(k) /\ w \in Nat /\ r # NoRequest /\ k \in WorkerType
  BY <1>2, <1>3, Typed, FcgiAssumption DEF Most, WorkersOK
<1>5. ~Idle(k) /\ ~Gone(k)
  BY <1>3, <1>4 DEF Idle, Gone, Client
<1>6. CASE Uploading(k)
  <2>1. k.upload = r
    BY <1>3, <1>6 DEF Uploading, Client
  <2> QED BY <1>3, <2>1 DEF Workers
<1>7. CASE Serving(k)
  <2>1. k.http = r
    BY <1>3, <1>7 DEF Serving, Client
  <2>2. k.writing \/ k.back # <<>> \/ k.pending
    <3>1. <<k.http>> # <<>>
      OBVIOUS
    <3> HIDE DEF k
    <3>2. Asking(k) \/ Answering(k) \/ Ending(k)
      BY <1>7 DEF Serving
    <3>3. CASE Asking(k)
      BY <3>1, <3>3 DEF Asking
    <3>4. CASE Answering(k)
      BY <3>1, <3>4 DEF Answering
    <3>5. CASE Ending(k)
      BY <3>5 DEF Ending
    <3> QED BY <3>2, <3>3, <3>4, <3>5
  <2> QED BY <1>3, <2>1, <2>2 DEF Workers
<1>8. CASE Queued(k)
  <2>1. k.http = r /\ s # None
    BY <1>3, <1>8 DEF Queued, Client
  <2>2. s \in DOMAIN g.sock /\ g.sock[s].state # "closed"
    BY <1>2, <1>3, <2>1 DEF Most, WorkersOK
  <2>3. SocketOK(g, s) /\ Held(g, s) /\ g.sock[s] \in SocketType
    BY <1>2, <2>2, Typed DEF Inv, Most
  <2>4. w \in ToSet(g.sock[s].que)
    BY <1>3, <1>4, <1>8, <2>3 DEF SocketOK
  <2>5. g.sock[s].que # <<>>
    <3>1. ToSet(<<>>) = {}
      BY DEF ToSet
    <3> QED BY <2>4, <3>1
  <2>6. g.sock[s].state = "connecting" \/ \E v \in DOMAIN g.work : Uploads(g, v, s)
    BY <2>2, <2>3, <2>5 DEF Held
  <2>7. ASSUME NEW v \in DOMAIN g.work, Uploads(g, v, s)
        PROVE  v \in ToSet(g.sock[s].slots) /\ g.work[v].upload # NoRequest
    <3>1. v \in Nat /\ g.work[v].socket = s /\ "POST" \in g.work[v].io /\ Shaped(g.work[v])
      BY <1>2, <2>7, Typed DEF Uploads, Most, WorkersOK
    <3>2. v \in ToSet(g.sock[s].slots)
      BY <2>3, <2>7, <3>1 DEF SocketOK
    <3>3. g.work[v].upload # NoRequest
      BY <3>1 DEF Shaped, Idle, Gone, Queued, Uploading, Serving
    <3> QED BY <3>2, <3>3
  <2>8. g.sock[s].state = "connecting" =>
          (g.sock[s].state = "connecting" /\ g.sock[s].resolved) \/ Unmade(s)
    BY DEF Unmade
  <2> QED BY <1>3, <2>1, <2>4, <2>6, <2>7, <2>8 DEF Workers
<1> QED BY <1>4, <1>5, <1>6, <1>7, <1>8 DEF Shaped

(* What it says of uploads. *)
LEMMA WholeUploads == Whole => UploadsSequential
<1> SUFFICES ASSUME Whole, NEW s \in Sockets
             PROVE  LET up == {w \in Workers : g.work[w].socket = s /\ "POST" \in g.work[w].io}
                    IN Cardinality(up) <= 1 /\ (up # {} => g.sock[s].busy)
  BY DEF UploadsSequential
<1> DEFINE up == {w \in Workers : g.work[w].socket = s /\ "POST" \in g.work[w].io}
<1>1. CASE up = {}
  <2>1. Cardinality(up) = 0
    BY <1>1, FS_EmptySet
  <2> HIDE DEF up
  <2>2. Cardinality(up) <= 1
    BY <2>1
  <2> QED BY <1>1, <2>2 DEF up
<1>2. CASE up # {}
  <2>1. PICK w \in Workers : g.work[w].socket = s /\ "POST" \in g.work[w].io
    BY <1>2
  <2>2. Inv(g) /\ Most(g) /\ g \in GroupType
    BY <2>1 DEF Whole, Resting, IInv, Inv, Most, Workers
  <2>3. s \in DOMAIN g.sock /\ s # None /\ Held(g, s)
    BY <2>2, Typed DEF Inv, Sockets
  <2>4. g.sock[s].state # "closed"
    BY <2>1, <2>2, <2>3 DEF Most, WorkersOK, Workers
  <2>5. g.sock[s].busy /\ \A v \in up : v = w
    BY <2>1, <2>3, <2>4 DEF Held, Uploads, Workers
  <2>6. up = {w}
    BY <2>1, <2>5
  <2>7. Cardinality(up) = 1
    BY <2>6, FS_Singleton
  <2> HIDE DEF up
  <2>8. Cardinality(up) <= 1
    BY <2>7
  <2> QED BY <2>5, <2>8 DEF up
<1> QED BY <1>1, <1>2

(* What it says of workers. *)
LEMMA WholeWorkers == Whole => WorkersExact
<1> SUFFICES ASSUME Whole PROVE WorkersExact
  OBVIOUS
<1>1. g \in GroupType
  BY DEF Whole, IInv, Inv, Most, Resting
<1>2. IsInjective(g.idle)
  BY DEF Whole, IInv, Inv, Most, IdleOK, Resting, IsInjective
<1>3. ASSUME NEW w \in ToSet(g.idle)
      PROVE  /\ g.work[w].socket # None /\ ~g.work[w].freed
             /\ w \in ToSet(g.sock[g.work[w].socket].slots)
             /\ g.work[w].http = NoRequest /\ g.work[w].back = <<>>
             /\ ~g.work[w].writing /\ g.work[w].upload = NoRequest
  <2>1. g.idle # <<>> /\ w \in Nat
    <3>1. ToSet(<<>>) = {}
      BY DEF ToSet
    <3> QED BY <1>1, <1>3, <3>1, Typed, Elements
  <2>2. Inv(g) /\ Most(g)
    BY <2>1 DEF Whole, Resting, IInv, Inv
  <2>3. w \in DOMAIN g.work /\ Idle(g.work[w])
    BY <1>3, <2>1, <2>2 DEF Most, IdleOK
  <2>4. g.work[w].socket \in DOMAIN g.sock
    BY <2>2, <2>3 DEF Most, WorkersOK, Idle
  <2>5. w \in ToSet(g.sock[g.work[w].socket].slots)
    BY <2>1, <2>2, <2>3, <2>4 DEF Most, SocketOK
  <2> QED BY <2>3, <2>5 DEF Idle, Quiet
<1>4. ASSUME NEW r \in Requests
      PROVE  Cardinality({w \in Workers : g.work[w].http = r}) =
               IF "FCGI" \in g.req[r].flags /\ "ERROR" \notin g.req[r].flags THEN 1 ELSE 0
  <2> DEFINE of == {w \in Workers : g.work[w].http = r}
  <2>1. r # NoRequest
    BY FcgiAssumption
  <2>2. CASE of = {}
    <3>1. Cardinality(of) = 0
      BY <2>2, FS_EmptySet
    <3>2. Alone(g.req[r]) \/ g.req[r].flags = {"POST"}
      <4>1. CASE Resting(g)
        BY <4>1 DEF Resting
      <4>2. CASE IInv
        <5>1. CASE \E w \in DOMAIN g.work : Client(g.work[w]) = r
          <6>1. PICK w \in DOMAIN g.work : Client(g.work[w]) = r
            BY <5>1
          <6>2. Agrees(g.work[w], g.req[r]) /\ g.work[w].http # r
            BY <2>2, <4>2, <6>1 DEF IInv, Inv, Most, RequestsOK, Workers
          <6>3. g.work[w].http = NoRequest
            BY <6>1, <6>2 DEF Client
          <6> QED BY <6>2, <6>3 DEF Agrees
        <5>2. CASE ~ \E w \in DOMAIN g.work : Client(g.work[w]) = r
          BY <4>2, <5>2 DEF IInv, Inv, Most, RequestsOK
        <5> QED BY <5>1, <5>2
      <4> QED BY <4>1, <4>2 DEF Whole
    <3>3. "FCGI" \notin g.req[r].flags \/ "ERROR" \in g.req[r].flags
      BY <3>2 DEF Alone
    <3> HIDE DEF of
    <3> QED BY <3>1, <3>3 DEF of
  <2>3. CASE of # {}
    <3>1. PICK w \in Workers : g.work[w].http = r
      BY <2>3
    <3>2. IInv
      BY <2>1, <3>1 DEF Whole, Resting, Workers
    <3>3. \A v \in Workers : g.work[v].http = r => Client(g.work[v]) = r
      BY <2>1 DEF Client
    <3>4. Agrees(g.work[w], g.req[r]) /\ \A v \in of : v = w
      BY <3>1, <3>2, <3>3 DEF IInv, Inv, Most, RequestsOK, Workers
    <3>5. of = {w}
      BY <3>1, <3>4
    <3>6. Cardinality(of) = 1
      BY <3>5, FS_Singleton
    <3>7. "FCGI" \in g.req[r].flags /\ "ERROR" \notin g.req[r].flags
      BY <2>1, <3>1, <3>4 DEF Agrees
    <3> HIDE DEF of
    <3> QED BY <3>6, <3>7 DEF of
  <2> QED BY <2>2, <2>3
<1> QED BY <1>2, <1>3, <1>4 DEF WorkersExact

(* No backend closed or ended early, no client left early, and the program *)
(* was not stopped with requests in flight, and every connection got a     *)
(* socket; connections may have been refused, their names may not have     *)
(* resolved, and an idle group may have been stopped. *)
NoFault == faults = {}

(* What it says of the group as a whole. *)
LEMMA WholeExact == NoFault /\ Whole => GroupExact
<1> SUFFICES ASSUME NoFault, Whole PROVE GroupExact
  OBVIOUS
<1>1. TypeOK
  BY DEF Whole, IInv, Inv, Most, Resting, TypeOK, NoFault
<1>2. CleanClosesAll
  BY DEF Whole, IInv, Inv, Most, Resting, CleanClosesAll, Sockets
<1> QED BY <1>1, <1>2, WholeUploads, WholeWorkers DEF GroupExact

(* The inductive invariant: the group is Whole until the first fault. *)
THEOREM InvariantCorrect ==
  ASSUME MaxSocket > 0
  PROVE  Spec => [](NoFault => Whole)
<1>1. Init => (NoFault => Whole)
  BY InitInv DEF Whole
<1>2. (NoFault => Whole) /\ [Next]_vars => (NoFault => Whole)'
  <2> SUFFICES ASSUME NoFault => Whole, [Next]_vars, faults' = {} PROVE Whole'
    BY DEF NoFault
  <2>1. Whole
    BY FaultsStay DEF NoFault
  <2> QED BY <2>1, NextInv, RestingNext DEF Whole
<1> QED BY <1>1, <1>2, PTL DEF Spec

(* Connections, workers and requests have their type until the first       *)
(* fault, for any set of requests and any number of connections. *)
THEOREM TypeCorrect ==
  ASSUME MaxSocket > 0
  PROVE  Spec => [](NoFault => TypeOK)
<1>1. (NoFault => Whole) => (NoFault => TypeOK)
  BY DEF Whole, IInv, Inv, Most, Resting, TypeOK, NoFault
<1> QED BY InvariantCorrect, <1>1, PTL

(* Nothing of what C leaves undefined happens in hin_fcgi_worker_run,      *)
(* hin_fcgi_pipe_write, hin_fcgi_pipe_end and the callbacks, unless one of *)
(* the noted faults does. *)
THEOREM SafeCorrect == Spec => []SafeWithoutFaults
<1>1. CASE MaxSocket > 0
  <2>1. (NoFault => Whole) => SafeWithoutFaults
    BY DEF Whole, IInv, Inv, Most, Resting, SafeWithoutFaults, NoFault
  <2> QED BY <1>1, InvariantCorrect, <2>1, PTL
<1>2. CASE ~(MaxSocket > 0)
  <2>1. SafeWithoutFaults
    BY <1>2 DEF SafeWithoutFaults
  <2> QED BY <2>1, PTL
<1> QED BY <1>1, <1>2

(* Until the first fault uploads over a connection are sequential, idle    *)
(* workers and requests in flight are accounted for, and hin_fcgi_clean    *)
(* closes every connection. *)
THEOREM GroupCorrect ==
  ASSUME MaxSocket > 0
  PROVE  Spec => [](NoFault => GroupExact)
<1>1. (NoFault => Whole) => (NoFault => GroupExact)
  BY WholeExact
<1> QED BY InvariantCorrect, <1>1, PTL

(* A request ends once, after one response, whatever order the upload, the *)
(* answer and a refused connection come in. *)
THEOREM AnsweredCorrect ==
  ASSUME MaxSocket > 0
  PROVE  Spec => []AnsweredOnce
<1>1. (NoFault => Whole) => AnsweredOnce
  BY WholeAnswers DEF AnsweredOnce, NoFault
<1> QED BY InvariantCorrect, <1>1, PTL

(* Whoever waits in hin_fcgi_socket_t.que waits for a connect or an upload *)
(* that is under way, and whoever is served for an operation in flight;    *)
(* only a connection whose name did not resolve, for which hin_connect     *)
(* never calls back, leaves its queue waiting for nobody. *)
THEOREM StalledCorrect ==
  ASSUME MaxSocket > 0
  PROVE  Spec => []StalledOnlyUnmade
<1>1. (NoFault => Whole) => StalledOnlyUnmade
  BY WholeStalls DEF StalledOnlyUnmade, NoFault
<1> QED BY InvariantCorrect, <1>1, PTL

=============================================================================
