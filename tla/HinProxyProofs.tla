--------------------------- MODULE HinProxyProofs ---------------------------
(***************************************************************************)
(* Proofs about HinProxy, for any set of requests and hosts, any uploads   *)
(* and any number of connections the servers close.                        *)
(*                                                                         *)
(* The inductive invariant has two layers.  Base holds whatever fails: the *)
(* idle list has exactly the connections whose flags say so, and the flags *)
(* of a connection allow for the operations on it.  Sure holds until a     *)
(* fault the code does not recover from (Unrecovered): every connection is *)
(* in one of five stages, and a request has at most one connection that    *)
(* serves it, which agrees with the counters of its parent; a parent that  *)
(* left was told its request ended.                                        *)
(*                                                                         *)
(* The functions of the code come first, each as what it does to one       *)
(* connection (OneMoves and OneMovesAlone lift that to the state), then    *)
(* one lemma per action.  The loop of http_connection_close_idle equals a  *)
(* closed form, round by round.                                            *)
(***************************************************************************)
EXTENDS HinProxy, SequenceTheorems, WellFoundedInduction, TLAPS

(* The connection stands in master.connection_idle. *)
Waits(k) == "IDLE" \in k.io /\ "STOPPING" \notin k.io

(* The response, or an upload after it, is still on its way. *)
Responding(k) == k.pipe \/ (k.post /\ "DATA" \notin k.io)

(* What holds of a connection whatever fails: flags and operations agree,  *)
(* and no operation uses an idle connection. *)
Sound(k) ==
  /\ k.pipe => "DATA" \in k.io
  /\ k.post => "POST" \in k.io
  /\ k.connecting \/ k.pipe \/ k.post => "IDLE" \notin k.io
  /\ k.connecting => ~k.pipe /\ ~k.post /\ ~k.sending /\ ~k.closing /\ k.read = "none"
  /\ k.closing /\ "DATA" \in k.io => ~k.open \/ k.read = "inactive"
  /\ Responding(k) => k.answered /\ k.read = "inactive" /\ ~k.closing
  /\ "IDLE" \in k.io => k.read # "none"
  /\ Waits(k) => "END" \notin k.io /\ ~k.closing /\ ~k.freed

(* The stages of a connection while no fault disturbs it. *)
Connecting(k) ==
  /\ k.connecting /\ k.io = {} /\ k.read = "none" /\ k.told /\ ~k.answered
  /\ k.parent # NoRequest /\ ~k.pipe

Working(k) ==
  /\ ~k.connecting /\ k.io \cap {"DATA", "POST"} # {}
  /\ k.io \cap {"STOPPING", "END", "IDLE"} = {} /\ k.told /\ k.parent # NoRequest
  /\ "POST" \in k.io => k.parent \in Upload
  /\ \/ "DATA" \in k.io /\ k.read = "active" /\ ~k.pipe /\ ~k.answered
     \/ "DATA" \in k.io /\ k.read = "inactive" /\ k.pipe /\ k.answered
     \/ "DATA" \notin k.io /\ k.read = "inactive" /\ ~k.pipe /\ k.answered

Idle(k) ==
  /\ ~k.connecting /\ "IDLE" \in k.io /\ k.io \cap {"DATA", "POST"} = {}
  /\ k.parent = NoRequest /\ k.answered /\ ~k.pipe /\ k.read # "none"
  /\ "STOPPING" \notin k.io => k.read = "active" /\ "END" \notin k.io

Over(k) ==
  /\ ~k.connecting /\ "STOPPING" \in k.io /\ k.io \cap {"IDLE", "POST"} = {}
  /\ k.read = "inactive" /\ ~k.pipe
  /\ "DATA" \in k.io => k.parent = NoRequest
  /\ "DATA" \notin k.io => k.answered

Failed(k) == ~k.connecting /\ k.io = {"END"} /\ k.read = "none" /\ ~k.pipe

Shaped(k) ==
  /\ Connecting(k) \/ Working(k) \/ Idle(k) \/ Over(k) \/ Failed(k)
  /\ k.sending <=> "HEADERS" \in k.io
  /\ k.post <=> "POST" \in k.io
  /\ k.closing <=> "STOPPING" \in k.io /\ "END" \notin k.io
  /\ k.freed <=> "END" \in k.io /\ "HEADERS" \notin k.io /\ k.read # "active"

Serves(k, r) == k.parent = r /\ (Connecting(k) \/ Working(k))

(* The counters of a parent agree with each other and with the connection  *)
(* that serves it. *)
Counted(q, f) ==
  /\ q.begun <= 1 /\ q.ended <= 1
  /\ "connect" \notin f => q.ended <= q.begun
  /\ ~q.asked => q.begun = 0 /\ q.ended = 0
  /\ q.gone # "no" => q.ended = 1

ServedBy(k, q) == q.asked /\ q.ended = 0 /\ q.begun = IF k.answered THEN 1 ELSE 0

Listed(st) ==
  /\ IsInjective(st.idle)
  /\ \A c \in Nat : c \in ToSet(st.idle) <=> c \in DOMAIN st.conn /\ Waits(st.conn[c])

Sure(st) ==
    /\ st.bad = {}
    /\ \A c \in DOMAIN st.conn : Shaped(st.conn[c])
    /\ \A r \in Requests : Counted(st.req[r], st.faults)
    /\ \A c \in DOMAIN st.conn, r \in Requests :
         Serves(st.conn[c], r) => ServedBy(st.conn[c], st.req[r])
    /\ \A c, d \in DOMAIN st.conn, r \in Requests :
         Serves(st.conn[c], r) /\ Serves(st.conn[d], r) => c = d

(* What holds whatever fails. *)
Base(st) ==
  /\ st \in ProxyType
  /\ Listed(st)
  /\ \A c \in DOMAIN st.conn : Sound(st.conn[c])

Inv(st) == Base(st) /\ (Undisturbed(st) => Sure(st))

IInv == Inv(p)

----------------------------------------------------------------------------
(* Lists: what stands where after a removal, and what is left. *)

(* The elements of a list are what stands at its positions. *)
LEMMA Elements ==
  ASSUME NEW S, NEW l \in Seq(S)
  PROVE  /\ Len(l) \in Nat /\ ToSet(l) \subseteq S
         /\ \A x : x \in ToSet(l) <=> \E i \in 1 .. Len(l) : l[i] = x
         /\ \A i \in 1 .. Len(l) : l[i] \in S /\ l[i] \in ToSet(l)
<1>1. Len(l) \in Nat /\ DOMAIN l = 1 .. Len(l) /\ \A i \in 1 .. Len(l) : l[i] \in S
  BY LenProperties, ElementOfSeq
<1> QED BY <1>1 DEF ToSet

(* RemoveAt, position by position. *)
LEMMA RemovedAt ==
  ASSUME NEW S, NEW l \in Seq(S), NEW i \in 1 .. Len(l)
  PROVE  LET r == RemoveAt(l, i)
         IN  /\ r \in Seq(S) /\ Len(r) = Len(l) - 1
             /\ \A x \in 1 .. (Len(l) - 1) : r[x] = IF x < i THEN l[x] ELSE l[x + 1]
<1> DEFINE n == Len(l)
           a == SubSeq(l, 1, i - 1)
           b == SubSeq(l, i + 1, n)
           r == a \o b
<1>1. n \in Nat /\ i \in Nat /\ i >= 1 /\ i <= n /\ \A x \in 1 .. n : l[x] \in S
  BY LenProperties, ElementOfSeq
<1> HIDE DEF n
<1>2. /\ a \in Seq(S) /\ Len(a) = i - 1 /\ \A x \in 1 .. (i - 1) : a[x] = l[x]
  <2>1. 1 \in Int /\ i - 1 \in Int /\ \A x \in 1 .. (i - 1) : l[x] \in S
    BY <1>1
  <2>2. /\ a \in Seq(S) /\ Len(a) = (IF 1 <= i - 1 THEN i - 1 - 1 + 1 ELSE 0)
        /\ \A x \in 1 .. (i - 1 - 1 + 1) : a[x] = l[1 + x - 1]
    BY <2>1, SubSeqProperties
  <2> QED BY <1>1, <2>2
<1>3. /\ b \in Seq(S) /\ Len(b) = n - i /\ \A x \in 1 .. (n - i) : b[x] = l[i + x]
  <2>1. i + 1 \in Int /\ n \in Int /\ \A x \in (i + 1) .. n : l[x] \in S
    BY <1>1
  <2>2. /\ b \in Seq(S) /\ Len(b) = (IF i + 1 <= n THEN n - (i + 1) + 1 ELSE 0)
        /\ \A x \in 1 .. (n - (i + 1) + 1) : b[x] = l[(i + 1) + x - 1]
    BY <2>1, SubSeqProperties
  <2>3. /\ n - (i + 1) + 1 = n - i /\ (IF i + 1 <= n THEN n - (i + 1) + 1 ELSE 0) = n - i
        /\ \A x \in 1 .. (n - i) : (i + 1) + x - 1 = i + x
    BY <1>1
  <2> QED BY <2>2, <2>3
<1> HIDE DEF a, b
<1>4. /\ r \in Seq(S) /\ Len(r) = Len(a) + Len(b)
      /\ \A x \in 1 .. Len(a) + Len(b) : r[x] = IF x <= Len(a) THEN a[x] ELSE b[x - Len(a)]
  BY <1>2, <1>3, ConcatProperties
<1> HIDE DEF r
<1>5. Len(r) = n - 1
  BY <1>1, <1>2, <1>3, <1>4
<1>6. ASSUME NEW x \in 1 .. (n - 1)
      PROVE  r[x] = IF x < i THEN l[x] ELSE l[x + 1]
  <2>1. r[x] = IF x <= i - 1 THEN a[x] ELSE b[x - (i - 1)]
    BY <1>1, <1>2, <1>3, <1>4
  <2>2. CASE x < i
    BY <1>1, <1>2, <2>1, <2>2
  <2>3. CASE ~ (x < i)
    <3>1. x - (i - 1) \in 1 .. (n - i) /\ i + (x - (i - 1)) = x + 1
      BY <1>1, <2>3
    <3> QED BY <1>1, <1>3, <2>1, <2>3, <3>1
  <2> QED BY <2>2, <2>3
<1> QED BY <1>4, <1>5, <1>6 DEF RemoveAt, r, a, b, n

(* A list that loses its first element keeps the rest. *)
LEMMA RemovedFirst ==
  ASSUME NEW S, NEW l \in Seq(S), NEW i \in 1 .. Len(l)
  PROVE  /\ SubSeq(l, i, Len(l)) \in Seq(S) /\ SubSeq(l, i + 1, Len(l)) \in Seq(S)
         /\ Len(SubSeq(l, i, Len(l))) = Len(l) - i + 1
         /\ \A x \in 1 .. (Len(l) - i + 1) : SubSeq(l, i, Len(l))[x] = l[i + x - 1]
         /\ RemoveAt(SubSeq(l, i, Len(l)), 1) = SubSeq(l, i + 1, Len(l))
<1> DEFINE n == Len(l)
           s == SubSeq(l, i, n)
           t == SubSeq(l, i + 1, n)
           r == RemoveAt(s, 1)
<1>1. n \in Nat /\ i \in Nat /\ 1 <= i /\ i <= n /\ \A x \in 1 .. n : l[x] \in S
  BY LenProperties, ElementOfSeq
<1> HIDE DEF n
<1>2. s \in Seq(S) /\ Len(s) = n - i + 1 /\ \A x \in 1 .. (n - i + 1) : s[x] = l[i + x - 1]
  <2>1. i \in Int /\ n \in Int /\ \A x \in i .. n : l[x] \in S
    BY <1>1
  <2>2. /\ s \in Seq(S) /\ Len(s) = (IF i <= n THEN n - i + 1 ELSE 0)
        /\ \A x \in 1 .. (n - i + 1) : s[x] = l[i + x - 1]
    BY <2>1, SubSeqProperties
  <2> QED BY <1>1, <2>2
<1>3. t \in Seq(S) /\ Len(t) = n - i /\ \A x \in 1 .. (n - i) : t[x] = l[i + x]
  <2>1. i + 1 \in Int /\ n \in Int /\ \A x \in (i + 1) .. n : l[x] \in S
    BY <1>1
  <2>2. /\ t \in Seq(S) /\ Len(t) = (IF i + 1 <= n THEN n - (i + 1) + 1 ELSE 0)
        /\ \A x \in 1 .. (n - (i + 1) + 1) : t[x] = l[(i + 1) + x - 1]
    BY <2>1, SubSeqProperties
  <2>3. /\ n - (i + 1) + 1 = n - i /\ (IF i + 1 <= n THEN n - (i + 1) + 1 ELSE 0) = n - i
        /\ \A x \in 1 .. (n - i) : (i + 1) + x - 1 = i + x
    BY <1>1
  <2> QED BY <2>2, <2>3
<1> HIDE DEF s, t
<1>4. 1 \in 1 .. Len(s)
  BY <1>1, <1>2
<1>5. r \in Seq(S) /\ Len(r) = Len(s) - 1 /\ \A x \in 1 .. (Len(s) - 1) : r[x] = IF x < 1 THEN s[x] ELSE s[x + 1]
  BY <1>2, <1>4, RemovedAt
<1> HIDE DEF r
<1>6. Len(r) = n - i
  BY <1>1, <1>2, <1>5
<1>7. \A x \in 1 .. (n - i) : r[x] = t[x]
  <2> SUFFICES ASSUME NEW x \in 1 .. (n - i) PROVE r[x] = t[x]
    OBVIOUS
  <2>1. x + 1 \in 1 .. (n - i + 1) /\ i + (x + 1) - 1 = i + x /\ ~(x < 1) /\ x \in 1 .. (Len(s) - 1)
    BY <1>1, <1>2
  <2> QED BY <1>2, <1>3, <1>5, <2>1
<1>8. r = t
  BY <1>3, <1>5, <1>6, <1>7, SeqEqual
<1> QED BY <1>2, <1>3, <1>8 DEF r, s, t, n

(* Removing a position of a list without repetitions removes its element   *)
(* and leaves no repetitions. *)
LEMMA RemovedElement ==
  ASSUME NEW S, NEW l \in Seq(S), IsInjective(l), NEW i \in 1 .. Len(l)
  PROVE  /\ RemoveAt(l, i) \in Seq(S) /\ IsInjective(RemoveAt(l, i))
         /\ ToSet(RemoveAt(l, i)) = ToSet(l) \ {l[i]}
<1> DEFINE r == RemoveAt(l, i)
           n == Len(l)
           at(x) == IF x < i THEN x ELSE x + 1
           from(a) == IF a < i THEN a ELSE a - 1
<1>1. n \in Nat /\ i \in Nat /\ 1 <= i /\ i <= n
  BY Elements
<1>2. r \in Seq(S) /\ Len(r) = n - 1 /\ \A x \in 1 .. (n - 1) : r[x] = l[at(x)]
  BY RemovedAt
<1>3. \A a, b \in 1 .. n : l[a] = l[b] => a = b
  BY Elements, LenProperties DEF IsInjective
<1> HIDE DEF r, n
<1>4. \A x \in 1 .. (n - 1) : at(x) \in 1 .. n /\ at(x) # i
  BY <1>1
<1>5. \A x, y \in 1 .. (n - 1) : at(x) = at(y) => x = y
  BY <1>1
<1>6. \A a \in 1 .. n : a # i => from(a) \in 1 .. (n - 1) /\ at(from(a)) = a
  BY <1>1
<1> HIDE DEF at, from
<1>7. IsInjective(r)
  <2>1. DOMAIN r = 1 .. (n - 1)
    BY <1>2, LenProperties
  <2> QED BY <1>2, <1>3, <1>4, <1>5, <2>1 DEF IsInjective
<1>8. ToSet(r) = ToSet(l) \ {l[i]}
  <2>1. ASSUME NEW x \in ToSet(r) PROVE x \in ToSet(l) \ {l[i]}
    <3>1. PICK a \in 1 .. (n - 1) : r[a] = x
      BY <1>2, Elements
    <3>2. at(a) \in 1 .. n /\ l[at(a)] = x /\ x # l[i]
      BY <1>1, <1>2, <1>3, <1>4, <3>1
    <3> QED BY <3>2, Elements DEF n
  <2>2. ASSUME NEW x \in ToSet(l) \ {l[i]} PROVE x \in ToSet(r)
    <3>1. PICK a \in 1 .. n : l[a] = x
      BY Elements DEF n
    <3>2. from(a) \in 1 .. (n - 1) /\ r[from(a)] = x
      BY <1>2, <1>6, <3>1
    <3> QED BY <1>2, <3>2, Elements
  <2> QED BY <2>1, <2>2
<1> QED BY <1>2, <1>7, <1>8 DEF r

(* Appending a new element to a list without repetitions. *)
LEMMA AppendedElement ==
  ASSUME NEW S, NEW l \in Seq(S), IsInjective(l), NEW e \in S, e \notin ToSet(l)
  PROVE  /\ Append(l, e) \in Seq(S) /\ IsInjective(Append(l, e))
         /\ ToSet(Append(l, e)) = ToSet(l) \cup {e}
<1> DEFINE r == Append(l, e)
           n == Len(l)
<1>1. n \in Nat /\ \A x : x \in ToSet(l) <=> \E i \in 1 .. n : l[i] = x
  BY Elements
<1>2. /\ r \in Seq(S) /\ Len(r) = n + 1 /\ r[n + 1] = e
      /\ \A i \in 1 .. n : r[i] = l[i]
  BY AppendProperties
<1>3. \A a, b \in 1 .. n : l[a] = l[b] => a = b
  BY Elements, LenProperties DEF IsInjective
<1> HIDE DEF r, n
<1>4. DOMAIN r = 1 .. (n + 1)
  BY <1>2, LenProperties
<1>5. \A i \in 1 .. (n + 1) : i \in 1 .. n \/ i = n + 1
  BY <1>1
<1>6. \A i \in 1 .. n : l[i] # e
  BY <1>1
<1>7. IsInjective(r)
  BY <1>2, <1>3, <1>4, <1>5, <1>6 DEF IsInjective
<1>8. \A x : x \in ToSet(r) <=> \E i \in 1 .. (n + 1) : r[i] = x
  BY <1>2, Elements
<1>9. n + 1 \in 1 .. (n + 1) /\ 1 .. n \subseteq 1 .. (n + 1)
  BY <1>1
<1>10. ToSet(r) = ToSet(l) \cup {e}
  <2>1. ASSUME NEW x \in ToSet(r) PROVE x \in ToSet(l) \cup {e}
    BY <1>1, <1>2, <1>5, <1>8
  <2>2. ASSUME NEW x \in ToSet(l) \cup {e} PROVE x \in ToSet(r)
    BY <1>1, <1>2, <1>8, <1>9
  <2> QED BY <2>1, <2>2
<1> QED BY <1>2, <1>7, <1>10 DEF r

(* A set of numbers that is not empty has a least element. *)
LEMMA LeastNat ==
  ASSUME NEW T \in SUBSET Nat, T # {}
  PROVE  Min(T) \in T /\ \A m \in T : Min(T) <= m
<1>1. \E n \in T : \A m \in T : ~ (<<m, n>> \in OpToRel(<, Nat))
  BY NatLessThanWellFounded, WFMin
<1>2. PICK n \in T : \A m \in T : ~ (<<m, n>> \in OpToRel(<, Nat))
  BY <1>1
<1>3. \A m \in T : ~ (m < n)
  BY <1>2 DEF OpToRel
<1>4. \E x \in T : \A m \in T : x <= m
  BY <1>3
<1> QED BY <1>4 DEF Min

----------------------------------------------------------------------------
(* One connection of a state. *)

Put(st, c, k) == [st EXCEPT !.conn[c] = k]

(* In q, connection c is k and the others are as in st. *)
Changed(st, q, c, k) ==
  /\ DOMAIN q.conn = DOMAIN st.conn /\ q.conn[c] = k
  /\ \A d \in DOMAIN st.conn : d # c => q.conn[d] = st.conn[d]

(* Nothing but connections and the idle list differ. *)
Around(st, q) ==
  q.req = st.req /\ q.closes = st.closes /\ q.faults = st.faults /\ q.bad = st.bad

(* The connections of a state have their type. *)
LEMMA ConnTyped ==
  ASSUME NEW st \in ProxyType
  PROVE  /\ st.conn \in Seq(ConnType) /\ st.idle \in Seq(Nat)
         /\ Len(st.conn) \in Nat /\ DOMAIN st.conn = 1 .. Len(st.conn)
         /\ \A c \in DOMAIN st.conn : c \in Nat /\ st.conn[c] \in ConnType
<1>1. st.conn \in Seq(ConnType) /\ st.idle \in Seq(Nat)
  BY DEF ProxyType
<1>2. Len(st.conn) \in Nat /\ DOMAIN st.conn = 1 .. Len(st.conn)
  BY <1>1, LenProperties
<1>3. \A c \in DOMAIN st.conn : c \in Nat /\ st.conn[c] \in ConnType
  BY <1>1, <1>2, ElementOfSeq
<1> QED BY <1>1, <1>2, <1>3

(* Put keeps the type, and changes what it says. *)
LEMMA PutDoes ==
  ASSUME NEW st \in ProxyType, NEW c \in DOMAIN st.conn, NEW k \in ConnType
  PROVE  /\ Put(st, c, k) \in ProxyType /\ Put(st, c, k).idle = st.idle
         /\ Changed(st, Put(st, c, k), c, k) /\ Around(st, Put(st, c, k))
<1> DEFINE s == [st.conn EXCEPT ![c] = k]
<1>1. st.conn \in Seq(ConnType)
  BY ConnTyped
<1>2. s \in Seq(ConnType)
  BY <1>1, ExceptSeq
<1>3. /\ DOMAIN s = DOMAIN st.conn /\ s[c] = k
      /\ \A d \in DOMAIN st.conn : d # c => s[d] = st.conn[d]
  OBVIOUS
<1>4. Put(st, c, k) = [st EXCEPT !.conn = s]
  BY DEF Put
<1> HIDE DEF s
<1> QED BY <1>2, <1>3, <1>4 DEF ProxyType, Changed, Around

(* The idle list still agrees when the connection neither joins nor leaves *)
(* it ... *)
LEMMA ListedSame ==
  ASSUME NEW st, Base(st), NEW q \in ProxyType, NEW c \in DOMAIN st.conn, NEW k,
         Changed(st, q, c, k), q.idle = st.idle, Waits(k) <=> Waits(st.conn[c]), Sound(k)
  PROVE  Base(q)
<1>1. Listed(q)
  BY DEF Base, Listed, Changed
<1>2. \A d \in DOMAIN q.conn : Sound(q.conn[d])
  BY DEF Base, Changed
<1> QED BY <1>1, <1>2 DEF Base

(* ... when it is removed from it ... *)
LEMMA ListedRemoved ==
  ASSUME NEW st, Base(st), NEW c \in DOMAIN st.conn, Waits(st.conn[c])
  PROVE  /\ basic_dlist_remove(st.idle, c) \in Seq(Nat)
         /\ \A k : \A q \in ProxyType :
              /\ Changed(st, q, c, k) /\ q.idle = basic_dlist_remove(st.idle, c)
              /\ ~Waits(k) /\ Sound(k)
              => Base(q)
<1> DEFINE l == st.idle
           i == CHOOSE j \in DOMAIN l : l[j] = c
           r == RemoveAt(l, i)
<1>1. l \in Seq(Nat) /\ IsInjective(l) /\ c \in ToSet(l) /\ c \in Nat
  BY ConnTyped DEF Base, Listed
<1>2. DOMAIN l = 1 .. Len(l)
  BY <1>1, LenProperties
<1>3. i \in 1 .. Len(l) /\ l[i] = c
  BY <1>1, <1>2, Elements
<1> HIDE DEF i
<1>4. r \in Seq(Nat) /\ IsInjective(r) /\ ToSet(r) = ToSet(l) \ {c}
  BY <1>1, <1>3, RemovedElement
<1>5. r = basic_dlist_remove(l, c)
  BY DEF basic_dlist_remove, i
<1> HIDE DEF r
<1>6. ASSUME NEW q \in ProxyType, NEW k, Changed(st, q, c, k), q.idle = r,
             ~Waits(k), Sound(k)
      PROVE  Base(q)
  <2>1. Listed(q)
    BY <1>4, <1>6 DEF Base, Listed, Changed
  <2>2. \A d \in DOMAIN q.conn : Sound(q.conn[d])
    BY <1>6 DEF Base, Changed
  <2> QED BY <2>1, <2>2 DEF Base
<1> QED BY <1>4, <1>5, <1>6

(* ... and when it is appended to it. *)
LEMMA ListedAppended ==
  ASSUME NEW st, Base(st), NEW c \in DOMAIN st.conn, ~Waits(st.conn[c])
  PROVE  /\ Append(st.idle, c) \in Seq(Nat)
         /\ \A k : \A q \in ProxyType :
              /\ Changed(st, q, c, k) /\ q.idle = Append(st.idle, c)
              /\ Waits(k) /\ Sound(k)
              => Base(q)
<1> DEFINE l == st.idle
           r == Append(l, c)
<1>1. l \in Seq(Nat) /\ IsInjective(l) /\ c \notin ToSet(l) /\ c \in Nat
  BY ConnTyped DEF Base, Listed
<1>2. r \in Seq(Nat) /\ IsInjective(r) /\ ToSet(r) = ToSet(l) \cup {c}
  BY <1>1, AppendedElement
<1> HIDE DEF r
<1>3. ASSUME NEW q \in ProxyType, NEW k, Changed(st, q, c, k), q.idle = r,
             Waits(k), Sound(k)
      PROVE  Base(q)
  <2>1. Listed(q)
    BY <1>2, <1>3 DEF Base, Listed, Changed
  <2>2. \A d \in DOMAIN q.conn : Sound(q.conn[d])
    BY <1>3 DEF Base, Changed
  <2> QED BY <2>1, <2>2 DEF Base
<1> QED BY <1>2, <1>3 DEF r

(* A connection that neither joins nor leaves the list, put in its place. *)
LEMMA PutBase ==
  ASSUME NEW st, Base(st), NEW c \in DOMAIN st.conn, NEW k \in ConnType,
         Sound(k), Waits(k) <=> Waits(st.conn[c])
  PROVE  /\ Base(Put(st, c, k)) /\ Changed(st, Put(st, c, k), c, k)
         /\ Around(st, Put(st, c, k)) /\ Put(st, c, k).idle = st.idle
<1>1. st \in ProxyType
  BY DEF Base
<1>2. /\ Put(st, c, k) \in ProxyType /\ Put(st, c, k).idle = st.idle
      /\ Changed(st, Put(st, c, k), c, k) /\ Around(st, Put(st, c, k))
  BY <1>1, PutDoes
<1>3. Base(Put(st, c, k))
  BY <1>2, ListedSame
<1> QED BY <1>2, <1>3

----------------------------------------------------------------------------
(* What the functions of the code do to the connection they are called on. *)

Frees(k) ==
  "END" \in k.io /\ k.io \cap {"HEADERS", "POST"} = {} /\ k.read # "active"

(* http_client_unlink *)
Unlinked(k) == IF Frees(k) THEN [k EXCEPT !.freed = TRUE] ELSE k

(* http_client_shutdown *)
Shut(k) ==
  IF Frees(k) THEN [k EXCEPT !.freed = TRUE]
  ELSE IF "STOPPING" \in k.io THEN k
  ELSE [k EXCEPT !.io = @ \cup {"STOPPING"}, !.closing = TRUE]

(* No operation that must end first uses the connection. *)
MayShut(k) ==
  \/ "STOPPING" \in k.io
  \/ ~Responding(k) /\ ~k.connecting /\ ("DATA" \in k.io => ~k.open \/ k.read = "inactive")

(* http_connection_release *)
Released(k) ==
  IF ~k.keep THEN Shut(k)
  ELSE [k EXCEPT !.parent = NoRequest, !.keep = FALSE, !.read = "active",
                 !.io = (@ \cap {"HEADERS"}) \cup {"IDLE"}]

(* A connection put back as it is changes nothing. *)
LEMMA SameBase ==
  ASSUME NEW st, NEW c \in DOMAIN st.conn
  PROVE  Changed(st, st, c, st.conn[c]) /\ Around(st, st)
BY DEF Changed, Around

(* http_client_unlink frees the connection or leaves it alone. *)
LEMMA UnlinkDoes ==
  ASSUME NEW st, Base(st), NEW c \in DOMAIN st.conn
  PROVE  LET q == http_client_unlink(st, c)
         IN  /\ Base(q) /\ Changed(st, q, c, Unlinked(st.conn[c]))
             /\ Around(st, q) /\ q.idle = st.idle
<1> DEFINE k == st.conn[c]
           q == http_client_unlink(st, c)
           n == [k EXCEPT !.freed = TRUE]
<1>1. st \in ProxyType /\ k \in ConnType /\ Sound(k)
  BY ConnTyped DEF Base
<1>2. CASE Frees(k)
  <2>1. q = Put(st, c, n)
    BY <1>1, <1>2 DEF http_client_unlink, Frees, Put, ProxyType
  <2>2. n \in ConnType /\ Sound(n) /\ (Waits(n) <=> Waits(k))
    BY <1>1, <1>2 DEF ConnType, Sound, Waits, Responding, Frees
  <2> HIDE DEF n, q
  <2>3. /\ Base(Put(st, c, n)) /\ Changed(st, Put(st, c, n), c, n)
        /\ Around(st, Put(st, c, n)) /\ Put(st, c, n).idle = st.idle
    BY <2>2, PutBase
  <2> QED BY <1>2, <2>1, <2>3 DEF Unlinked, n, q
<1>3. CASE ~Frees(k)
  <2>1. q = st
    BY <1>3 DEF http_client_unlink, Frees
  <2>2. Unlinked(k) = k
    BY <1>3 DEF Unlinked
  <2> QED BY <2>1, <2>2, SameBase
<1> QED BY <1>2, <1>3

(* http_client_shutdown closes the connection, and removes it from the     *)
(* idle list when it waits there. *)
LEMMA ShutdownDoes ==
  ASSUME NEW st, Base(st), NEW c \in DOMAIN st.conn,
         ~st.conn[c].freed, MayShut(st.conn[c])
  PROVE  LET q == http_client_shutdown(st, c)
         IN  /\ Base(q) /\ Changed(st, q, c, Shut(st.conn[c])) /\ Around(st, q)
             /\ q.idle = IF Waits(st.conn[c]) THEN basic_dlist_remove(st.idle, c) ELSE st.idle
<1> DEFINE k == st.conn[c]
           q == http_client_shutdown(st, c)
           u == http_client_unlink(st, c)
           n == [k EXCEPT !.io = @ \cup {"STOPPING"}, !.closing = TRUE]
<1>1. st \in ProxyType /\ k \in ConnType /\ Sound(k)
  BY ConnTyped DEF Base
<1>2. /\ Base(u) /\ Changed(st, u, c, Unlinked(k)) /\ Around(st, u) /\ u.idle = st.idle
  BY UnlinkDoes
<1>3. u.conn[c] = Unlinked(k)
  BY <1>2 DEF Changed
<1>4. u.conn[c].freed <=> Frees(k)
  BY <1>1, <1>3 DEF Unlinked, ConnType
<1>5. q = IF u.conn[c].freed THEN u
          ELSE IF "STOPPING" \in k.io THEN st
          ELSE [st EXCEPT !.conn[c].io = @ \cup {"STOPPING"}, !.conn[c].closing = TRUE,
                          !.idle = IF "IDLE" \in k.io
                                   THEN basic_dlist_remove(@, c) ELSE @]
  BY DEF http_client_shutdown
<1> HIDE DEF u, q
<1>6. CASE Frees(k)
  <2>1. q = u /\ Shut(k) = Unlinked(k) /\ ~Waits(k)
    BY <1>1, <1>4, <1>5, <1>6 DEF Shut, Unlinked, Frees, Sound
  <2> QED BY <1>2, <2>1 DEF q
<1>7. CASE ~Frees(k) /\ "STOPPING" \in k.io
  <2>1. q = st /\ Shut(k) = k /\ ~Waits(k)
    BY <1>4, <1>5, <1>7 DEF Shut, Waits
  <2> QED BY <2>1, SameBase DEF q
<1>8. CASE ~Frees(k) /\ "STOPPING" \notin k.io
  <2>1. q = [st EXCEPT !.conn[c].io = @ \cup {"STOPPING"}, !.conn[c].closing = TRUE,
                       !.idle = IF "IDLE" \in k.io THEN basic_dlist_remove(@, c) ELSE @]
    BY <1>4, <1>5, <1>8
  <2>2. Shut(k) = n
    BY <1>8 DEF Shut
  <2>3. n \in ConnType /\ Sound(n) /\ ~Waits(n)
    BY <1>1, <1>8 DEF ConnType, Sound, Waits, Responding, Flag, MayShut
  <2>4. /\ Put(st, c, n) \in ProxyType /\ Put(st, c, n).idle = st.idle
        /\ Changed(st, Put(st, c, n), c, n) /\ Around(st, Put(st, c, n))
    BY <1>1, <2>3, PutDoes
  <2>5. CASE "IDLE" \notin k.io
    <3>1. q = Put(st, c, n)
      BY <1>1, <2>1, <2>5 DEF Put, ProxyType
    <3>2. ~Waits(k)
      BY <2>5 DEF Waits
    <3> HIDE DEF n
    <3>3. Base(q)
      BY <2>3, <2>4, <3>1, <3>2, PutBase
    <3> QED BY <2>2, <2>4, <3>1, <3>2, <3>3 DEF q
  <2>6. CASE "IDLE" \in k.io
    <3> DEFINE l == basic_dlist_remove(st.idle, c)
    <3>1. Waits(k)
      BY <1>8, <2>6 DEF Waits
    <3>2. q = [Put(st, c, n) EXCEPT !.idle = l]
      BY <1>1, <2>1, <2>6 DEF Put, ProxyType
    <3>3. l \in Seq(Nat)
      BY <3>1, ListedRemoved
    <3> HIDE DEF n, l
    <3>4. /\ q \in ProxyType /\ q.idle = l /\ Changed(st, q, c, n) /\ Around(st, q)
      BY <2>4, <3>2, <3>3 DEF ProxyType, Changed, Around
    <3>5. Base(q)
      BY <2>3, <3>1, <3>4, ListedRemoved DEF l
    <3> QED BY <2>2, <3>1, <3>4, <3>5 DEF q, l
  <2> QED BY <2>5, <2>6
<1> QED BY <1>6, <1>7, <1>8

(* The second of two changes of one connection stays. *)
LEMMA PutAgain ==
  ASSUME NEW st \in ProxyType, NEW c \in DOMAIN st.conn, NEW a, NEW b
  PROVE  Put(Put(st, c, a), c, b) = Put(st, c, b)
BY DEF Put, ProxyType

(* What http_connection_release writes to a connection that it keeps. *)
LEMMA KeptAsPut ==
  ASSUME NEW st \in ProxyType, NEW c \in DOMAIN st.conn
  PROVE  [st EXCEPT !.conn[c].parent = NoRequest, !.conn[c].keep = FALSE,
                    !.conn[c].read = "active",
                    !.conn[c].io = (@ \cap {"HEADERS"}) \cup {"IDLE"}]
         = Put(st, c, [st.conn[c] EXCEPT !.parent = NoRequest, !.keep = FALSE,
                                         !.read = "active",
                                         !.io = (@ \cap {"HEADERS"}) \cup {"IDLE"}])
<1> DEFINE k == st.conn[c]
           m == [k EXCEPT !.parent = NoRequest, !.keep = FALSE]
           io == (k.io \cap {"HEADERS"}) \cup {"IDLE"}
           n == [m EXCEPT !.read = "active", !.io = io]
           u == [st EXCEPT !.conn[c].parent = NoRequest, !.conn[c].keep = FALSE]
           q == [u EXCEPT !.conn[c].read = "active", !.conn[c].io = io]
<1>1. k \in ConnType
  BY ConnTyped
<1>2. m \in ConnType
  BY <1>1 DEF ConnType
<1>3. u = Put(st, c, m)
  BY DEF Put, ProxyType
<1> HIDE DEF m
<1>4. u \in ProxyType /\ c \in DOMAIN u.conn /\ u.conn[c] = m
  <2>1. Put(st, c, m) \in ProxyType /\ Changed(st, Put(st, c, m), c, m)
    BY <1>2, PutDoes
  <2> QED BY <1>3, <2>1 DEF Changed
<1> HIDE DEF u, io
<1>5. q = Put(u, c, n)
  BY <1>4 DEF Put, ProxyType
<1>6. Put(u, c, n) = Put(st, c, n)
  <2> HIDE DEF n
  <2> QED BY <1>3, PutAgain
<1>7. q = [st EXCEPT !.conn[c].parent = NoRequest, !.conn[c].keep = FALSE,
                     !.conn[c].read = "active",
                     !.conn[c].io = (@ \cap {"HEADERS"}) \cup {"IDLE"}]
  BY Zenon DEF q, u, io
<1>8. n = [k EXCEPT !.parent = NoRequest, !.keep = FALSE, !.read = "active",
                    !.io = (@ \cap {"HEADERS"}) \cup {"IDLE"}]
  BY Zenon DEF n, m, io
<1> HIDE DEF q, n
<1> QED BY <1>5, <1>6, <1>7, <1>8, Zenon

(* http_connection_release shuts the connection down or lists it as idle. *)
LEMMA ReleaseDoes ==
  ASSUME NEW st, Base(st), NEW c \in DOMAIN st.conn,
         LET k == st.conn[c]
         IN  /\ ~k.freed /\ ~k.connecting /\ ~k.pipe /\ ~k.post /\ ~k.closing
             /\ "IDLE" \notin k.io /\ "DATA" \notin k.io
  PROVE  LET q == http_connection_release(st, c)
         IN  Base(q) /\ Changed(st, q, c, Released(st.conn[c])) /\ Around(st, q)
<1> DEFINE k == st.conn[c]
           q == http_connection_release(st, c)
           n == [k EXCEPT !.parent = NoRequest, !.keep = FALSE, !.read = "active",
                          !.io = (@ \cap {"HEADERS"}) \cup {"IDLE"}]
           l == Append(st.idle, c)
<1>1. st \in ProxyType /\ k \in ConnType /\ Sound(k)
  BY ConnTyped DEF Base
<1>2. CASE ~k.keep
  <2>1. q = http_client_shutdown(st, c) /\ Released(k) = Shut(k)
    BY <1>2 DEF http_connection_release, Released
  <2>2. MayShut(k)
    BY DEF MayShut, Responding
  <2> HIDE DEF q
  <2>3. LET u == http_client_shutdown(st, c)
        IN  Base(u) /\ Changed(st, u, c, Shut(k)) /\ Around(st, u)
    BY <2>2, ShutdownDoes
  <2> QED BY <2>1, <2>3 DEF q
<1>3. CASE k.keep
  <2>1. Released(k) = n
    BY <1>3 DEF Released
  <2> DEFINE w == [st EXCEPT !.idle = l]
  <2>2. q = [w EXCEPT !.conn[c].parent = NoRequest, !.conn[c].keep = FALSE,
                      !.conn[c].read = "active",
                      !.conn[c].io = (@ \cap {"HEADERS"}) \cup {"IDLE"}]
    BY <1>3 DEF http_connection_release
  <2>3. n \in ConnType /\ Sound(n) /\ Waits(n)
    BY <1>1 DEF ConnType, Sound, Waits, Responding, Flag
  <2>4. ~Waits(k)
    BY DEF Waits
  <2>5. l \in Seq(Nat)
    BY <2>4, ListedAppended
  <2> HIDE DEF n, l, q
  <2>6. w \in ProxyType /\ w.idle = l /\ w.conn = st.conn /\ Around(st, w)
    BY <1>1, <2>5 DEF ProxyType, Around
  <2> HIDE DEF w
  <2>7. /\ q \in ProxyType /\ q.idle = l /\ Changed(st, q, c, n) /\ Around(st, q)
    <3>1. /\ Put(w, c, n) \in ProxyType /\ Put(w, c, n).idle = w.idle
          /\ Changed(w, Put(w, c, n), c, n) /\ Around(w, Put(w, c, n))
      BY <2>3, <2>6, PutDoes
    <3>2. q = Put(w, c, n)
      <4>1. c \in DOMAIN w.conn /\ w.conn[c] = k
        BY <2>6
      <4> QED BY <2>2, <2>6, <4>1, KeptAsPut DEF n
    <3> QED BY <2>6, <3>1, <3>2 DEF Changed, Around
  <2>8. Base(q)
    BY <2>3, <2>4, <2>7, ListedAppended DEF l
  <2> QED BY <2>1, <2>7, <2>8 DEF q
<1> QED BY <1>2, <1>3

(* hin_rproxy_finish and the state callback change the parent at most. *)
LEMMA TellDoes ==
  ASSUME NEW st, Base(st), NEW c \in DOMAIN st.conn
  PROVE  LET q == Tell(st, c)
             r == st.conn[c].parent
         IN  /\ Base(q) /\ q.conn = st.conn /\ q.idle = st.idle
             /\ q.closes = st.closes /\ q.faults = st.faults
             /\ st.conn[c].told /\ r # NoRequest /\ ~Past(st, r) =>
                  /\ q.bad = st.bad
                  /\ q.req = [st.req EXCEPT ![r].ended = 1]
<1> DEFINE k == st.conn[c]
           q == Tell(st, c)
           r == k.parent
<1>1. st \in ProxyType /\ k \in ConnType
  BY ConnTyped DEF Base
<1>2. k.told /\ r # NoRequest => r \in Requests /\ st.req[r] \in ParentType
  BY <1>1 DEF ConnType, ProxyType
<1>3. /\ q \in ProxyType /\ q.conn = st.conn /\ q.idle = st.idle
      /\ q.closes = st.closes /\ q.faults = st.faults
  <2>1. CASE ~k.told
    BY <1>1, <2>1 DEF Tell
  <2>2. CASE k.told /\ (r = NoRequest \/ Past(st, r))
    <3>1. \E b \in {"null", "freed"} : q = [st EXCEPT !.bad = @ \cup {b}]
      BY <2>2 DEF Tell, hin_rproxy_finish, Bad
    <3> HIDE DEF q
    <3> QED BY <1>1, <3>1 DEF ProxyType
  <2>3. CASE k.told /\ r # NoRequest /\ ~Past(st, r)
    <3> DEFINE t == [st.req EXCEPT ![r].ended = @ + 1]
    <3>1. q = [st EXCEPT !.req = t]
      BY <2>3 DEF Tell, hin_rproxy_finish
    <3>2. t \in [Requests -> ParentType]
      <4> DEFINE e == [st.req[r] EXCEPT !.ended = @ + 1]
      <4>1. e \in ParentType
        BY <1>2, <2>3 DEF ParentType
      <4>2. t = [st.req EXCEPT ![r] = e] /\ st.req \in [Requests -> ParentType]
        BY <1>1 DEF ProxyType
      <4> HIDE DEF e, t
      <4> QED BY <4>1, <4>2
    <3> HIDE DEF q, t
    <3> QED BY <1>1, <3>1, <3>2 DEF ProxyType
  <2> QED BY <2>1, <2>2, <2>3
<1>4. ASSUME k.told, r # NoRequest, ~Past(st, r)
      PROVE  q.bad = st.bad /\ q.req = [st.req EXCEPT ![r].ended = 1]
  <2>1. r \in Requests /\ st.req[r].ended = 0
    BY <1>2, <1>4 DEF Past, ParentType
  <2>2. q = [st EXCEPT !.req[r].ended = @ + 1]
    BY <1>4 DEF Tell, hin_rproxy_finish
  <2> HIDE DEF q
  <2> QED BY <1>1, <2>1, <2>2 DEF ProxyType
<1> HIDE DEF q
<1>5. Base(q)
  BY <1>3 DEF Base, Listed
<1> QED BY <1>3, <1>4, <1>5 DEF q

(* http_client_start_headers *)
Started(k) ==
  [k EXCEPT !.io = @ \cup {"HEADERS", "DATA"}
                     \cup (IF k.told /\ k.parent \in Upload THEN {"POST"} ELSE {}),
            !.sending = TRUE, !.answered = FALSE, !.post = k.told /\ k.parent \in Upload]

(* Two changes of one connection are one. *)
LEMMA ChangedTwice ==
  ASSUME NEW st, NEW u, NEW q, NEW c, NEW k, NEW n, Changed(st, u, c, k), Changed(u, q, c, n)
  PROVE  Changed(st, q, c, n)
BY DEF Changed

(* http_client_start_headers sends the head and starts the upload. *)
LEMMA StartHeadersDoes ==
  ASSUME NEW st, Base(st), NEW c \in DOMAIN st.conn,
         LET k == st.conn[c] IN ~k.connecting /\ ~k.pipe /\ ~k.closing /\ "IDLE" \notin k.io
  PROVE  LET q == http_client_start_headers(st, c)
         IN  /\ Base(q) /\ Changed(st, q, c, Started(st.conn[c])) /\ Around(st, q)
             /\ q.idle = st.idle
<1> DEFINE k == st.conn[c]
           q == http_client_start_headers(st, c)
           n == Started(k)
<1>1. st \in ProxyType /\ k \in ConnType /\ Sound(k)
  BY ConnTyped DEF Base
<1>2. q = Put(st, c, n)
  <2> DEFINE b == k.told /\ k.parent \in Upload
             x == {"HEADERS", "DATA"}
             y == IF b THEN {"POST"} ELSE {}
  <2>1. q = [st EXCEPT !.conn[c].io = @ \cup x \cup y, !.conn[c].sending = TRUE,
                       !.conn[c].answered = FALSE, !.conn[c].post = b]
    BY DEF http_client_start_headers
  <2>2. n = [k EXCEPT !.io = @ \cup x \cup y, !.sending = TRUE, !.answered = FALSE, !.post = b]
    BY DEF Started
  <2> HIDE DEF b, x, y, n, q
  <2> QED BY <1>1, <2>1, <2>2, ZenonT(40) DEF Put, ProxyType
<1>3. n \in ConnType /\ Sound(n) /\ ~Waits(n) /\ ~Waits(k)
  BY <1>1 DEF Started, ConnType, Sound, Waits, Responding, Flag
<1> HIDE DEF n, q
<1>4. /\ Base(Put(st, c, n)) /\ Changed(st, Put(st, c, n), c, n)
      /\ Around(st, Put(st, c, n)) /\ Put(st, c, n).idle = st.idle
  BY <1>3, PutBase
<1> QED BY <1>2, <1>4 DEF n, q

(* http_client_finish_request waits for the answer and the upload, tells   *)
(* the parent and releases the connection. *)
LEMMA FinishDoes ==
  ASSUME NEW st, Base(st), NEW c \in DOMAIN st.conn,
         LET k == st.conn[c]
         IN  k.io \cap {"DATA", "POST"} = {} =>
               /\ ~k.freed /\ ~k.connecting /\ ~k.pipe /\ ~k.post /\ ~k.closing
               /\ "IDLE" \notin k.io
  PROVE  LET k == st.conn[c]
             q == http_client_finish_request(st, c)
         IN  /\ Base(q) /\ q.closes = st.closes /\ q.faults = st.faults
             /\ k.io \cap {"DATA", "POST"} # {} => Changed(st, q, c, k) /\ Around(st, q)
             /\ k.io \cap {"DATA", "POST"} = {} =>
                  /\ Changed(st, q, c, Released(k))
                  /\ k.told /\ k.parent # NoRequest /\ ~Past(st, k.parent) =>
                       /\ q.bad = st.bad
                       /\ q.req = [st.req EXCEPT ![k.parent].ended = 1]
<1> DEFINE k == st.conn[c]
           q == http_client_finish_request(st, c)
           t == Tell(st, c)
<1>1. CASE k.io \cap {"DATA", "POST"} # {}
  <2>1. q = st
    BY <1>1 DEF http_client_finish_request
  <2> QED BY <1>1, <2>1, SameBase
<1>2. CASE k.io \cap {"DATA", "POST"} = {}
  <2>1. q = http_connection_release(t, c)
    BY <1>2 DEF http_client_finish_request
  <2>2. /\ Base(t) /\ t.conn = st.conn /\ t.closes = st.closes /\ t.faults = st.faults
        /\ k.told /\ k.parent # NoRequest /\ ~Past(st, k.parent) =>
             t.bad = st.bad /\ t.req = [st.req EXCEPT ![k.parent].ended = 1]
    BY TellDoes
  <2> HIDE DEF t, q
  <2>3. t.conn[c] = k /\ c \in DOMAIN t.conn
    BY <2>2
  <2>4. LET u == http_connection_release(t, c)
        IN  Base(u) /\ Changed(t, u, c, Released(t.conn[c])) /\ Around(t, u)
    BY <1>2, <2>2, <2>3, ReleaseDoes
  <2>5. Base(q) /\ Changed(t, q, c, Released(k)) /\ Around(t, q)
    BY <2>1, <2>3, <2>4
  <2>6. Changed(st, q, c, Released(k))
    BY <2>2, <2>5 DEF Changed
  <2> QED BY <1>2, <2>2, <2>5, <2>6 DEF Around, q
<1> QED BY <1>1, <1>2

----------------------------------------------------------------------------
(* The undisturbed system. *)

(* A step of one connection and of the parent it serves. *)
LEMMA OneMoves ==
  ASSUME NEW st, Inv(st), NEW q, Base(q), NEW c \in DOMAIN st.conn, NEW k,
         Changed(st, q, c, k),
         Undisturbed(q) =>
           /\ Undisturbed(st) /\ q.bad = {} /\ Shaped(k)
           /\ \A r \in Requests :
                /\ Counted(q.req[r], q.faults)
                /\ q.req[r] = st.req[r] \/ Serves(st.conn[c], r)
                /\ Serves(k, r) => Serves(st.conn[c], r) /\ ServedBy(k, q.req[r])
  PROVE  Inv(q)
<1> SUFFICES ASSUME Undisturbed(q) PROVE Sure(q)
  BY DEF Inv
<1>1. Sure(st)
  BY DEF Inv
<1>2. \A d \in DOMAIN q.conn : Shaped(q.conn[d])
  BY <1>1 DEF Sure, Changed
<1>3. \A d \in DOMAIN q.conn, r \in Requests :
        Serves(q.conn[d], r) => ServedBy(q.conn[d], q.req[r])
  <2> SUFFICES ASSUME NEW d \in DOMAIN q.conn, NEW r \in Requests, Serves(q.conn[d], r)
               PROVE  ServedBy(q.conn[d], q.req[r])
    OBVIOUS
  <2>1. CASE d = c
    BY <2>1 DEF Changed
  <2>2. CASE d # c
    <3>1. q.conn[d] = st.conn[d] /\ d \in DOMAIN st.conn
      BY <2>2 DEF Changed
    <3>2. q.req[r] = st.req[r]
      BY <1>1, <2>2, <3>1 DEF Sure
    <3> QED BY <1>1, <3>1, <3>2 DEF Sure
  <2> QED BY <2>1, <2>2
<1>4. \A d, e \in DOMAIN q.conn, r \in Requests :
        Serves(q.conn[d], r) /\ Serves(q.conn[e], r) => d = e
  <2>1. \A d \in DOMAIN q.conn, r \in Requests :
          Serves(q.conn[d], r) => d \in DOMAIN st.conn /\ Serves(st.conn[d], r)
    BY DEF Changed
  <2> QED BY <1>1, <2>1 DEF Sure
<1> QED BY <1>2, <1>3, <1>4 DEF Sure

(* A step of one connection that leaves the parents alone. *)
Steady(k, n) ==
  Shaped(n) /\ \A r \in Requests : Serves(n, r) => Serves(k, r) /\ n.answered = k.answered

(* A step that moves one connection and leaves the parents alone keeps the *)
(* invariant. *)
LEMMA OneMovesAlone ==
  ASSUME NEW st, Inv(st), NEW q, Base(q), NEW c \in DOMAIN st.conn, NEW k,
         Changed(st, q, c, k), q.req = st.req, q.faults = st.faults, q.bad = st.bad,
         Shaped(st.conn[c]) => Steady(st.conn[c], k)
  PROVE  Inv(q)
<1>1. ASSUME Undisturbed(q)
      PROVE  /\ Undisturbed(st) /\ q.bad = {} /\ Shaped(k)
             /\ \A r \in Requests :
                  /\ Counted(q.req[r], q.faults)
                  /\ q.req[r] = st.req[r] \/ Serves(st.conn[c], r)
                  /\ Serves(k, r) => Serves(st.conn[c], r) /\ ServedBy(k, q.req[r])
  <2>1. Undisturbed(st)
    BY <1>1 DEF Undisturbed
  <2>2. Sure(st)
    BY <2>1 DEF Inv
  <2> QED BY <2>1, <2>2 DEF Sure, Steady, ServedBy
<1> QED BY <1>1, OneMoves

----------------------------------------------------------------------------
(* The actions. *)

(* What the invariant says of one connection. *)
LEMMA Facts ==
  ASSUME Inv(p), NEW c \in Conns
  PROVE  /\ Base(p) /\ p \in ProxyType /\ c \in DOMAIN p.conn
         /\ p.conn[c] \in ConnType /\ Sound(p.conn[c])
         /\ Undisturbed(p) => Sure(p) /\ Shaped(p.conn[c])
<1>1. Base(p) /\ p \in ProxyType /\ c \in DOMAIN p.conn
  BY DEF Inv, Base, Conns
<1> QED BY <1>1, ConnTyped DEF Inv, Base, Sure

(* A fault, and a refusal within the bound, leave everything else alone. *)
LEMMA FaultDoes ==
  ASSUME NEW st, Base(st), NEW f \in {"connect", "send", "resent", "left", "taken"}
  PROVE  LET q == Fault(st, f)
         IN  /\ Base(q) /\ q.conn = st.conn /\ q.idle = st.idle /\ q.req = st.req
             /\ q.closes = st.closes /\ q.bad = st.bad /\ q.faults = st.faults \cup {f}
<1> DEFINE q == Fault(st, f)
<1>1. /\ q \in ProxyType /\ q.conn = st.conn /\ q.idle = st.idle /\ q.req = st.req
      /\ q.closes = st.closes /\ q.bad = st.bad /\ q.faults = st.faults \cup {f}
  BY DEF Base, Fault, ProxyType
<1> HIDE DEF q
<1> QED BY <1>1 DEF Base, Listed, q

(* A close within the bound changes only the count of closes. *)
LEMMA RefusalDoes ==
  ASSUME NEW st, Base(st), st.closes < MaxClose
  PROVE  LET q == Refusal(st)
         IN  /\ Base(q) /\ q.conn = st.conn /\ q.idle = st.idle /\ q.req = st.req
             /\ q.bad = st.bad /\ q.faults = st.faults
<1> DEFINE q == Refusal(st)
           m == st.closes + 1
<1>1. q = [st EXCEPT !.closes = m]
  BY DEF Refusal
<1>2. m \in 0 .. MaxClose
  BY ProxyAssumption DEF Base, ProxyType
<1> HIDE DEF q, m
<1>3. /\ q \in ProxyType /\ q.conn = st.conn /\ q.idle = st.idle /\ q.req = st.req
      /\ q.bad = st.bad /\ q.faults = st.faults
  BY <1>1, <1>2 DEF Base, ProxyType
<1> QED BY <1>3 DEF Base, Listed, q

(* A connection is made: the head is sent, the answer is read. *)
LEMMA ConnectedStep ==
  ASSUME Inv(p), NEW c \in Conns, Connected(c)
  PROVE  Inv(p')
<1> DEFINE k == p.conn[c]
           m == [k EXCEPT !.connecting = FALSE, !.read = "active"]
           u == Put(p, c, m)
           n == Started(m)
<1>1. /\ Base(p) /\ p \in ProxyType /\ c \in DOMAIN p.conn
      /\ k \in ConnType /\ Sound(k)
  BY Facts
<1>2. k.connecting /\ ~k.freed
  BY DEF Connected, With
<1>3. p' = http_client_start_headers(u, c)
  <2>1. u = [p EXCEPT !.conn[c].connecting = FALSE, !.conn[c].read = "active"]
    BY <1>1 DEF Put, ProxyType
  <2> QED BY <2>1 DEF Connected
<1>4. /\ m \in ConnType /\ Sound(m) /\ (Waits(m) <=> Waits(k))
      /\ ~m.connecting /\ ~m.pipe /\ ~m.closing /\ "IDLE" \notin m.io
  BY <1>1, <1>2 DEF ConnType, Sound, Waits, Responding
<1>5. ASSUME Shaped(k) PROVE Steady(k, n)
  <2>1. Connecting(k) /\ k.io = {} /\ k.answered = FALSE
    BY <1>1, <1>2, <1>5 DEF ConnType, Shaped, Connecting, Working, Idle, Over, Failed
  <2>2. /\ n.io = {"HEADERS", "DATA"} \cup (IF k.parent \in Upload THEN {"POST"} ELSE {})
        /\ n.sending /\ n.answered = FALSE /\ (n.post <=> k.parent \in Upload)
        /\ n.read = "active"
        /\ ~n.connecting /\ n.told /\ n.parent = k.parent /\ n.parent # NoRequest
        /\ ~n.pipe /\ n.closing = k.closing /\ n.freed = k.freed
    BY <1>1, <1>4, <2>1 DEF Started, ConnType, Connecting
  <2> HIDE DEF n
  <2>3. Working(n)
    BY <2>2 DEF Working
  <2>4. Shaped(n)
    BY <1>2, <1>5, <2>1, <2>2, <2>3 DEF Shaped
  <2> QED BY <2>1, <2>2, <2>4 DEF Steady, Serves
<1> HIDE DEF m
<1>6. Base(u) /\ Changed(p, u, c, m) /\ Around(p, u)
  BY <1>1, <1>4, PutBase
<1> HIDE DEF u
<1>7. c \in DOMAIN u.conn /\ u.conn[c] = m
  BY <1>1, <1>6 DEF Changed
<1>8. LET q == http_client_start_headers(u, c)
      IN  Base(q) /\ Changed(u, q, c, Started(m)) /\ Around(u, q)
  BY <1>4, <1>6, <1>7, StartHeadersDoes
<1>9. Base(p') /\ Changed(p, p', c, n) /\ Around(p, p')
  <2>1. Base(p') /\ Changed(u, p', c, n) /\ Around(u, p')
    BY <1>3, <1>8
  <2> QED BY <1>6, <2>1, ChangedTwice DEF Around
<1> HIDE DEF n
<1> QED BY <1>1, <1>5, <1>9, OneMovesAlone DEF Around

(* A connection fails: the parent is told and the connection is freed. *)
LEMMA ConnectFailsStep ==
  ASSUME Inv(p), NEW c \in Conns, ConnectFails(c)
  PROVE  Inv(p')
<1> DEFINE k == p.conn[c]
           r == k.parent
           m == [k EXCEPT !.connecting = FALSE]
           u == Put(p, c, m)
           v == Refusal(u)
           w == Fault(v, "connect")
           t == Tell(w, c)
           l == [m EXCEPT !.io = @ \cup {"END"}, !.keep = FALSE]
           x == Put(t, c, l)
           n == Unlinked(l)
<1>1. /\ Base(p) /\ p \in ProxyType /\ c \in DOMAIN p.conn
      /\ k \in ConnType /\ Sound(k)
      /\ Undisturbed(p) => Sure(p) /\ Shaped(k)
  BY Facts
<1>2. k.connecting /\ ~k.freed /\ p.closes < MaxClose
  BY DEF ConnectFails, With
<1>3. u = [p EXCEPT !.conn[c].connecting = FALSE]
  BY <1>1 DEF Put, ProxyType
<1>4. p' = http_client_unlink_wrap(t, c)
  BY <1>3 DEF ConnectFails
<1>5. m \in ConnType /\ Sound(m) /\ (Waits(m) <=> Waits(k))
  BY <1>1, <1>2 DEF ConnType, Sound, Waits, Responding
<1>6. l \in ConnType /\ Sound(l) /\ (Waits(l) <=> Waits(m))
  BY <1>1, <1>2 DEF ConnType, Sound, Waits, Responding, Flag
<1>7. ASSUME Shaped(k)
      PROVE  /\ Connecting(k) /\ k.answered = FALSE /\ k.told
             /\ r \in Requests /\ r # NoRequest
             /\ Shaped(n) /\ \A s \in Requests : ~Serves(n, s)
  <2>1. /\ Connecting(k) /\ k.io = {} /\ k.answered = FALSE /\ k.told
        /\ r \in Requests /\ r # NoRequest
    BY <1>1, <1>2, <1>7 DEF ConnType, Shaped, Connecting, Working, Idle, Over, Failed
  <2>2. /\ l.io = {"END"} /\ l.read = "none" /\ l.sending = k.sending /\ l.post = k.post
        /\ l.connecting = FALSE /\ l.pipe = k.pipe /\ l.closing = k.closing
    BY <1>1, <2>1 DEF ConnType, Connecting
  <2>3. n = [l EXCEPT !.freed = TRUE]
    BY <2>2 DEF Unlinked, Frees
  <2>4. /\ n.io = {"END"} /\ n.read = "none" /\ n.sending = k.sending /\ n.post = k.post
        /\ n.connecting = FALSE /\ n.pipe = k.pipe /\ n.closing = k.closing /\ n.freed
    BY <1>6, <2>2, <2>3, ZenonT(40) DEF ConnType
  <2> HIDE DEF l, n
  <2>5. Failed(n) /\ ~Connecting(n) /\ ~Working(n)
    BY <2>1, <2>4 DEF Failed, Connecting, Working
  <2> QED BY <1>7, <2>1, <2>4, <2>5 DEF Shaped, Serves
<1> HIDE DEF m, l, n
<1>8. Base(u) /\ Changed(p, u, c, m) /\ Around(p, u)
  BY <1>1, <1>5, PutBase
<1> HIDE DEF u
<1>9. /\ Base(v) /\ v.conn = u.conn /\ v.req = p.req /\ v.bad = p.bad /\ v.faults = p.faults
  BY <1>2, <1>8, RefusalDoes DEF Around
<1> HIDE DEF v
<1>10. /\ Base(w) /\ w.conn = u.conn /\ w.req = p.req /\ w.bad = p.bad
       /\ w.faults = p.faults \cup {"connect"}
  BY <1>9, FaultDoes
<1> HIDE DEF w
<1>11. c \in DOMAIN w.conn /\ w.conn[c] = m /\ m.told = k.told /\ m.parent = r
  BY <1>1, <1>8, <1>10 DEF Changed, m, ConnType
<1>12. /\ Base(t) /\ t.conn = u.conn /\ t.faults = w.faults
       /\ k.told /\ r # NoRequest /\ ~Past(p, r) =>
            t.bad = p.bad /\ t.req = [p.req EXCEPT ![r].ended = 1]
  <2>1. /\ Base(t) /\ t.conn = w.conn /\ t.faults = w.faults
        /\ w.conn[c].told /\ w.conn[c].parent # NoRequest /\ ~Past(w, w.conn[c].parent) =>
             /\ t.bad = w.bad
             /\ t.req = [w.req EXCEPT ![w.conn[c].parent].ended = 1]
    BY <1>10, <1>11, TellDoes
  <2> QED BY <1>10, <1>11, <2>1 DEF Past
<1> HIDE DEF t
<1>13. c \in DOMAIN t.conn /\ t.conn[c] = m /\ Changed(p, t, c, m) /\ t \in ProxyType
  BY <1>1, <1>8, <1>12 DEF Changed, Base
<1>14. Base(x) /\ Changed(t, x, c, l) /\ Around(t, x)
  BY <1>6, <1>12, <1>13, PutBase
<1>15. p' = http_client_unlink(x, c)
  <2>1. x = [t EXCEPT !.conn[c].io = @ \cup {"END"}, !.conn[c].keep = FALSE]
    BY <1>13 DEF Put, ProxyType, l
  <2> QED BY <1>4, <2>1 DEF http_client_unlink_wrap
<1> HIDE DEF x
<1>16. c \in DOMAIN x.conn /\ x.conn[c] = l
  BY <1>13, <1>14 DEF Changed
<1>17. Base(p') /\ Changed(x, p', c, n) /\ Around(x, p')
  BY <1>14, <1>15, <1>16, UnlinkDoes DEF n
<1>18. /\ Changed(p, p', c, n) /\ p'.faults = p.faults \cup {"connect"}
       /\ p'.bad = t.bad /\ p'.req = t.req
  <2>1. Changed(p, x, c, l)
    BY <1>13, <1>14, ChangedTwice
  <2> QED BY <1>10, <1>12, <1>14, <1>17, <2>1, ChangedTwice DEF Around
<1>19. ASSUME Undisturbed(p')
       PROVE  /\ Undisturbed(p) /\ p'.bad = {} /\ Shaped(n)
              /\ \A s \in Requests :
                   /\ Counted(p'.req[s], p'.faults)
                   /\ p'.req[s] = p.req[s] \/ Serves(k, s)
                   /\ Serves(n, s) => Serves(k, s) /\ ServedBy(n, p'.req[s])
  <2>1. Undisturbed(p)
    BY <1>18, <1>19 DEF Undisturbed
  <2>2. Sure(p) /\ Shaped(k)
    BY <1>1, <2>1
  <2>3. Serves(k, r) /\ ServedBy(k, p.req[r])
    BY <1>1, <1>7, <2>2 DEF Serves, Sure
  <2>4. /\ p.req[r].ended = 0 /\ p.req[r].begun = 0 /\ p.req[r].asked
        /\ ~Past(p, r)
    <3>1. Counted(p.req[r], p.faults)
      BY <1>7, <2>2 DEF Sure
    <3>2. p.req[r].ended = 0 /\ p.req[r].begun = 0 /\ p.req[r].asked
      BY <1>7, <2>2, <2>3 DEF ServedBy
    <3>3. p.req[r].gone = "no"
      BY <3>1, <3>2 DEF Counted
    <3> QED BY <3>2, <3>3 DEF Past
  <2>5. p'.bad = {} /\ p'.req = [p.req EXCEPT ![r].ended = 1]
    BY <1>7, <1>12, <1>18, <2>2, <2>4 DEF Sure
  <2>6. p.req \in [Requests -> ParentType]
    BY <1>1 DEF ProxyType
  <2>7. ASSUME NEW s \in Requests
        PROVE  /\ Counted(p'.req[s], p'.faults)
               /\ p'.req[s] = p.req[s] \/ Serves(k, s)
    <3>1. CASE s = r
      <4>1. p'.req[s] = [p.req[r] EXCEPT !.ended = 1] /\ p.req[r] \in ParentType
        BY <1>7, <2>2, <2>5, <2>6, <3>1
      <4>2. p'.req[s].begun = 0 /\ p'.req[s].ended = 1 /\ p'.req[s].asked
        BY <2>4, <4>1 DEF ParentType
      <4> QED BY <1>18, <2>3, <3>1, <4>2 DEF Counted
    <3>2. CASE s # r
      <4>1. p'.req[s] = p.req[s] /\ Counted(p.req[s], p.faults)
        BY <2>2, <2>5, <2>6, <3>2 DEF Sure
      <4> QED BY <1>18, <4>1 DEF Counted
    <3> QED BY <3>1, <3>2
  <2> QED BY <1>7, <2>1, <2>2, <2>5, <2>7
<1> QED BY <1>1, <1>17, <1>18, <1>19, OneMoves

(* The head is sent, or will never be. *)
SentAs(k) == [k EXCEPT !.sending = FALSE, !.io = @ \ {"HEADERS"}]

(* Without its send a connection keeps its stage; one that was closed      *)
(* already is freed when nothing else uses it. *)
LEMMA SentShape ==
  ASSUME NEW k \in ConnType, Sound(k), k.sending, ~k.freed
  PROVE  LET m == SentAs(k)
             n == IF "STOPPING" \in k.io THEN Shut(m) ELSE m
         IN  /\ m \in ConnType /\ Sound(m) /\ (Waits(m) <=> Waits(k)) /\ ~m.freed
             /\ ("STOPPING" \in m.io <=> "STOPPING" \in k.io)
             /\ (MayShut(m) <=> MayShut(k)) /\ m.told = k.told
             /\ Shaped(k) => Steady(k, n)
<1> DEFINE m == SentAs(k)
           n == IF "STOPPING" \in k.io THEN Shut(m) ELSE m
<1>1. /\ m \in ConnType /\ m.io = k.io \ {"HEADERS"} /\ m.sending = FALSE
      /\ m.connecting = k.connecting /\ m.read = k.read /\ m.told = k.told
      /\ m.answered = k.answered /\ m.parent = k.parent /\ m.pipe = k.pipe
      /\ m.post = k.post /\ m.closing = k.closing /\ m.freed = k.freed
      /\ m.open = k.open
  BY DEF SentAs, ConnType
<1> HIDE DEF m
<1>2. /\ Sound(m) /\ (Waits(m) <=> Waits(k)) /\ ~m.freed
      /\ ("STOPPING" \in m.io <=> "STOPPING" \in k.io)
      /\ (MayShut(m) <=> MayShut(k)) /\ m.told = k.told
  BY <1>1 DEF Sound, Waits, Responding, MayShut
<1>3. ASSUME Shaped(k) PROVE Steady(k, n)
  <2>1. "HEADERS" \in k.io
    BY <1>3 DEF Shaped
  <2>2. Working(k) \/ Idle(k) \/ Over(k)
    BY <1>3, <2>1 DEF Shaped, Connecting, Failed
  <2>3. /\ n \in ConnType /\ n.io = m.io /\ n.sending = m.sending
        /\ n.connecting = m.connecting /\ n.read = m.read /\ n.told = m.told
        /\ n.answered = m.answered /\ n.parent = m.parent /\ n.pipe = m.pipe
        /\ n.post = m.post /\ n.closing = m.closing
        /\ (n.freed <=> "STOPPING" \in k.io /\ Frees(m))
    <3>1. CASE "STOPPING" \in k.io
      <4>1. n = IF Frees(m) THEN [m EXCEPT !.freed = TRUE] ELSE m
        BY <1>2, <3>1 DEF Shut
      <4> HIDE DEF n
      <4> QED BY <1>1, <1>2, <3>1, <4>1 DEF ConnType
    <3>2. CASE "STOPPING" \notin k.io
      BY <1>1, <1>2, <3>2
    <3> QED BY <3>1, <3>2
  <2> HIDE DEF n
  <2>4. Working(n) <=> Working(k)
    BY <1>1, <2>3 DEF Working
  <2>5. Idle(n) <=> Idle(k)
    BY <1>1, <2>3 DEF Idle
  <2>6. Over(n) <=> Over(k)
    BY <1>1, <2>3 DEF Over
  <2>7. ~Connecting(n)
    BY <1>1, <2>2, <2>3 DEF Connecting, Working, Idle, Over
  <2>8. n.freed <=> "END" \in n.io /\ "HEADERS" \notin n.io /\ n.read # "active"
    <3>1. CASE "STOPPING" \in k.io
      <4>1. "POST" \notin k.io
        BY <2>2, <3>1 DEF Working, Idle, Over
      <4> QED BY <1>1, <2>3, <3>1, <4>1 DEF Frees
    <3>2. CASE "STOPPING" \notin k.io
      <4>1. "END" \notin k.io
        BY <2>2, <3>2 DEF Working, Idle, Over
      <4> QED BY <1>1, <2>3, <3>2, <4>1
    <3> QED BY <3>1, <3>2
  <2>9. Shaped(n)
    <3>1. n.sending <=> "HEADERS" \in n.io
      BY <1>1, <2>3
    <3>2. n.post <=> "POST" \in n.io
      BY <1>1, <1>3, <2>3 DEF Shaped
    <3>3. n.closing <=> "STOPPING" \in n.io /\ "END" \notin n.io
      BY <1>1, <1>3, <2>3 DEF Shaped
    <3> QED BY <2>2, <2>4, <2>5, <2>6, <2>8, <3>1, <3>2, <3>3 DEF Shaped
  <2> QED BY <1>1, <2>3, <2>4, <2>7, <2>9 DEF Steady, Serves
<1> QED BY <1>1, <1>2, <1>3 DEF m

(* The end of a send, and its failure on a connection that is stopping. *)
LEMMA SentStep ==
  ASSUME Inv(p), NEW c \in Conns, Sent(c) \/ (SendFails(c) /\ "STOPPING" \in p.conn[c].io)
  PROVE  Inv(p')
<1> DEFINE k == p.conn[c]
           m == SentAs(k)
           n == IF "STOPPING" \in k.io THEN Shut(m) ELSE m
           u == Put(p, c, m)
<1>1. /\ Base(p) /\ p \in ProxyType /\ c \in DOMAIN p.conn
      /\ k \in ConnType /\ Sound(k)
  BY Facts
<1>2. k.sending /\ ~k.freed
  BY DEF Sent, SendFails, With
<1>3. u = [p EXCEPT !.conn[c].sending = FALSE, !.conn[c].io = @ \ {"HEADERS"}]
  BY <1>1 DEF Put, ProxyType, SentAs
<1>4. p' = IF "STOPPING" \in k.io THEN http_client_shutdown(u, c) ELSE u
  BY <1>3 DEF Sent, SendFails
<1>5. /\ m \in ConnType /\ Sound(m) /\ (Waits(m) <=> Waits(k)) /\ ~m.freed
      /\ ("STOPPING" \in m.io <=> "STOPPING" \in k.io)
      /\ Shaped(k) => Steady(k, n)
  BY <1>1, <1>2, SentShape
<1> HIDE DEF m
<1>6. Base(u) /\ Changed(p, u, c, m) /\ Around(p, u)
  BY <1>1, <1>5, PutBase
<1> HIDE DEF u
<1>7. c \in DOMAIN u.conn /\ u.conn[c] = m
  BY <1>1, <1>6 DEF Changed
<1>8. Base(p') /\ Changed(p, p', c, n) /\ Around(p, p')
  <2>1. CASE "STOPPING" \notin k.io
    BY <1>4, <1>6, <2>1
  <2>2. CASE "STOPPING" \in k.io
    <3>1. Base(p') /\ Changed(u, p', c, Shut(m)) /\ Around(u, p')
      BY <1>4, <1>5, <1>6, <1>7, <2>2, ShutdownDoes DEF MayShut
    <3> QED BY <1>6, <2>2, <3>1, ChangedTwice DEF Around
  <2> QED BY <2>1, <2>2
<1> HIDE DEF n
<1> QED BY <1>1, <1>5, <1>8, OneMovesAlone DEF Around

(* A failed send is one of the faults that disturb the system. *)
LEMMA SendFailsStep ==
  ASSUME Inv(p), NEW c \in Conns, SendFails(c)
  PROVE  Inv(p')
<1> DEFINE k == p.conn[c]
           m == SentAs(k)
           u == Put(p, c, m)
           w == Fault(u, "send")
           t == Tell(w, c)
<1>1. CASE "STOPPING" \in k.io
  BY <1>1, SentStep
<1>2. CASE "STOPPING" \notin k.io
  <2>1. /\ Base(p) /\ p \in ProxyType /\ c \in DOMAIN p.conn
        /\ k \in ConnType /\ Sound(k)
    BY Facts
  <2>2. k.sending /\ ~k.freed /\ ~k.answered /\ ~k.open
    BY DEF SendFails, With
  <2>3. u = [p EXCEPT !.conn[c].sending = FALSE, !.conn[c].io = @ \ {"HEADERS"}]
    BY <2>1 DEF Put, ProxyType, SentAs
  <2>4. p' = http_client_shutdown(t, c)
    BY <1>2, <2>3 DEF SendFails
  <2>5. /\ m \in ConnType /\ Sound(m) /\ (Waits(m) <=> Waits(k)) /\ ~m.freed
        /\ (MayShut(m) <=> MayShut(k))
    BY <2>1, <2>2, SentShape
  <2>6. MayShut(k)
    BY <2>1, <2>2 DEF Sound, MayShut
  <2> HIDE DEF m
  <2>7. Base(u) /\ Changed(p, u, c, m) /\ Around(p, u)
    BY <2>1, <2>5, PutBase
  <2> HIDE DEF u
  <2>8. Base(w) /\ w.conn = u.conn /\ w.faults = p.faults \cup {"send"}
    BY <2>7, FaultDoes DEF Around
  <2> HIDE DEF w
  <2>9. c \in DOMAIN w.conn /\ w.conn[c] = m
    BY <2>1, <2>7, <2>8 DEF Changed
  <2>10. Base(t) /\ t.conn = w.conn /\ t.faults = w.faults
    BY <2>8, <2>9, TellDoes
  <2> HIDE DEF t
  <2>11. Base(p') /\ Around(t, p')
    BY <2>4, <2>5, <2>6, <2>9, <2>10, ShutdownDoes
  <2>12. ~Undisturbed(p')
    BY <2>8, <2>10, <2>11 DEF Around, Undisturbed, Unrecovered
  <2> QED BY <2>11, <2>12 DEF Inv
<1> QED BY <1>1, <1>2

(* A server closes a connection. *)
LEMMA ServerClosesStep ==
  ASSUME Inv(p), NEW c \in Conns, ServerCloses(c)
  PROVE  Inv(p')
<1> DEFINE k == p.conn[c]
           n == [k EXCEPT !.open = FALSE]
           u == Put(p, c, n)
<1>1. /\ Base(p) /\ p \in ProxyType /\ c \in DOMAIN p.conn
      /\ k \in ConnType /\ Sound(k)
  BY Facts
<1>2. u = [p EXCEPT !.conn[c].open = FALSE]
  BY <1>1 DEF Put, ProxyType
<1>3. p' = Refusal(u) /\ p.closes < MaxClose
  BY <1>2 DEF ServerCloses
<1>4. n \in ConnType /\ Sound(n) /\ (Waits(n) <=> Waits(k))
  BY <1>1 DEF ConnType, Sound, Waits, Responding
<1>5. ASSUME Shaped(k) PROVE Steady(k, n)
  BY <1>1, <1>5 DEF Steady, Serves, Shaped, Connecting, Working, Idle, Over, Failed, ConnType
<1> HIDE DEF n
<1>6. Base(u) /\ Changed(p, u, c, n) /\ Around(p, u)
  BY <1>1, <1>4, PutBase
<1> HIDE DEF u
<1>7. Base(p') /\ p'.conn = u.conn /\ p'.req = u.req /\ p'.bad = u.bad /\ p'.faults = u.faults
  BY <1>3, <1>6, RefusalDoes DEF Around
<1>8. Changed(p, p', c, n)
  BY <1>6, <1>7 DEF Changed
<1> QED BY <1>1, <1>5, <1>6, <1>7, <1>8, OneMovesAlone DEF Around

(* The socket of a connection is closed: the flags say so, and the         *)
(* connection is freed when nothing else uses it. *)
LEMMA ClosedStep ==
  ASSUME Inv(p), NEW c \in Conns, Closed(c)
  PROVE  Inv(p')
<1> DEFINE k == p.conn[c]
           m == [k EXCEPT !.closing = FALSE, !.io = @ \cup {"END"}]
           u == Put(p, c, m)
           n == Unlinked(m)
<1>1. /\ Base(p) /\ p \in ProxyType /\ c \in DOMAIN p.conn
      /\ k \in ConnType /\ Sound(k)
  BY Facts
<1>2. k.closing /\ ~k.freed
  BY DEF Closed, With
<1>3. u = [p EXCEPT !.conn[c].closing = FALSE, !.conn[c].io = @ \cup {"END"}]
  BY <1>1 DEF Put, ProxyType
<1>4. p' = http_client_unlink(u, c)
  BY <1>3 DEF Closed
<1>5. /\ m \in ConnType /\ m.io = k.io \cup {"END"} /\ m.closing = FALSE
      /\ m.connecting = k.connecting /\ m.read = k.read /\ m.told = k.told
      /\ m.answered = k.answered /\ m.parent = k.parent /\ m.pipe = k.pipe
      /\ m.post = k.post /\ m.sending = k.sending /\ m.freed = k.freed
      /\ m.open = k.open
  BY <1>1 DEF ConnType, Flag
<1> HIDE DEF m
<1>6. Sound(m) /\ (Waits(m) <=> Waits(k))
  BY <1>1, <1>2, <1>5 DEF Sound, Waits, Responding
<1>7. ASSUME Shaped(k) PROVE Steady(k, n)
  <2>1. "STOPPING" \in k.io /\ "END" \notin k.io
    BY <1>2, <1>7 DEF Shaped
  <2>2. Idle(k) \/ Over(k)
    BY <1>7, <2>1 DEF Shaped, Connecting, Working, Failed
  <2>3. /\ n.io = m.io /\ n.sending = m.sending
        /\ n.connecting = m.connecting /\ n.read = m.read /\ n.told = m.told
        /\ n.answered = m.answered /\ n.parent = m.parent /\ n.pipe = m.pipe
        /\ n.post = m.post /\ n.closing = m.closing /\ (n.freed <=> Frees(m))
    BY <1>2, <1>5 DEF Unlinked, ConnType
  <2> HIDE DEF n
  <2>4. Idle(n) \/ Over(n)
    BY <1>5, <2>1, <2>2, <2>3 DEF Idle, Over
  <2>5. ~Connecting(n) /\ ~Working(n)
    BY <1>5, <2>3 DEF Connecting, Working
  <2>6. "POST" \notin n.io
    BY <2>4 DEF Idle, Over
  <2>7. n.freed <=> "END" \in n.io /\ "HEADERS" \notin n.io /\ n.read # "active"
    BY <1>5, <2>3, <2>6 DEF Frees
  <2>8. n.post <=> "POST" \in n.io
    BY <1>5, <1>7, <2>3 DEF Shaped
  <2>9. n.sending <=> "HEADERS" \in n.io
    BY <1>5, <1>7, <2>3 DEF Shaped
  <2>10. n.closing <=> "STOPPING" \in n.io /\ "END" \notin n.io
    BY <1>5, <2>3
  <2> QED BY <2>4, <2>5, <2>7, <2>8, <2>9, <2>10 DEF Steady, Serves, Shaped
<1>8. Base(u) /\ Changed(p, u, c, m) /\ Around(p, u)
  BY <1>1, <1>5, <1>6, PutBase
<1> HIDE DEF u
<1>9. c \in DOMAIN u.conn /\ u.conn[c] = m
  BY <1>1, <1>8 DEF Changed
<1>10. Base(p') /\ Changed(u, p', c, n) /\ Around(u, p')
  BY <1>4, <1>8, <1>9, UnlinkDoes
<1> HIDE DEF n
<1>11. Changed(p, p', c, n)
  BY <1>8, <1>10, ChangedTwice
<1> QED BY <1>1, <1>7, <1>8, <1>10, <1>11, OneMovesAlone DEF Around

(* A response head arrives: its body is piped to the parent. *)
LEMMA AnswerStep ==
  ASSUME Inv(p), NEW c \in Conns, Answer(c)
  PROVE  Inv(p')
<1> DEFINE k == p.conn[c]
           r == k.parent
           n == [k EXCEPT !.read = "inactive", !.pipe = TRUE, !.answered = TRUE]
           u == Put(p, c, n)
           t == [p.req EXCEPT ![r].begun = @ + 1]
<1>1. /\ Base(p) /\ p \in ProxyType /\ c \in DOMAIN p.conn
      /\ k \in ConnType /\ Sound(k)
      /\ Undisturbed(p) => Sure(p) /\ Shaped(k)
  BY Facts
<1>2. k.open /\ ~k.freed /\ k.read = "active" /\ "DATA" \in k.io /\ "IDLE" \notin k.io
  BY DEF Answer, Expects
<1>3. u = [p EXCEPT !.conn[c].read = "inactive", !.conn[c].pipe = TRUE,
                    !.conn[c].answered = TRUE]
  BY <1>1 DEF Put, ProxyType
<1>4. p' = IF ~k.told THEN u
           ELSE IF Past(p, r) THEN Bad(u, "freed")
           ELSE [u EXCEPT !.req[r].begun = @ + 1]
  <2> DEFINE q == [p EXCEPT !.conn[c].read = "inactive", !.conn[c].pipe = TRUE,
                            !.conn[c].answered = TRUE]
  <2>1. p' = IF ~k.told THEN q
             ELSE IF Past(p, r) THEN Bad(q, "freed")
             ELSE [q EXCEPT !.req[r].begun = @ + 1]
    BY Zenon DEF Answer
  <2>2. u = q
    BY <1>3
  <2> HIDE DEF u, n, q
  <2> QED BY <2>1, <2>2
<1>5. n \in ConnType /\ Sound(n) /\ (Waits(n) <=> Waits(k))
  BY <1>1, <1>2 DEF ConnType, Sound, Waits, Responding
<1>6. ASSUME Shaped(k)
      PROVE  /\ Working(k) /\ k.answered = FALSE /\ k.told /\ r \in Requests
             /\ Working(n) /\ Shaped(n) /\ n.answered /\ n.parent = r
  <2>1. Working(k) /\ k.answered = FALSE
    BY <1>1, <1>2, <1>6 DEF ConnType, Shaped, Connecting, Working, Idle, Over, Failed
  <2>2. k.told /\ r \in Requests
    BY <1>1, <2>1 DEF Working, ConnType
  <2>3. /\ n.io = k.io /\ n.read = "inactive" /\ n.pipe /\ n.answered /\ n.parent = r
        /\ n.connecting = k.connecting /\ n.told = k.told /\ n.sending = k.sending
        /\ n.post = k.post /\ n.closing = k.closing /\ n.freed = k.freed
    BY <1>1 DEF ConnType
  <2> HIDE DEF n
  <2>4. Working(n)
    BY <1>2, <2>1, <2>3 DEF Working
  <2>5. "END" \notin k.io
    BY <2>1 DEF Working
  <2>6. Shaped(n)
    BY <1>6, <2>3, <2>4, <2>5 DEF Shaped
  <2> QED BY <2>1, <2>2, <2>3, <2>4, <2>6
<1> HIDE DEF n
<1>7. Base(u) /\ Changed(p, u, c, n) /\ Around(p, u)
  BY <1>1, <1>5, PutBase
<1> HIDE DEF u
<1>8. t \in [Requests -> ParentType]
  <2>1. p.req \in [Requests -> ParentType]
    BY <1>1 DEF ProxyType
  <2>2. CASE r \in Requests
    <3> DEFINE e == [p.req[r] EXCEPT !.begun = @ + 1]
    <3>1. e \in ParentType
      BY <2>1, <2>2 DEF ParentType
    <3>2. t = [p.req EXCEPT ![r] = e]
      OBVIOUS
    <3> HIDE DEF e, t
    <3> QED BY <2>1, <3>1, <3>2
  <2>3. CASE r \notin Requests
    BY <2>1, <2>3
  <2> QED BY <2>2, <2>3
<1>9. /\ Base(p') /\ p'.conn = u.conn /\ p'.faults = u.faults
      /\ k.told /\ ~Past(p, r) => p'.bad = p.bad /\ p'.req = t
  <2>1. u \in ProxyType
    BY <1>7 DEF Base
  <2>2. CASE ~k.told
    BY <1>4, <1>7, <2>2
  <2>3. CASE k.told /\ Past(p, r)
    <3>1. p' = [u EXCEPT !.bad = @ \cup {"freed"}]
      BY <1>4, <2>3 DEF Bad
    <3>2. p' \in ProxyType /\ p'.conn = u.conn /\ p'.faults = u.faults /\ p'.idle = u.idle
      BY <2>1, <3>1 DEF ProxyType
    <3> QED BY <1>7, <2>3, <3>2 DEF Base, Listed
  <2>4. CASE k.told /\ ~Past(p, r)
    <3>1. p' = [u EXCEPT !.req = t]
      BY <1>4, <1>7, <2>4 DEF Around
    <3> HIDE DEF t
    <3>2. /\ p' \in ProxyType /\ p'.conn = u.conn /\ p'.faults = u.faults /\ p'.idle = u.idle
          /\ p'.req = t /\ p'.bad = u.bad
      BY <1>8, <2>1, <3>1 DEF ProxyType
    <3> QED BY <1>7, <2>4, <3>2 DEF Base, Listed, Around
  <2> QED BY <2>2, <2>3, <2>4
<1>10. Changed(p, p', c, n) /\ p'.faults = p.faults
  BY <1>7, <1>9 DEF Changed, Around
<1>11. ASSUME Undisturbed(p')
       PROVE  /\ Undisturbed(p) /\ p'.bad = {} /\ Shaped(n)
              /\ \A s \in Requests :
                   /\ Counted(p'.req[s], p'.faults)
                   /\ p'.req[s] = p.req[s] \/ Serves(k, s)
                   /\ Serves(n, s) => Serves(k, s) /\ ServedBy(n, p'.req[s])
  <2>1. Undisturbed(p)
    BY <1>10, <1>11 DEF Undisturbed
  <2>2. Sure(p) /\ Shaped(k)
    BY <1>1, <2>1
  <2>3. Serves(k, r) /\ ServedBy(k, p.req[r])
    BY <1>1, <1>6, <2>2 DEF Serves, Sure
  <2>4. /\ p.req[r].ended = 0 /\ p.req[r].begun = 0 /\ p.req[r].asked
        /\ p.req[r].gone = "no" /\ ~Past(p, r)
    <3>1. Counted(p.req[r], p.faults)
      BY <1>6, <2>2 DEF Sure
    <3>2. p.req[r].ended = 0 /\ p.req[r].begun = 0 /\ p.req[r].asked
      BY <1>6, <2>2, <2>3 DEF ServedBy
    <3>3. p.req[r].gone = "no"
      BY <3>1, <3>2 DEF Counted
    <3> QED BY <3>2, <3>3 DEF Past
  <2>5. p'.bad = {} /\ p'.req = t
    BY <1>6, <1>9, <2>2, <2>4 DEF Sure
  <2>6. p.req \in [Requests -> ParentType]
    BY <1>1 DEF ProxyType
  <2>7. /\ p'.req[r].begun = 1 /\ p'.req[r].ended = 0 /\ p'.req[r].asked
        /\ p'.req[r].gone = "no"
        /\ \A s \in Requests : s # r => p'.req[s] = p.req[s]
    <3>1. p'.req[r] = [p.req[r] EXCEPT !.begun = @ + 1] /\ p.req[r] \in ParentType
      BY <1>6, <2>2, <2>5, <2>6
    <3>2. /\ p'.req[r].begun = 1 /\ p'.req[r].ended = 0 /\ p'.req[r].asked
          /\ p'.req[r].gone = "no"
      BY <2>4, <3>1 DEF ParentType
    <3>3. \A s \in Requests : s # r => p'.req[s] = p.req[s]
      BY <2>5, <2>6
    <3> QED BY <3>2, <3>3
  <2> HIDE DEF t
  <2>8. ASSUME NEW s \in Requests
        PROVE  /\ Counted(p'.req[s], p'.faults)
               /\ p'.req[s] = p.req[s] \/ Serves(k, s)
               /\ Serves(n, s) => Serves(k, s) /\ ServedBy(n, p'.req[s])
    <3>1. CASE s = r
      <4>1. Counted(p'.req[s], p'.faults) /\ ServedBy(n, p'.req[s])
        BY <1>6, <2>2, <2>7, <3>1 DEF Counted, ServedBy
      <4> QED BY <2>3, <3>1, <4>1
    <3>2. CASE s # r
      <4>1. p'.req[s] = p.req[s] /\ Counted(p.req[s], p.faults)
        BY <2>2, <2>7, <3>2 DEF Sure
      <4>2. ~Serves(n, s)
        BY <1>6, <2>2, <3>2 DEF Serves
      <4> QED BY <1>10, <4>1, <4>2
    <3> QED BY <3>1, <3>2
  <2> QED BY <1>6, <2>1, <2>2, <2>5, <2>8
<1> QED BY <1>1, <1>9, <1>10, <1>11, OneMoves

(* The answer and the upload are done, and nothing else uses the           *)
(* connection but perhaps the send. *)
Ready(k) ==
  /\ k.io \subseteq {"HEADERS"} /\ (k.sending <=> "HEADERS" \in k.io)
  /\ ~k.connecting /\ ~k.pipe /\ ~k.post /\ ~k.closing /\ ~k.freed
  /\ k.read = "inactive" /\ k.answered

(* Such a connection becomes idle or is shut down, and serves nobody. *)
LEMMA ReleasedShape ==
  ASSUME NEW k \in ConnType, Ready(k)
  PROVE  Shaped(Released(k)) /\ \A r \in Requests : ~Serves(Released(k), r)
<1> DEFINE n == Released(k)
<1>1. CASE k.keep
  <2>1. /\ n.io = (k.io \cap {"HEADERS"}) \cup {"IDLE"} /\ n.read = "active"
        /\ n.parent = NoRequest /\ n.sending = k.sending /\ n.connecting = k.connecting
        /\ n.pipe = k.pipe /\ n.post = k.post /\ n.closing = k.closing
        /\ n.freed = k.freed /\ n.answered = k.answered
    BY <1>1 DEF Released, ConnType
  <2> HIDE DEF n
  <2>2. Idle(n) /\ ~Connecting(n) /\ ~Working(n)
    BY <2>1 DEF Idle, Connecting, Working, Ready
  <2>3. Shaped(n)
    BY <2>1, <2>2 DEF Shaped, Ready
  <2> QED BY <2>2, <2>3 DEF Serves, n
<1>2. CASE ~k.keep
  <2>1. n = [k EXCEPT !.io = @ \cup {"STOPPING"}, !.closing = TRUE]
    BY <1>2 DEF Released, Shut, Frees, Ready
  <2>2. /\ n.io = k.io \cup {"STOPPING"} /\ n.read = k.read /\ n.closing = TRUE
        /\ n.parent = k.parent /\ n.sending = k.sending /\ n.connecting = k.connecting
        /\ n.pipe = k.pipe /\ n.post = k.post
        /\ n.freed = k.freed /\ n.answered = k.answered
    BY <2>1 DEF ConnType
  <2> HIDE DEF n
  <2>3. Over(n) /\ ~Connecting(n) /\ ~Working(n)
    BY <2>2 DEF Over, Connecting, Working, Ready
  <2>4. Shaped(n)
    BY <2>2, <2>3 DEF Shaped, Ready
  <2> QED BY <2>3, <2>4 DEF Serves, n
<1> QED BY <1>1, <1>2

(* The answer or the upload ends, and with the later of them the request. *)
LEMMA FinishStep ==
  ASSUME Inv(p), NEW c \in Conns, NEW m \in ConnType, Sound(m), Waits(m) <=> Waits(p.conn[c]),
         m.told = p.conn[c].told, m.parent = p.conn[c].parent,
         m.io \cap {"DATA", "POST"} = {} =>
           /\ ~m.freed /\ ~m.connecting /\ ~m.pipe /\ ~m.post /\ ~m.closing
           /\ "IDLE" \notin m.io,
         Shaped(p.conn[c]) =>
           /\ Working(p.conn[c])
           /\ m.io \cap {"DATA", "POST"} # {} => Steady(p.conn[c], m)
           /\ m.io \cap {"DATA", "POST"} = {} => Ready(m) /\ p.conn[c].answered,
         p' = http_client_finish_request(Put(p, c, m), c)
  PROVE  Inv(p')
<1> DEFINE k == p.conn[c]
           r == k.parent
           u == Put(p, c, m)
           n == Released(m)
<1>1. /\ Base(p) /\ p \in ProxyType /\ c \in DOMAIN p.conn
      /\ k \in ConnType /\ Sound(k)
      /\ Undisturbed(p) => Sure(p) /\ Shaped(k)
  BY Facts
<1>2. Base(u) /\ Changed(p, u, c, m) /\ Around(p, u)
  BY <1>1, PutBase
<1>3. p' = http_client_finish_request(u, c)
  OBVIOUS
<1> HIDE DEF u
<1>4. c \in DOMAIN u.conn /\ u.conn[c] = m
  BY <1>1, <1>2 DEF Changed
<1>5. /\ Base(p') /\ p'.closes = u.closes /\ p'.faults = u.faults
      /\ m.io \cap {"DATA", "POST"} # {} => Changed(u, p', c, m) /\ Around(u, p')
      /\ m.io \cap {"DATA", "POST"} = {} =>
           /\ Changed(u, p', c, n)
           /\ m.told /\ m.parent # NoRequest /\ ~Past(u, m.parent) =>
                p'.bad = u.bad /\ p'.req = [u.req EXCEPT ![m.parent].ended = 1]
  BY <1>2, <1>3, <1>4, FinishDoes
<1>6. CASE m.io \cap {"DATA", "POST"} # {}
  <2>1. Changed(p, p', c, m) /\ Around(p, p')
    BY <1>2, <1>5, <1>6, ChangedTwice DEF Around
  <2> QED BY <1>1, <1>5, <1>6, <2>1, OneMovesAlone DEF Around
<1>7. CASE m.io \cap {"DATA", "POST"} = {}
  <2>1. /\ Changed(p, p', c, n) /\ p'.faults = p.faults
        /\ k.told /\ r # NoRequest /\ ~Past(p, r) =>
             p'.bad = p.bad /\ p'.req = [p.req EXCEPT ![r].ended = 1]
    BY <1>2, <1>5, <1>7, ChangedTwice DEF Around, Past
  <2> HIDE DEF n
  <2>2. ASSUME Undisturbed(p')
        PROVE  /\ Undisturbed(p) /\ p'.bad = {} /\ Shaped(n)
               /\ \A s \in Requests :
                    /\ Counted(p'.req[s], p'.faults)
                    /\ p'.req[s] = p.req[s] \/ Serves(k, s)
                    /\ Serves(n, s) => Serves(k, s) /\ ServedBy(n, p'.req[s])
    <3>1. Undisturbed(p)
      BY <2>1, <2>2 DEF Undisturbed
    <3>2. Sure(p) /\ Shaped(k) /\ Working(k) /\ Ready(m) /\ k.answered
      BY <1>1, <1>7, <3>1
    <3>3. k.told /\ r \in Requests /\ r # NoRequest
      BY <1>1, <3>2 DEF Working, ConnType
    <3>4. Serves(k, r) /\ ServedBy(k, p.req[r])
      BY <1>1, <3>2, <3>3 DEF Serves, Sure
    <3>5. p.req[r].ended = 0 /\ p.req[r].begun = 1 /\ p.req[r].asked /\ ~Past(p, r)
      <4>1. Counted(p.req[r], p.faults)
        BY <3>2, <3>3 DEF Sure
      <4> QED BY <3>2, <3>4, <4>1 DEF ServedBy, Counted, Past
    <3>6. p'.bad = {} /\ p'.req = [p.req EXCEPT ![r].ended = 1]
      BY <2>1, <3>2, <3>3, <3>5 DEF Sure
    <3>7. p.req \in [Requests -> ParentType]
      BY <1>1 DEF ProxyType
    <3>8. Shaped(n) /\ \A s \in Requests : ~Serves(n, s)
      BY <3>2, ReleasedShape DEF n
    <3>9. ASSUME NEW s \in Requests
          PROVE  /\ Counted(p'.req[s], p'.faults)
                 /\ p'.req[s] = p.req[s] \/ Serves(k, s)
      <4>1. CASE s = r
        <5>1. p'.req[s] = [p.req[r] EXCEPT !.ended = 1] /\ p.req[r] \in ParentType
          BY <3>3, <3>6, <3>7, <4>1
        <5>2. p'.req[s].begun = 1 /\ p'.req[s].ended = 1 /\ p'.req[s].asked
          BY <3>5, <5>1 DEF ParentType
        <5> QED BY <3>4, <4>1, <5>2 DEF Counted
      <4>2. CASE s # r
        <5>1. p'.req[s] = p.req[s] /\ Counted(p.req[s], p.faults)
          BY <3>2, <3>6, <3>7, <4>2 DEF Sure
        <5> QED BY <2>1, <5>1
      <4> QED BY <4>1, <4>2
    <3> QED BY <3>1, <3>6, <3>8, <3>9
  <2> QED BY <1>1, <1>5, <2>1, <2>2, OneMoves
<1> QED BY <1>6, <1>7

(* The response is written. *)
LEMMA PipeDoneStep ==
  ASSUME Inv(p), NEW c \in Conns, PipeDone(c)
  PROVE  Inv(p')
<1> DEFINE k == p.conn[c]
           m == [k EXCEPT !.pipe = FALSE, !.io = @ \ {"DATA"}]
<1>1. p \in ProxyType /\ c \in DOMAIN p.conn /\ k \in ConnType /\ Sound(k)
  BY Facts
<1>2. k.pipe /\ ~k.freed
  BY DEF PipeDone, With
<1>3. p' = http_client_finish_request(Put(p, c, m), c)
  <2>1. Put(p, c, m) = [p EXCEPT !.conn[c].pipe = FALSE, !.conn[c].io = @ \ {"DATA"}]
    BY <1>1 DEF Put, ProxyType
  <2> QED BY <2>1 DEF PipeDone, hin_http_pipe_finish_callback
<1>4. /\ m \in ConnType /\ m.io = k.io \ {"DATA"} /\ m.pipe = FALSE
      /\ m.connecting = k.connecting /\ m.read = k.read /\ m.told = k.told
      /\ m.answered = k.answered /\ m.parent = k.parent /\ m.sending = k.sending
      /\ m.post = k.post /\ m.closing = k.closing /\ m.freed = k.freed /\ m.open = k.open
  BY <1>1 DEF ConnType
<1> HIDE DEF m
<1>5. Sound(m) /\ (Waits(m) <=> Waits(k))
  BY <1>1, <1>2, <1>4 DEF Sound, Waits, Responding
<1>6. m.io \cap {"DATA", "POST"} = {} =>
        /\ ~m.freed /\ ~m.connecting /\ ~m.pipe /\ ~m.post /\ ~m.closing
        /\ "IDLE" \notin m.io
  BY <1>1, <1>2, <1>4 DEF Sound, Responding
<1>7. ASSUME Shaped(k)
      PROVE  /\ Working(k)
             /\ m.io \cap {"DATA", "POST"} # {} => Steady(k, m)
             /\ m.io \cap {"DATA", "POST"} = {} => Ready(m) /\ k.answered
  <2>1. Working(k)
    BY <1>2, <1>7 DEF Shaped, Connecting, Idle, Over, Failed
  <2>2. k.answered /\ k.read = "inactive" /\ "END" \notin k.io
    BY <1>1, <1>2, <2>1 DEF Sound, Responding, Working
  <2>3. ASSUME m.io \cap {"DATA", "POST"} # {} PROVE Steady(k, m)
    <3>1. "POST" \in m.io
      BY <1>4, <2>3
    <3>2. Working(m)
      BY <1>4, <2>1, <2>2, <3>1 DEF Working
    <3>3. Shaped(m)
      BY <1>4, <1>7, <2>2, <3>2 DEF Shaped
    <3> QED BY <1>4, <2>1, <3>3 DEF Steady, Serves
  <2>4. ASSUME m.io \cap {"DATA", "POST"} = {} PROVE Ready(m)
    <3>1. m.io \subseteq {"HEADERS"}
      BY <1>1, <1>4, <2>1, <2>4 DEF Working, ConnType, Flag
    <3>2. m.sending <=> "HEADERS" \in m.io
      BY <1>4, <1>7 DEF Shaped
    <3> QED BY <1>4, <1>6, <2>2, <2>4, <3>1, <3>2 DEF Ready
  <2> QED BY <2>1, <2>2, <2>3, <2>4
<1> QED BY <1>3, <1>4, <1>5, <1>6, <1>7, FinishStep

(* What C leaves undefined is recorded, and nothing else changes. *)
LEMMA BadDoes ==
  ASSUME NEW st, Base(st), NEW b \in {"null", "freed"}
  PROVE  LET q == Bad(st, b)
         IN  /\ Base(q) /\ q.conn = st.conn /\ q.faults = st.faults
<1> DEFINE q == Bad(st, b)
<1>1. q \in ProxyType /\ q.conn = st.conn /\ q.idle = st.idle /\ q.faults = st.faults
  BY DEF Base, Bad, ProxyType
<1> HIDE DEF q
<1> QED BY <1>1 DEF Base, Listed, q

(* httpd_pipe_error_callback shuts the parent down, unless it is past its  *)
(* request. *)
LEMMA ErrorDoes ==
  ASSUME NEW st, Base(st), NEW c \in DOMAIN st.conn
  PROVE  LET q == httpd_pipe_error_callback(st, c)
             r == st.conn[c].parent
         IN  /\ Base(q) /\ q.conn = st.conn /\ q.faults = st.faults
             /\ r # NoRequest /\ ~Past(st, r) =>
                  /\ q.bad = st.bad
                  /\ q.req = [st.req EXCEPT ![r].gone = "closing"]
<1> DEFINE q == httpd_pipe_error_callback(st, c)
           r == st.conn[c].parent
           t == [st.req EXCEPT ![r].gone = "closing"]
<1>1. st \in ProxyType /\ st.conn[c] \in ConnType
  BY ConnTyped DEF Base
<1>2. CASE r = NoRequest \/ Past(st, r)
  <2>1. q = Bad(st, "null") \/ q = Bad(st, "freed")
    BY <1>2 DEF httpd_pipe_error_callback
  <2> HIDE DEF q
  <2>2. Base(q) /\ q.conn = st.conn /\ q.faults = st.faults
    BY <2>1, BadDoes
  <2> QED BY <1>2, <2>2 DEF q
<1>3. CASE r # NoRequest /\ ~Past(st, r)
  <2>1. q = [st EXCEPT !.req = t]
    BY <1>3 DEF httpd_pipe_error_callback
  <2>2. t \in [Requests -> ParentType]
    <3> DEFINE e == [st.req[r] EXCEPT !.gone = "closing"]
    <3>1. r \in Requests /\ st.req \in [Requests -> ParentType]
      BY <1>1, <1>3 DEF ConnType, ProxyType
    <3>2. e \in ParentType
      BY <3>1 DEF ParentType
    <3>3. t = [st.req EXCEPT ![r] = e]
      OBVIOUS
    <3> HIDE DEF e, t
    <3> QED BY <3>1, <3>2, <3>3
  <2> HIDE DEF q, t
  <2>3. /\ q \in ProxyType /\ q.conn = st.conn /\ q.idle = st.idle /\ q.faults = st.faults
        /\ q.bad = st.bad /\ q.req = t
    BY <1>1, <2>1, <2>2 DEF ProxyType
  <2>4. Base(q)
    BY <2>3 DEF Base, Listed
  <2> QED BY <2>3, <2>4 DEF q, t
<1> QED BY <1>2, <1>3

(* A write to the parent fails: the parent is shut down, and the request   *)
(* ends like one whose response is written, or waits for its upload and is *)
(* disturbed. *)
LEMMA PipeFailsStep ==
  ASSUME Inv(p), NEW c \in Conns, PipeFails(c)
  PROVE  Inv(p')
<1> DEFINE k == p.conn[c]
           r == k.parent
<1>1. /\ Base(p) /\ p \in ProxyType /\ c \in DOMAIN p.conn
      /\ k \in ConnType /\ Sound(k)
      /\ Undisturbed(p) => Sure(p) /\ Shaped(k)
  BY Facts
<1>2. k.pipe /\ ~k.freed /\ p.closes < MaxClose
  BY DEF PipeFails, With
<1>3. PICK b \in BOOLEAN :
        LET q == httpd_pipe_error_callback(Refusal([p EXCEPT !.conn[c].rest = b]), c)
        IN p' = hin_http_pipe_finish_callback(
                  IF "POST" \in k.io THEN Fault(q, "left") ELSE q, c)
  BY Zenon DEF PipeFails
<1> DEFINE l == [k EXCEPT !.rest = b]
           m == [l EXCEPT !.pipe = FALSE, !.io = @ \ {"DATA"}]
           u == Put(p, c, l)
           v == Refusal(u)
           w == httpd_pipe_error_callback(v, c)
           x == IF "POST" \in k.io THEN Fault(w, "left") ELSE w
           y == Put(x, c, m)
           n == Released(m)
<1>4. p' = hin_http_pipe_finish_callback(x, c)
  <2>1. u = [p EXCEPT !.conn[c].rest = b]
    BY <1>1 DEF Put, ProxyType
  <2> QED BY <1>3, <2>1
<1>5. /\ l \in ConnType /\ l.io = k.io /\ l.parent = r
      /\ m \in ConnType /\ m.io = k.io \ {"DATA"} /\ m.pipe = FALSE
      /\ m.connecting = k.connecting /\ m.read = k.read /\ m.told = k.told
      /\ m.answered = k.answered /\ m.parent = r /\ m.sending = k.sending
      /\ m.post = k.post /\ m.closing = k.closing /\ m.freed = k.freed /\ m.open = k.open
  BY <1>1 DEF ConnType
<1>6. Sound(l) /\ (Waits(l) <=> Waits(k))
  BY <1>1 DEF Sound, Waits, Responding, ConnType
<1>7. m = [l EXCEPT !.pipe = FALSE, !.io = @ \ {"DATA"}]
  OBVIOUS
<1> HIDE DEF l, m
<1>8. Sound(m) /\ (Waits(m) <=> Waits(l))
  BY <1>1, <1>2, <1>5, <1>6 DEF Sound, Waits, Responding
<1>9. m.io \cap {"DATA", "POST"} = {} =>
        /\ ~m.freed /\ ~m.connecting /\ ~m.pipe /\ ~m.post /\ ~m.closing
        /\ "IDLE" \notin m.io
  BY <1>1, <1>2, <1>5 DEF Sound, Responding
<1>10. Base(u) /\ Changed(p, u, c, l) /\ Around(p, u)
  BY <1>1, <1>5, <1>6, PutBase
<1> HIDE DEF u
<1>11. Base(v) /\ v.conn = u.conn /\ v.req = p.req /\ v.bad = p.bad /\ v.faults = p.faults
  BY <1>2, <1>10, RefusalDoes DEF Around
<1> HIDE DEF v
<1>12. c \in DOMAIN v.conn /\ v.conn[c] = l
  BY <1>1, <1>10, <1>11 DEF Changed
<1>13. /\ Base(w) /\ w.conn = u.conn /\ w.faults = p.faults
       /\ r # NoRequest /\ ~Past(p, r) =>
            w.bad = p.bad /\ w.req = [p.req EXCEPT ![r].gone = "closing"]
  <2>1. /\ Base(w) /\ w.conn = v.conn /\ w.faults = v.faults
        /\ v.conn[c].parent # NoRequest /\ ~Past(v, v.conn[c].parent) =>
             /\ w.bad = v.bad
             /\ w.req = [v.req EXCEPT ![v.conn[c].parent].gone = "closing"]
    BY <1>11, <1>12, ErrorDoes
  <2> HIDE DEF w
  <2> QED BY <1>5, <1>11, <1>12, <2>1 DEF Past
<1> HIDE DEF w
<1>14. /\ Base(x) /\ x.conn = u.conn /\ x.req = w.req /\ x.bad = w.bad
       /\ "POST" \in k.io => x.faults = p.faults \cup {"left"}
       /\ "POST" \notin k.io => x.faults = p.faults
  <2>1. CASE "POST" \in k.io
    <3>1. x = Fault(w, "left")
      BY <2>1
    <3> HIDE DEF x
    <3> QED BY <1>13, <2>1, <3>1, FaultDoes
  <2>2. CASE "POST" \notin k.io
    BY <1>13, <2>2
  <2> QED BY <2>1, <2>2
<1> HIDE DEF x
<1>15. c \in DOMAIN x.conn /\ x.conn[c] = l /\ Changed(p, x, c, l) /\ x \in ProxyType
  BY <1>1, <1>10, <1>14 DEF Changed, Base
<1>16. Base(y) /\ Changed(x, y, c, m) /\ Around(x, y)
  BY <1>5, <1>8, <1>14, <1>15, PutBase
<1>17. p' = http_client_finish_request(y, c)
  <2>1. y = [x EXCEPT !.conn[c].pipe = FALSE, !.conn[c].io = @ \ {"DATA"}]
    BY <1>7, <1>15 DEF Put, ProxyType
  <2> HIDE DEF y
  <2> QED BY <1>4, <2>1 DEF hin_http_pipe_finish_callback
<1> HIDE DEF y
<1>18. c \in DOMAIN y.conn /\ y.conn[c] = m
  BY <1>15, <1>16 DEF Changed
<1>19. /\ Base(p') /\ p'.faults = y.faults
       /\ m.io \cap {"DATA", "POST"} = {} =>
            /\ Changed(y, p', c, n)
            /\ m.told /\ m.parent # NoRequest /\ ~Past(y, m.parent) =>
                 p'.bad = y.bad /\ p'.req = [y.req EXCEPT ![m.parent].ended = 1]
  BY <1>9, <1>16, <1>17, <1>18, FinishDoes
<1> HIDE DEF n
<1>20. CASE "POST" \in k.io
  <2>1. p'.faults = p.faults \cup {"left"}
    BY <1>14, <1>16, <1>19, <1>20 DEF Around
  <2>2. ~Undisturbed(p')
    BY <2>1 DEF Undisturbed, Unrecovered
  <2> QED BY <1>19, <2>2 DEF Inv
<1>21. CASE "POST" \notin k.io
  <2>1. m.io \cap {"DATA", "POST"} = {}
    BY <1>5, <1>21
  <2>2. Changed(p, p', c, n) /\ p'.faults = p.faults
    <3>1. Changed(x, p', c, n)
      BY <1>16, <1>19, <2>1, ChangedTwice
    <3> QED BY <1>14, <1>15, <1>16, <1>19, <1>21, <3>1, ChangedTwice DEF Around
  <2>3. ASSUME Undisturbed(p')
        PROVE  /\ Undisturbed(p) /\ p'.bad = {} /\ Shaped(n)
               /\ \A s \in Requests :
                    /\ Counted(p'.req[s], p'.faults)
                    /\ p'.req[s] = p.req[s] \/ Serves(k, s)
                    /\ Serves(n, s) => Serves(k, s) /\ ServedBy(n, p'.req[s])
    <3>1. Undisturbed(p)
      BY <2>2, <2>3 DEF Undisturbed
    <3>2. Sure(p) /\ Shaped(k)
      BY <1>1, <3>1
    <3>3. Working(k) /\ k.answered /\ k.read = "inactive" /\ ~k.closing
      BY <1>1, <1>2, <3>2 DEF Sound, Responding, Shaped, Connecting, Idle, Over, Failed
    <3>4. k.told /\ r \in Requests /\ r # NoRequest
      BY <1>1, <3>3 DEF Working, ConnType
    <3>5. Serves(k, r) /\ ServedBy(k, p.req[r])
      BY <1>1, <3>2, <3>3, <3>4 DEF Serves, Sure
    <3>6. p.req[r].ended = 0 /\ p.req[r].begun = 1 /\ p.req[r].asked /\ ~Past(p, r)
      <4>1. Counted(p.req[r], p.faults)
        BY <3>2, <3>4 DEF Sure
      <4> QED BY <3>3, <3>5, <4>1 DEF ServedBy, Counted, Past
    <3>7. p.req \in [Requests -> ParentType]
      BY <1>1 DEF ProxyType
    <3>8. y.bad = {} /\ y.req = [p.req EXCEPT ![r].gone = "closing"]
      BY <1>13, <1>14, <1>16, <3>2, <3>4, <3>6 DEF Around, Sure
    <3>9. y.req[r] = [p.req[r] EXCEPT !.gone = "closing"] /\ p.req[r] \in ParentType
      BY <3>4, <3>7, <3>8
    <3>10. y.req[r].ended = 0 /\ y.req[r].gone = "closing" /\ ~Past(y, r)
      BY <3>6, <3>9 DEF ParentType, Past
    <3>11. p'.bad = {} /\ p'.req = [y.req EXCEPT ![r].ended = 1]
      BY <1>5, <1>19, <2>1, <3>4, <3>8, <3>10
    <3>12. Ready(m)
      <4>1. m.io \subseteq {"HEADERS"}
        BY <1>1, <1>5, <1>21, <3>3 DEF Working, ConnType, Flag
      <4>2. m.sending <=> "HEADERS" \in m.io
        BY <1>5, <3>2 DEF Shaped
      <4> QED BY <1>5, <1>9, <2>1, <3>3, <4>1, <4>2 DEF Ready
    <3>13. Shaped(n) /\ \A s \in Requests : ~Serves(n, s)
      BY <1>5, <3>12, ReleasedShape DEF n
    <3>14. ASSUME NEW s \in Requests
           PROVE  /\ Counted(p'.req[s], p'.faults)
                  /\ p'.req[s] = p.req[s] \/ Serves(k, s)
      <4>1. CASE s = r
        <5>1. p'.req[s] = [y.req[r] EXCEPT !.ended = 1]
          BY <3>4, <3>7, <3>8, <3>11, <4>1
        <5>2. p'.req[s].begun = 1 /\ p'.req[s].ended = 1 /\ p'.req[s].asked
          BY <3>6, <3>9, <5>1 DEF ParentType
        <5> QED BY <3>5, <4>1, <5>2 DEF Counted
      <4>2. CASE s # r
        <5>1. p'.req[s] = p.req[s] /\ Counted(p.req[s], p.faults)
          BY <3>2, <3>7, <3>8, <3>11, <4>2 DEF Sure
        <5> QED BY <2>2, <5>1
      <4> QED BY <4>1, <4>2
    <3> QED BY <3>1, <3>11, <3>13, <3>14
  <2> QED BY <1>1, <1>19, <2>2, <2>3, OneMoves
<1> QED BY <1>20, <1>21

(* The client of the server is freed. *)
LEMMA ParentClosedStep ==
  ASSUME Inv(p), NEW r \in Requests, ParentClosed(r)
  PROVE  Inv(p')
<1> DEFINE t == [p.req EXCEPT ![r].gone = "freed"]
<1>1. Base(p) /\ p \in ProxyType /\ p.req \in [Requests -> ParentType]
  BY DEF Inv, Base, ProxyType
<1>2. p.req[r].gone = "closing" /\ p' = [p EXCEPT !.req = t]
  BY DEF ParentClosed
<1>3. /\ t \in [Requests -> ParentType] /\ t[r].asked = p.req[r].asked
      /\ t[r].begun = p.req[r].begun /\ t[r].ended = p.req[r].ended
      /\ \A s \in Requests : s # r => t[s] = p.req[s]
  <2> DEFINE e == [p.req[r] EXCEPT !.gone = "freed"]
  <2>1. /\ e \in ParentType /\ e.asked = p.req[r].asked /\ e.begun = p.req[r].begun
        /\ e.ended = p.req[r].ended
    BY <1>1 DEF ParentType
  <2>2. t = [p.req EXCEPT ![r] = e]
    OBVIOUS
  <2> HIDE DEF e, t
  <2> QED BY <1>1, <2>1, <2>2
<1> HIDE DEF t
<1>4. /\ p' \in ProxyType /\ p'.conn = p.conn /\ p'.idle = p.idle /\ p'.req = t
      /\ p'.faults = p.faults /\ p'.bad = p.bad
  BY <1>1, <1>2, <1>3 DEF ProxyType
<1>5. Base(p')
  BY <1>1, <1>4 DEF Base, Listed
<1>6. ASSUME Undisturbed(p') PROVE Sure(p')
  <2>1. Sure(p)
    BY <1>4, <1>6 DEF Undisturbed, Inv
  <2>2. \A s \in Requests : Counted(t[s], p.faults)
    <3> SUFFICES ASSUME NEW s \in Requests PROVE Counted(t[s], p.faults)
      OBVIOUS
    <3>1. Counted(p.req[s], p.faults)
      BY <2>1 DEF Sure
    <3> QED BY <1>2, <1>3, <3>1 DEF Counted
  <2>3. \A c \in DOMAIN p.conn, s \in Requests :
          Serves(p.conn[c], s) => ServedBy(p.conn[c], t[s])
    <3> SUFFICES ASSUME NEW c \in DOMAIN p.conn, NEW s \in Requests, Serves(p.conn[c], s)
                 PROVE  ServedBy(p.conn[c], t[s])
      OBVIOUS
    <3>1. ServedBy(p.conn[c], p.req[s])
      BY <2>1 DEF Sure
    <3> QED BY <1>3, <3>1 DEF ServedBy
  <2> QED BY <1>4, <2>1, <2>2, <2>3 DEF Sure
<1> QED BY <1>5, <1>6 DEF Inv

(* The read of a failed pipe takes the rest of its answer. *)
LEMMA RestTakenStep ==
  ASSUME Inv(p), NEW c \in Conns, RestTaken(c)
  PROVE  Inv(p')
<1> DEFINE k == p.conn[c]
           n == [k EXCEPT !.rest = FALSE]
           u == Put(p, c, n)
<1>1. /\ Base(p) /\ p \in ProxyType /\ c \in DOMAIN p.conn
      /\ k \in ConnType /\ Sound(k)
  BY Facts
<1>2. p' = u
  BY <1>1 DEF RestTaken, Put, ProxyType
<1>3. n \in ConnType /\ Sound(n) /\ (Waits(n) <=> Waits(k))
  BY <1>1 DEF ConnType, Sound, Waits, Responding
<1>4. ASSUME Shaped(k) PROVE Steady(k, n)
  BY <1>1, <1>4 DEF Steady, Serves, Shaped, Connecting, Working, Idle, Over, Failed, ConnType
<1> HIDE DEF n
<1>5. Base(u) /\ Changed(p, u, c, n) /\ Around(p, u)
  BY <1>1, <1>3, PutBase
<1> HIDE DEF u
<1> QED BY <1>1, <1>2, <1>4, <1>5, OneMovesAlone DEF Around

(* ... or part of the next answer, and that disturbs the system. *)
LEMMA AnswerTakenStep ==
  ASSUME Inv(p), NEW c \in Conns, AnswerTaken(c)
  PROVE  Inv(p')
<1>1. Base(p) /\ p' = Fault(p, "taken")
  BY DEF AnswerTaken, Inv
<1>2. Base(p') /\ p'.faults = p.faults \cup {"taken"}
  BY <1>1, FaultDoes
<1>3. ~Undisturbed(p')
  BY <1>2 DEF Undisturbed, Unrecovered
<1> QED BY <1>2, <1>3 DEF Inv

(* The upload is over. *)
LEMMA PostDoneStep ==
  ASSUME Inv(p), NEW c \in Conns, PostDone(c)
  PROVE  Inv(p')
<1> DEFINE k == p.conn[c]
           m == [k EXCEPT !.post = FALSE, !.io = @ \ {"POST"}]
<1>1. p \in ProxyType /\ c \in DOMAIN p.conn /\ k \in ConnType /\ Sound(k)
  BY Facts
<1>2. k.post /\ ~k.freed
  BY DEF PostDone, With
<1>3. p' = http_client_finish_request(Put(p, c, m), c)
  <2>1. Put(p, c, m) = [p EXCEPT !.conn[c].post = FALSE, !.conn[c].io = @ \ {"POST"}]
    BY <1>1 DEF Put, ProxyType
  <2> QED BY <2>1 DEF PostDone
<1>4. /\ m \in ConnType /\ m.io = k.io \ {"POST"} /\ m.post = FALSE
      /\ m.connecting = k.connecting /\ m.read = k.read /\ m.told = k.told
      /\ m.answered = k.answered /\ m.parent = k.parent /\ m.sending = k.sending
      /\ m.pipe = k.pipe /\ m.closing = k.closing /\ m.freed = k.freed /\ m.open = k.open
  BY <1>1 DEF ConnType
<1> HIDE DEF m
<1>5. Sound(m) /\ (Waits(m) <=> Waits(k))
  BY <1>1, <1>2, <1>4 DEF Sound, Waits, Responding
<1>6. m.io \cap {"DATA", "POST"} = {} =>
        /\ ~m.freed /\ ~m.connecting /\ ~m.pipe /\ ~m.post /\ ~m.closing
        /\ "IDLE" \notin m.io
  BY <1>1, <1>2, <1>4 DEF Sound, Responding
<1>7. ASSUME Shaped(k)
      PROVE  /\ Working(k)
             /\ m.io \cap {"DATA", "POST"} # {} => Steady(k, m)
             /\ m.io \cap {"DATA", "POST"} = {} => Ready(m) /\ k.answered
  <2>1. Working(k)
    BY <1>2, <1>7 DEF Shaped, Connecting, Idle, Over, Failed
  <2>2. "END" \notin k.io
    BY <2>1 DEF Working
  <2>3. ASSUME m.io \cap {"DATA", "POST"} # {} PROVE Steady(k, m)
    <3>1. "DATA" \in m.io /\ "DATA" \in k.io
      BY <1>4, <2>3
    <3>2. Working(m)
      BY <1>4, <2>1, <3>1 DEF Working
    <3>3. Shaped(m)
      BY <1>4, <1>7, <2>2, <3>2 DEF Shaped
    <3> QED BY <1>4, <2>1, <3>3 DEF Steady, Serves
  <2>4. ASSUME m.io \cap {"DATA", "POST"} = {} PROVE Ready(m) /\ k.answered
    <3>1. m.io \subseteq {"HEADERS"}
      BY <1>1, <1>4, <2>1, <2>4 DEF Working, ConnType, Flag
    <3>2. m.sending <=> "HEADERS" \in m.io
      BY <1>4, <1>7 DEF Shaped
    <3>3. "DATA" \notin k.io /\ k.answered /\ k.read = "inactive"
      BY <1>4, <2>1, <2>4 DEF Working
    <3> QED BY <1>4, <1>6, <2>4, <3>1, <3>2, <3>3 DEF Ready
  <2> QED BY <2>1, <2>3, <2>4
<1> QED BY <1>3, <1>4, <1>5, <1>6, <1>7, FinishStep

----------------------------------------------------------------------------
(* A connection for a request: an idle one, or a new one. *)

(* In q, connection d serves r as k; it is new or was idle, and the others *)
(* are as in st. *)
Joined(st, q, r, d, k) ==
  /\ DOMAIN q.conn = DOMAIN st.conn \cup {d} /\ q.conn[d] = k
  /\ \A e \in DOMAIN st.conn : e # d => q.conn[e] = st.conn[e]
  /\ d \in DOMAIN st.conn => Waits(st.conn[d])
  /\ (d \in DOMAIN st.conn => Shaped(st.conn[d])) =>
       Shaped(k) /\ Serves(k, r) /\ k.answered = FALSE

(* A new connection. *)
LEMMA AskNew ==
  ASSUME NEW st, Base(st), NEW r \in Requests, Reusable(st, Host[r]) = {}
  PROVE  LET q == Ask(st, r)
         IN  Base(q) /\ Around(st, q) /\ \E d, k : Joined(st, q, r, d, k)
<1> DEFINE f == NewConn(Host[r])
           s == Append(st.conn, f)
           d == Len(st.conn) + 1
           w == [st EXCEPT !.conn = s]
           m == [f EXCEPT !.parent = r, !.told = TRUE, !.keep = Keep]
           x == Put(w, d, m)
           k == [m EXCEPT !.connecting = TRUE]
           y == Put(x, d, k)
           q == Ask(st, r)
<1>1. /\ st \in ProxyType /\ st.conn \in Seq(ConnType) /\ Len(st.conn) \in Nat
      /\ DOMAIN st.conn = 1 .. Len(st.conn)
  BY ConnTyped DEF Base
<1>2. f \in ConnType /\ Sound(f) /\ ~Waits(f) /\ f.read = "none"
  BY DEF NewConn, ConnType, Sound, Waits, Responding
<1>3. m \in ConnType /\ Sound(m) /\ ~Waits(m) /\ m.read = "none"
  BY ProxyAssumption DEF NewConn, ConnType, Sound, Waits, Responding
<1>4. /\ k \in ConnType /\ Sound(k) /\ ~Waits(k)
      /\ k.parent = r /\ k.connecting /\ k.io = {} /\ k.read = "none" /\ k.told
      /\ k.answered = FALSE /\ ~k.pipe /\ ~k.sending /\ ~k.post /\ ~k.closing /\ ~k.freed
  BY ProxyAssumption DEF NewConn, ConnType, Sound, Waits, Responding
<1>5. Shaped(k) /\ Serves(k, r)
  <2>1. r # NoRequest
    BY ProxyAssumption DEF NoRequest
  <2> HIDE DEF k
  <2>2. Connecting(k)
    BY <1>4, <2>1 DEF Connecting
  <2> QED BY <1>4, <2>2 DEF Shaped, Serves
<1>6. x = [w EXCEPT !.conn[d].parent = r, !.conn[d].told = TRUE, !.conn[d].keep = Keep]
      /\ w \in ProxyType /\ w.conn = s /\ d \in DOMAIN s /\ s[d] = f
      /\ DOMAIN s = DOMAIN st.conn \cup {d} /\ Around(st, w) /\ w.idle = st.idle
      /\ \A e \in DOMAIN st.conn : s[e] = st.conn[e] /\ e # d
  <2> HIDE DEF f
  <2>1. s \in Seq(ConnType) /\ Len(s) = Len(st.conn) + 1 /\ s[d] = f
        /\ \A e \in 1 .. Len(st.conn) : s[e] = st.conn[e]
    BY <1>1, <1>2, AppendProperties
  <2> HIDE DEF s
  <2>2. DOMAIN s = 1 .. (Len(st.conn) + 1)
    BY <2>1, LenProperties
  <2>3. DOMAIN s = DOMAIN st.conn \cup {d} /\ \A e \in DOMAIN st.conn : e # d
    BY <1>1, <2>2
  <2>4. w \in ProxyType /\ w.conn = s /\ Around(st, w) /\ w.idle = st.idle
    BY <1>1, <2>1 DEF ProxyType, Around
  <2> HIDE DEF w
  <2>5. x = [w EXCEPT !.conn[d].parent = r, !.conn[d].told = TRUE, !.conn[d].keep = Keep]
    BY <2>1, <2>3, <2>4 DEF Put, ProxyType
  <2> QED BY <1>1, <2>1, <2>3, <2>4, <2>5
<1> HIDE DEF f, s
<1>7. Base(w)
  <2> HIDE DEF w
  <2>1. \A c \in Nat :
          c \in DOMAIN s /\ Waits(s[c]) <=> c \in DOMAIN st.conn /\ Waits(st.conn[c])
    BY <1>2, <1>6
  <2>2. Listed(w)
    BY <1>6, <2>1 DEF Base, Listed
  <2>3. \A c \in DOMAIN w.conn : Sound(w.conn[c])
    BY <1>2, <1>6 DEF Base
  <2> QED BY <1>6, <2>2, <2>3 DEF Base
<1>8. q = y
  <2>1. http_connection_get(st, Host[r]) = [state |-> w, conn |-> d]
    BY DEF http_connection_get, w, s, f
  <2> HIDE DEF w, d, m
  <2>2. q = http_connection_start(x, d)
    <3>1. q = http_connection_start([w EXCEPT !.conn[d].parent = r, !.conn[d].told = TRUE,
                                              !.conn[d].keep = Keep], d)
      BY <2>1 DEF Ask
    <3> HIDE DEF x, q
    <3> QED BY <1>6, <3>1
  <2>3. x \in ProxyType /\ d \in DOMAIN x.conn /\ x.conn[d] = m
    <3>1. x \in ProxyType /\ Changed(w, x, d, m)
      BY <1>3, <1>6, PutDoes
    <3> HIDE DEF x
    <3> QED BY <1>6, <3>1 DEF Changed
  <2> HIDE DEF x
  <2>4. q = [x EXCEPT !.conn[d].connecting = TRUE]
    BY <1>3, <2>2, <2>3 DEF http_connection_start
  <2> HIDE DEF q
  <2> QED BY <2>3, <2>4 DEF Put, ProxyType
<1> HIDE DEF w, m, k, q, d
<1>9. Base(x) /\ Changed(w, x, d, m) /\ Around(w, x)
  BY <1>2, <1>3, <1>6, <1>7, PutBase
<1> HIDE DEF x
<1>10. d \in DOMAIN x.conn /\ x.conn[d] = m
  BY <1>6, <1>9 DEF Changed
<1>11. Base(y) /\ Changed(x, y, d, k) /\ Around(x, y)
  BY <1>3, <1>4, <1>9, <1>10, PutBase
<1> HIDE DEF y
<1>12. Joined(st, y, r, d, k)
  <2>1. Changed(w, y, d, k)
    BY <1>9, <1>11, ChangedTwice
  <2>2. d \notin DOMAIN st.conn
    BY <1>6
  <2> QED BY <1>4, <1>5, <1>6, <2>1, <2>2 DEF Changed, Joined
<1> QED BY <1>6, <1>8, <1>9, <1>11, <1>12 DEF Around, q

(* The first idle connection that fits. *)
LEMMA AskIdle ==
  ASSUME NEW st, Base(st), NEW r \in Requests, Reusable(st, Host[r]) # {}
  PROVE  LET q == Ask(st, r)
         IN  Base(q) /\ Around(st, q) /\ \E d, k : Joined(st, q, r, d, k)
<1> DEFINE found == Reusable(st, Host[r])
           d == st.idle[Min(found)]
           k == st.conn[d]
           l == basic_dlist_remove(st.idle, d)
           m0 == [k EXCEPT !.io = @ \ {"IDLE"}]
           v == [st EXCEPT !.idle = l]
           w == Put(v, d, m0)
           m1 == [m0 EXCEPT !.parent = r, !.told = TRUE, !.keep = Keep]
           x == Put(w, d, m1)
           m2 == Started(m1)
           y == http_client_start_headers(x, d)
           n == [m2 EXCEPT !.read = "active"]
           z == Put(y, d, n)
           q == Ask(st, r)
<1>1. st \in ProxyType /\ st.idle \in Seq(Nat)
  BY ConnTyped DEF Base
<1>2. Min(found) \in found
  <2>1. DOMAIN st.idle \subseteq Nat
    BY <1>1, LenProperties
  <2>2. found \in SUBSET Nat
    BY <2>1 DEF Reusable
  <2> HIDE DEF found
  <2> QED BY <2>2, LeastNat DEF found
<1>3. d \in ToSet(st.idle) /\ d \in Nat /\ "HEADERS" \notin k.io
  <2>1. Min(found) \in DOMAIN st.idle /\ "HEADERS" \notin k.io
    BY <1>2 DEF Reusable
  <2>2. Min(found) \in 1 .. Len(st.idle)
    BY <1>1, <2>1, LenProperties
  <2> QED BY <1>1, <2>1, <2>2, Elements
<1>4. http_connection_get(st, Host[r]) =
        [state |-> [st EXCEPT !.idle = basic_dlist_remove(@, d), !.conn[d].io = @ \ {"IDLE"}],
         conn |-> d]
  BY DEF http_connection_get
<1> HIDE DEF d
<1>5. d \in DOMAIN st.conn /\ Waits(k)
  BY <1>3 DEF Base, Listed
<1>6. k \in ConnType /\ Sound(k)
  BY <1>1, <1>5, ConnTyped DEF Base
<1>7. l \in Seq(Nat)
  BY <1>5, ListedRemoved
<1>8. /\ m0 \in ConnType /\ Sound(m0) /\ ~Waits(m0) /\ m0.read # "none"
  BY <1>5, <1>6 DEF ConnType, Sound, Waits, Responding
<1>9. /\ m1 \in ConnType /\ Sound(m1) /\ ~Waits(m1) /\ m1.read # "none"
      /\ m1.io = k.io \ {"IDLE"}
      /\ ~m1.connecting /\ ~m1.pipe /\ ~m1.closing /\ "IDLE" \notin m1.io
      /\ m1.told /\ m1.parent = r /\ m1.closing = k.closing /\ m1.freed = k.freed
  BY <1>5, <1>6, ProxyAssumption DEF ConnType, Sound, Waits, Responding
<1>10. v \in ProxyType /\ v.idle = l /\ v.conn = st.conn /\ Around(st, v)
  <2> HIDE DEF l
  <2> QED BY <1>1, <1>7 DEF ProxyType, Around
<1>11. w = [st EXCEPT !.idle = basic_dlist_remove(@, d), !.conn[d].io = @ \ {"IDLE"}]
  <2>1. [st EXCEPT !.idle = basic_dlist_remove(@, d), !.conn[d].io = @ \ {"IDLE"}]
          = [v EXCEPT !.conn[d].io = @ \ {"IDLE"}]
    OBVIOUS
  <2> HIDE DEF v
  <2>2. w = [v EXCEPT !.conn[d].io = @ \ {"IDLE"}]
    BY <1>5, <1>10 DEF Put, ProxyType
  <2> QED BY <2>1, <2>2
<1> HIDE DEF v, m0, l
<1>12. Base(w) /\ Changed(st, w, d, m0) /\ Around(st, w)
  <2>1. w \in ProxyType /\ w.idle = v.idle /\ Changed(v, w, d, m0) /\ Around(v, w)
    BY <1>5, <1>8, <1>10, PutDoes
  <2>2. Changed(st, w, d, m0) /\ Around(st, w) /\ w.idle = l
    BY <1>10, <2>1 DEF Changed, Around
  <2>3. Base(w)
    BY <1>5, <1>8, <2>1, <2>2, ListedRemoved DEF l
  <2> QED BY <2>2, <2>3
<1>13. q = http_connection_start([w EXCEPT !.conn[d].parent = r, !.conn[d].told = TRUE,
                                           !.conn[d].keep = Keep], d)
  <2> HIDE DEF w
  <2>1. http_connection_get(st, Host[r]) = [state |-> w, conn |-> d]
    BY <1>4, <1>11
  <2> QED BY <2>1 DEF Ask
<1> HIDE DEF w, q
<1>14. w \in ProxyType /\ d \in DOMAIN w.conn /\ w.conn[d] = m0
  BY <1>5, <1>12 DEF Base, Changed
<1>15. x = [w EXCEPT !.conn[d].parent = r, !.conn[d].told = TRUE, !.conn[d].keep = Keep]
  BY <1>14 DEF Put, ProxyType
<1> HIDE DEF m1
<1>16. Base(x) /\ Changed(w, x, d, m1) /\ Around(w, x)
  BY <1>8, <1>9, <1>12, <1>14, PutBase
<1> HIDE DEF x
<1>17. d \in DOMAIN x.conn /\ x.conn[d] = m1
  BY <1>14, <1>16 DEF Changed
<1>18. Base(y) /\ Changed(x, y, d, m2) /\ Around(x, y)
  BY <1>9, <1>16, <1>17, StartHeadersDoes
<1>19. q = [y EXCEPT !.conn[d].read = "active"]
  BY <1>9, <1>13, <1>15, <1>17 DEF http_connection_start
<1> HIDE DEF y
<1>20. y \in ProxyType /\ d \in DOMAIN y.conn /\ y.conn[d] = m2 /\ m2 \in ConnType
  BY <1>17, <1>18, ConnTyped DEF Base, Changed
<1>21. q = z
  <2> HIDE DEF m2
  <2> QED BY <1>19, <1>20 DEF Put, ProxyType
<1>22. /\ m2.io = m1.io \cup {"HEADERS", "DATA"} \cup (IF r \in Upload THEN {"POST"} ELSE {})
       /\ m2.sending /\ m2.answered = FALSE /\ (m2.post <=> r \in Upload)
       /\ m2.connecting = m1.connecting /\ m2.told = m1.told /\ m2.parent = m1.parent
       /\ m2.pipe = m1.pipe /\ m2.closing = m1.closing /\ m2.freed = m1.freed
  BY <1>9 DEF Started, ConnType
<1> HIDE DEF m2
<1>23. /\ n \in ConnType /\ n.read = "active"
       /\ n.io = m1.io \cup {"HEADERS", "DATA"} \cup (IF r \in Upload THEN {"POST"} ELSE {})
       /\ n.sending /\ n.answered = FALSE /\ (n.post <=> r \in Upload)
       /\ ~n.connecting /\ n.told /\ n.parent = r /\ ~n.pipe
       /\ n.closing = k.closing /\ n.freed = k.freed
  BY <1>9, <1>20, <1>22 DEF ConnType
<1> HIDE DEF n
<1>24. Sound(n) /\ ~Waits(n) /\ ~Waits(m2)
  BY <1>9, <1>22, <1>23 DEF Sound, Waits, Responding
<1>25. ASSUME Shaped(k) PROVE Shaped(n) /\ Serves(n, r)
  <2>1. /\ "END" \notin k.io /\ "STOPPING" \notin k.io /\ "POST" \notin k.io
        /\ ~k.closing /\ ~k.freed
    BY <1>5, <1>6, <1>25 DEF Waits, Sound, Shaped, Connecting, Working, Idle, Over, Failed
  <2>2. r # NoRequest
    BY ProxyAssumption DEF NoRequest
  <2>3. Working(n)
    BY <1>9, <1>23, <2>1, <2>2 DEF Working
  <2> QED BY <1>9, <1>23, <2>1, <2>3 DEF Shaped, Serves
<1>26. Base(z) /\ Changed(y, z, d, n) /\ Around(y, z)
  BY <1>18, <1>20, <1>23, <1>24, PutBase
<1> HIDE DEF z
<1>27. Changed(st, z, d, n) /\ Around(st, z)
  <2>1. Changed(st, x, d, m1)
    BY <1>12, <1>16, ChangedTwice
  <2>2. Changed(st, y, d, m2)
    BY <1>18, <2>1, ChangedTwice
  <2> QED BY <1>12, <1>16, <1>18, <1>26, <2>2, ChangedTwice DEF Around
<1>28. Joined(st, z, r, d, n)
  BY <1>5, <1>23, <1>25, <1>27 DEF Changed, Joined
<1> QED BY <1>21, <1>26, <1>27, <1>28 DEF q

(* Either way, one connection joins the request and the others stay. *)
LEMMA AskDoes ==
  ASSUME NEW st, Base(st), NEW r \in Requests
  PROVE  LET q == Ask(st, r)
         IN  Base(q) /\ Around(st, q) /\ \E d, k : Joined(st, q, r, d, k)
BY AskNew, AskIdle

(* A request is asked for. *)
LEMMA StartStep ==
  ASSUME Inv(p), NEW r \in Requests, Start(r)
  PROVE  Inv(p')
<1> DEFINE t == [p.req EXCEPT ![r].asked = TRUE]
           u == [p EXCEPT !.req = t]
<1>1. Base(p) /\ p \in ProxyType /\ p.req \in [Requests -> ParentType]
  BY DEF Inv, Base, ProxyType
<1>2. ~p.req[r].asked /\ p' = Ask(u, r)
  BY DEF Start
<1>3. /\ t \in [Requests -> ParentType] /\ t[r].asked
      /\ t[r].begun = p.req[r].begun /\ t[r].ended = p.req[r].ended
      /\ t[r].gone = p.req[r].gone
      /\ \A s \in Requests : s # r => t[s] = p.req[s]
  <2> DEFINE e == [p.req[r] EXCEPT !.asked = TRUE]
  <2>1. /\ e \in ParentType /\ e.asked /\ e.begun = p.req[r].begun
        /\ e.ended = p.req[r].ended /\ e.gone = p.req[r].gone
    BY <1>1 DEF ParentType
  <2>2. t = [p.req EXCEPT ![r] = e]
    OBVIOUS
  <2> HIDE DEF e, t
  <2> QED BY <1>1, <2>1, <2>2
<1> HIDE DEF t
<1>4. /\ u \in ProxyType /\ u.conn = p.conn /\ u.idle = p.idle /\ u.req = t
      /\ u.faults = p.faults /\ u.bad = p.bad
  BY <1>1, <1>3 DEF ProxyType
<1> HIDE DEF u
<1>5. Base(u)
  BY <1>1, <1>4 DEF Base, Listed
<1>6. Base(p') /\ Around(u, p') /\ \E d, k : Joined(u, p', r, d, k)
  BY <1>2, <1>5, AskDoes
<1>7. PICK d, k : Joined(u, p', r, d, k)
  BY <1>6
<1>8. ASSUME Undisturbed(p') PROVE Sure(p')
  <2>1. Sure(p)
    BY <1>4, <1>6, <1>8 DEF Undisturbed, Around, Inv
  <2>2. p'.bad = {} /\ p'.req = t /\ p'.faults = p.faults
    BY <1>4, <1>6, <2>1 DEF Around, Sure
  <2>3. Shaped(k) /\ Serves(k, r) /\ k.answered = FALSE
    BY <1>4, <1>7, <2>1 DEF Joined, Sure
  <2>4. /\ DOMAIN p'.conn = DOMAIN p.conn \cup {d} /\ p'.conn[d] = k
        /\ \A e \in DOMAIN p.conn : e # d => p'.conn[e] = p.conn[e]
    BY <1>4, <1>7 DEF Joined
  <2>5. \A e \in DOMAIN p'.conn : Shaped(p'.conn[e])
    BY <2>1, <2>3, <2>4 DEF Sure
  <2>6. p.req[r].begun = 0 /\ p.req[r].ended = 0 /\ p.req[r].gone = "no"
    BY <1>2, <2>1 DEF Sure, Counted
  <2>7. \A s \in Requests : Counted(p'.req[s], p'.faults)
    <3> SUFFICES ASSUME NEW s \in Requests PROVE Counted(t[s], p.faults)
      BY <2>2
    <3>1. CASE s = r
      BY <1>3, <2>6, <3>1 DEF Counted
    <3>2. CASE s # r
      BY <1>3, <2>1, <3>2 DEF Sure
    <3> QED BY <3>1, <3>2
  <2>8. \A e \in DOMAIN p.conn : ~Serves(p.conn[e], r)
    BY <1>2, <2>1 DEF Sure, ServedBy
  <2>9. \A s \in Requests : s # r => ~Serves(k, s)
    BY <2>3 DEF Serves
  <2>10. ServedBy(k, t[r])
    BY <1>3, <2>3, <2>6 DEF ServedBy
  <2>11. \A e \in DOMAIN p'.conn, s \in Requests :
           Serves(p'.conn[e], s) => ServedBy(p'.conn[e], p'.req[s])
    <3> SUFFICES ASSUME NEW e \in DOMAIN p'.conn, NEW s \in Requests, Serves(p'.conn[e], s)
                 PROVE  ServedBy(p'.conn[e], t[s])
      BY <2>2
    <3>1. CASE e = d
      BY <2>4, <2>9, <2>10, <3>1
    <3>2. CASE e # d
      <4>1. e \in DOMAIN p.conn /\ p'.conn[e] = p.conn[e]
        BY <2>4, <3>2
      <4>2. s # r
        BY <2>8, <4>1
      <4> QED BY <1>3, <2>1, <4>1, <4>2 DEF Sure
    <3> QED BY <3>1, <3>2
  <2>12. \A e, g \in DOMAIN p'.conn, s \in Requests :
           Serves(p'.conn[e], s) /\ Serves(p'.conn[g], s) => e = g
    <3>1. \A e \in DOMAIN p'.conn, s \in Requests :
            Serves(p'.conn[e], s) => \/ e = d /\ s = r
                                     \/ e \in DOMAIN p.conn /\ Serves(p.conn[e], s) /\ s # r
      BY <2>4, <2>8, <2>9
    <3> QED BY <2>1, <3>1 DEF Sure
  <2> QED BY <2>2, <2>5, <2>7, <2>11, <2>12 DEF Sure
<1> QED BY <1>6, <1>8 DEF Inv

----------------------------------------------------------------------------
(* The end of a read. *)

(* The read of an idle connection ends: it is shut down. *)
LEMMA ReadEndsIdle ==
  ASSUME Inv(p), NEW c \in Conns, NEW m, m = [p.conn[c] EXCEPT !.read = "inactive"],
         ~p.conn[c].freed, p.conn[c].read = "active", ~p.conn[c].open,
         p.conn[c].io \cap {"HEADERS", "DATA"} = {} \/ "IDLE" \in p.conn[c].io,
         p' = http_client_shutdown(Put(p, c, m), c), Base(Put(p, c, m)),
         Changed(p, Put(p, c, m), c, m), Around(p, Put(p, c, m)), MayShut(m), ~m.freed
  PROVE  Inv(p')
<1> DEFINE k == p.conn[c]
           u == Put(p, c, m)
           n == Shut(m)
<1>1. c \in DOMAIN p.conn /\ k \in ConnType /\ Sound(k)
  BY Facts
<1>2. Base(u) /\ Changed(p, u, c, m) /\ Around(p, u) /\ p' = http_client_shutdown(u, c)
  OBVIOUS
<1>3. /\ m \in ConnType /\ m.io = k.io /\ m.read = "inactive"
      /\ m.connecting = k.connecting /\ m.told = k.told
      /\ m.answered = k.answered /\ m.parent = k.parent /\ m.pipe = k.pipe
      /\ m.post = k.post /\ m.sending = k.sending /\ m.freed = k.freed
      /\ m.closing = k.closing
  BY <1>1 DEF ConnType
<1> HIDE DEF u
<1>4. c \in DOMAIN u.conn /\ u.conn[c] = m
  BY <1>1, <1>2 DEF Changed
<1>5. Base(p') /\ Changed(u, p', c, n) /\ Around(u, p')
  <2>1. ~u.conn[c].freed /\ MayShut(u.conn[c])
    BY <1>4
  <2>2. LET q == http_client_shutdown(u, c)
        IN  Base(q) /\ Changed(u, q, c, Shut(u.conn[c])) /\ Around(u, q)
    BY <1>2, <1>4, <2>1, ShutdownDoes
  <2> QED BY <1>2, <1>4, <2>2
<1>6. ASSUME Shaped(k) PROVE Steady(k, n)
  <2>1. Idle(k)
    BY <1>6 DEF Shaped, Connecting, Working, Over, Failed
  <2>2. /\ n.io = (IF Frees(m) THEN m.io ELSE m.io \cup {"STOPPING"})
        /\ (n.freed <=> Frees(m)) /\ n.read = "inactive"
        /\ n.connecting = k.connecting /\ n.told = k.told
        /\ n.answered = k.answered /\ n.parent = k.parent /\ n.pipe = k.pipe
        /\ n.post = k.post /\ n.sending = k.sending
        /\ n.closing = (IF Frees(m) \/ "STOPPING" \in m.io THEN k.closing ELSE TRUE)
    <3>1. CASE Frees(m)
      <4>1. n = [m EXCEPT !.freed = TRUE]
        BY <3>1 DEF Shut
      <4> HIDE DEF n
      <4> QED BY <1>3, <3>1, <4>1 DEF ConnType
    <3>2. CASE ~Frees(m) /\ "STOPPING" \in m.io
      <4>1. n = m /\ m.io = m.io \cup {"STOPPING"}
        BY <1>3, <3>2 DEF Shut
      <4> HIDE DEF n
      <4> QED BY <1>3, <3>2, <4>1
    <3>3. CASE ~Frees(m) /\ "STOPPING" \notin m.io
      <4>1. n = [m EXCEPT !.io = @ \cup {"STOPPING"}, !.closing = TRUE]
        BY <3>3 DEF Shut
      <4> HIDE DEF n
      <4> QED BY <1>3, <3>3, <4>1 DEF ConnType
    <3> QED BY <3>1, <3>2, <3>3
  <2> HIDE DEF n
  <2>3. "END" \in k.io => "STOPPING" \in k.io
    BY <2>1 DEF Idle
  <2>4. Idle(n) /\ ~Connecting(n) /\ ~Working(n)
    BY <1>3, <2>1, <2>2, <2>3 DEF Idle, Connecting, Working, Frees
  <2>5. Frees(m) <=> "END" \in k.io /\ "HEADERS" \notin k.io
    BY <1>3, <2>1 DEF Frees, Idle
  <2>6. n.closing <=> "STOPPING" \in n.io /\ "END" \notin n.io
    BY <1>1, <1>3, <1>6, <2>2, <2>3, <2>5 DEF Shaped, ConnType
  <2>7. n.freed <=> "END" \in n.io /\ "HEADERS" \notin n.io /\ n.read # "active"
    BY <1>3, <2>2, <2>5
  <2>8. (n.sending <=> "HEADERS" \in n.io) /\ (n.post <=> "POST" \in n.io)
    BY <1>3, <1>6, <2>2 DEF Shaped
  <2>9. Shaped(n)
    BY <2>4, <2>6, <2>7, <2>8 DEF Shaped
  <2> QED BY <2>4, <2>9 DEF Steady, Serves
<1> HIDE DEF n
<1>7. Changed(p, p', c, n) /\ Around(p, p')
  BY <1>2, <1>5, ChangedTwice DEF Around
<1> QED BY <1>1, <1>5, <1>6, <1>7, OneMovesAlone DEF Around

(* The retry: connection c gives its parent up, connection d serves it. *)
Retried(st, q, c, d, n, k) ==
  /\ c # d /\ DOMAIN q.conn = DOMAIN st.conn \cup {d} /\ q.conn[c] = n /\ q.conn[d] = k
  /\ \A e \in DOMAIN st.conn : e # c /\ e # d => q.conn[e] = st.conn[e]
  /\ q.req = st.req /\ q.faults = st.faults /\ q.bad = st.bad

(* The retry leaves every request with one connection. *)
LEMMA RetrySure ==
  ASSUME NEW st, Sure(st), NEW q, NEW c \in DOMAIN st.conn, NEW d, NEW n, NEW k,
         NEW r \in Requests, Retried(st, q, c, d, n, k),
         Serves(st.conn[c], r), st.conn[c].answered = FALSE,
         Shaped(n), \A s \in Requests : ~Serves(n, s),
         Shaped(k), Serves(k, r), k.answered = FALSE
  PROVE  Sure(q)
<1>1. \A e \in DOMAIN q.conn : Shaped(q.conn[e])
  BY DEF Sure, Retried
<1>2. ServedBy(k, st.req[r])
  <2>1. ServedBy(st.conn[c], st.req[r])
    BY DEF Sure, Retried
  <2> QED BY <2>1 DEF ServedBy
<1>3. \A s \in Requests : s # r => ~Serves(k, s)
  BY DEF Serves
<1>4. \A e \in DOMAIN st.conn : e # c => ~Serves(st.conn[e], r)
  BY DEF Sure, Retried
<1>5. \A e \in DOMAIN q.conn, s \in Requests :
        Serves(q.conn[e], s) =>
          \/ e = d /\ s = r
          \/ e \in DOMAIN st.conn /\ e # d /\ q.conn[e] = st.conn[e] /\ s # r
  <2> SUFFICES ASSUME NEW e \in DOMAIN q.conn, NEW s \in Requests, Serves(q.conn[e], s), e # d
               PROVE  e \in DOMAIN st.conn /\ q.conn[e] = st.conn[e] /\ s # r
    BY <1>3 DEF Retried
  <2>1. e # c /\ e \in DOMAIN st.conn
    BY DEF Retried
  <2> QED BY <1>4, <2>1 DEF Retried
<1>6. \A e \in DOMAIN q.conn, s \in Requests :
        Serves(q.conn[e], s) => ServedBy(q.conn[e], q.req[s])
  BY <1>2, <1>5 DEF Sure, Retried
<1>7. \A e, g \in DOMAIN q.conn, s \in Requests :
        Serves(q.conn[e], s) /\ Serves(q.conn[g], s) => e = g
  <2> SUFFICES ASSUME NEW e \in DOMAIN q.conn, NEW g \in DOMAIN q.conn, NEW s \in Requests,
                      Serves(q.conn[e], s), Serves(q.conn[g], s)
               PROVE  e = g
    OBVIOUS
  <2>1. CASE s = r
    BY <1>5, <2>1
  <2>2. CASE s # r
    <3>1. /\ e \in DOMAIN st.conn /\ g \in DOMAIN st.conn
          /\ Serves(st.conn[e], s) /\ Serves(st.conn[g], s)
      BY <1>5, <2>2
    <3> QED BY <3>1 DEF Sure
  <2> QED BY <2>1, <2>2
<1>8. q.bad = {} /\ \A s \in Requests : Counted(q.req[s], q.faults)
  BY DEF Sure, Retried
<1> QED BY <1>1, <1>6, <1>7, <1>8 DEF Sure

(* The read of a connection with a request ends, or its bytes are no head: *)
(* the request is asked again. *)
LEMMA ReadEndsLost ==
  ASSUME Inv(p), NEW c \in Conns, NEW m, m = [p.conn[c] EXCEPT !.read = "inactive"],
         ~p.conn[c].freed, p.conn[c].read = "active",
         p.conn[c].io \cap {"HEADERS", "DATA"} # {}, "IDLE" \notin p.conn[c].io,
         p' = http_client_shutdown(http_client_restart(Put(p, c, m), c), c),
         Base(Put(p, c, m)), Sound(m),
         Changed(p, Put(p, c, m), c, m), Around(p, Put(p, c, m)), MayShut(m), ~m.freed
  PROVE  Inv(p')
<1> DEFINE k == p.conn[c]
           r == k.parent
           u == Put(p, c, m)
           v == http_client_restart(u, c)
<1>1. /\ c \in DOMAIN p.conn /\ k \in ConnType /\ Sound(k)
      /\ Undisturbed(p) => Sure(p) /\ Shaped(k)
  BY Facts
<1>2. Base(u) /\ Changed(p, u, c, m) /\ Around(p, u) /\ p' = http_client_shutdown(v, c)
  OBVIOUS
<1>3. /\ m \in ConnType /\ m.io = k.io /\ m.read = "inactive" /\ m.open = k.open
      /\ m.connecting = k.connecting /\ m.told = k.told
      /\ m.answered = k.answered /\ m.parent = k.parent /\ m.pipe = k.pipe
      /\ m.post = k.post /\ m.sending = k.sending /\ m.freed = k.freed
      /\ m.closing = k.closing
  BY <1>1 DEF ConnType
<1> HIDE DEF u
<1>4. c \in DOMAIN u.conn /\ u.conn[c] = m /\ u.req = p.req
  BY <1>1, <1>2 DEF Changed, Around
<1>5. ASSUME Shaped(k)
      PROVE  /\ Working(k) /\ k.answered = FALSE /\ r \in Requests /\ Serves(k, r)
             /\ r # NoRequest /\ "DATA" \in k.io /\ ("POST" \in k.io => r \in Upload)
             /\ k.io \cap {"STOPPING", "END"} = {}
  <2>1. Working(k)
    BY <1>5 DEF Shaped, Connecting, Idle, Over, Failed
  <2> QED BY <1>1, <2>1 DEF Working, Serves, ConnType
<1>6. Undisturbed(p) => r # NoRequest /\ ~Past(p, r)
  BY <1>1, <1>5 DEF Sure, ServedBy, Counted, Past
<1>7. v = IF m.parent = NoRequest THEN u
          ELSE IF Past(u, m.parent) THEN Bad(u, "freed")
          ELSE [Ask(IF m.parent \in Upload THEN Fault(u, "resent") ELSE u, m.parent) EXCEPT
                  !.conn[c].parent = NoRequest, !.conn[c].told = FALSE]
  <2> DEFINE g == u.conn[c].parent
             a == Ask(IF g \in Upload THEN Fault(u, "resent") ELSE u, g)
  <2>1. v = IF g = NoRequest THEN u
            ELSE IF Past(u, g) THEN Bad(u, "freed")
            ELSE [a EXCEPT !.conn[c].parent = NoRequest, !.conn[c].told = FALSE]
    BY Zenon DEF http_client_restart
  <2>2. g = m.parent
    BY <1>4
  <2>3. a = Ask(IF m.parent \in Upload THEN Fault(u, "resent") ELSE u, m.parent)
    BY <2>2
  <2> HIDE DEF a, g, v
  <2> QED BY <2>1, <2>2, <2>3
<1> HIDE DEF v
<1>8. CASE r = NoRequest \/ Past(p, r)
  <2>1. v = u \/ v = Bad(u, "freed")
    BY <1>3, <1>4, <1>7, <1>8 DEF Past
  <2>2. Base(v) /\ v.conn = u.conn /\ v.faults = u.faults
    BY <1>2, <2>1, BadDoes
  <2>3. c \in DOMAIN v.conn /\ v.conn[c] = m
    BY <1>4, <2>2
  <2>4. LET q == http_client_shutdown(v, c)
        IN  Base(q) /\ Changed(v, q, c, Shut(v.conn[c])) /\ Around(v, q)
    BY <2>2, <2>3, ShutdownDoes
  <2>5. Base(p') /\ p'.faults = p.faults
    BY <1>2, <2>2, <2>4 DEF Around
  <2>6. ~Undisturbed(p)
    BY <1>6, <1>8
  <2> QED BY <2>5, <2>6 DEF Inv, Undisturbed
<1>9. CASE r # NoRequest /\ ~Past(p, r)
  <2> DEFINE f == IF r \in Upload THEN Fault(u, "resent") ELSE u
             a == Ask(f, r)
             l == [m EXCEPT !.parent = NoRequest, !.told = FALSE]
             w == Put(a, c, l)
             n == Shut(l)
  <2>1. r \in Requests
    BY <1>1, <1>9 DEF ConnType
  <2>2. v = [a EXCEPT !.conn[c].parent = NoRequest, !.conn[c].told = FALSE]
    BY <1>3, <1>4, <1>7, <1>9 DEF Past
  <2>3. /\ Base(f) /\ f.conn = u.conn /\ f.req = p.req /\ f.bad = p.bad
        /\ f.faults = IF r \in Upload THEN p.faults \cup {"resent"} ELSE p.faults
    <3>1. CASE r \in Upload
      <4>1. f = Fault(u, "resent")
        BY <3>1
      <4> HIDE DEF f
      <4> QED BY <1>2, <3>1, <4>1, FaultDoes DEF Around
    <3>2. CASE r \notin Upload
      BY <1>2, <3>2 DEF Around
    <3> QED BY <3>1, <3>2
  <2> HIDE DEF f
  <2>4. Base(a) /\ Around(f, a) /\ \E d, g : Joined(f, a, r, d, g)
    BY <2>1, <2>3, AskDoes
  <2> HIDE DEF a
  <2>5. PICK d, g : Joined(f, a, r, d, g)
    BY <2>4
  <2>6. c # d
    <3> HIDE DEF l, n, w
    <3>1. f.conn[c] = m /\ c \in DOMAIN f.conn
      BY <1>4, <2>3
    <3>2. ~Waits(f.conn[c])
      BY <1>3, <3>1 DEF Waits
    <3> QED BY <2>5, <3>1, <3>2 DEF Joined
  <2>7. c \in DOMAIN a.conn /\ a.conn[c] = m /\ a \in ProxyType
    BY <1>4, <2>3, <2>4, <2>5, <2>6 DEF Joined, Base
  <2>8. v = w
    BY <2>2, <2>7 DEF Put, ProxyType
  <2>9. /\ l \in ConnType /\ l.parent = NoRequest /\ l.told = FALSE /\ l.io = m.io
        /\ l.read = m.read /\ l.open = m.open /\ l.connecting = m.connecting
        /\ l.answered = m.answered /\ l.pipe = m.pipe /\ l.post = m.post
        /\ l.sending = m.sending /\ l.freed = m.freed /\ l.closing = m.closing
    BY <1>3, ZenonT(40) DEF ConnType
  <2> HIDE DEF l
  <2>10. Sound(l) /\ (Waits(l) <=> Waits(m)) /\ MayShut(l) /\ ~l.freed
    BY <2>9 DEF Sound, Waits, Responding, MayShut
  <2>11. Base(w) /\ Changed(a, w, c, l) /\ Around(a, w)
    BY <2>4, <2>7, <2>9, <2>10, PutBase
  <2> HIDE DEF w
  <2>12. c \in DOMAIN w.conn /\ w.conn[c] = l
    BY <2>7, <2>11 DEF Changed
  <2>13. Base(p') /\ Changed(w, p', c, n) /\ Around(w, p')
    <3>1. ~w.conn[c].freed /\ MayShut(w.conn[c])
      BY <2>10, <2>12
    <3>2. LET q == http_client_shutdown(w, c)
          IN  Base(q) /\ Changed(w, q, c, Shut(w.conn[c])) /\ Around(w, q)
      BY <2>11, <2>12, <3>1, ShutdownDoes
    <3> QED BY <1>2, <2>8, <2>12, <3>2
  <2>14. /\ DOMAIN p'.conn = DOMAIN p.conn \cup {d} /\ p'.conn[c] = n /\ p'.conn[d] = g
         /\ \A e \in DOMAIN p.conn : e # c /\ e # d => p'.conn[e] = p.conn[e]
    <3>1. Changed(a, p', c, n)
      BY <2>11, <2>13, ChangedTwice
    <3> HIDE DEF n
    <3>2. /\ DOMAIN a.conn = DOMAIN p.conn \cup {d} /\ a.conn[d] = g
          /\ \A e \in DOMAIN p.conn : e # c /\ e # d => a.conn[e] = p.conn[e]
      BY <1>2, <2>3, <2>5 DEF Joined, Changed
    <3> QED BY <2>6, <2>7, <3>1, <3>2 DEF Changed
  <2>15. p'.req = p.req /\ p'.bad = p.bad /\ p'.faults = f.faults
    BY <2>3, <2>4, <2>11, <2>13 DEF Around
  <2>16. ASSUME Undisturbed(p') PROVE Sure(p')
    <3>1. r \notin Upload /\ p'.faults = p.faults /\ Undisturbed(p)
      BY <2>3, <2>15, <2>16 DEF Undisturbed, Unrecovered
    <3>2. Sure(p) /\ Shaped(k)
      BY <1>1, <3>1
    <3>3. /\ Working(k) /\ k.answered = FALSE /\ Serves(k, r) /\ "DATA" \in k.io
          /\ "POST" \notin k.io /\ k.io \cap {"STOPPING", "END"} = {}
      BY <1>5, <3>1, <3>2
    <3>4. Shaped(g) /\ Serves(g, r) /\ g.answered = FALSE
      <4>1. d \in DOMAIN f.conn => Shaped(f.conn[d])
        BY <1>2, <2>3, <2>6, <3>2 DEF Sure, Changed
      <4> QED BY <2>5, <4>1 DEF Joined
    <3>5. n = [l EXCEPT !.io = @ \cup {"STOPPING"}, !.closing = TRUE]
      BY <1>3, <2>9, <3>3 DEF Shut, Frees
    <3> HIDE DEF n
    <3>6. /\ n.io = k.io \cup {"STOPPING"} /\ n.closing = TRUE /\ n.parent = NoRequest
          /\ n.read = "inactive" /\ n.connecting = k.connecting /\ n.pipe = k.pipe
          /\ n.post = k.post /\ n.sending = k.sending /\ n.freed = k.freed
      BY <1>3, <2>9, <3>5 DEF ConnType
    <3>7. ~k.pipe /\ ~k.connecting
      BY <1>1, <3>3 DEF Working, Sound, Responding
    <3>8. Over(n) /\ ~Connecting(n) /\ ~Working(n)
      BY <3>3, <3>6, <3>7 DEF Over, Connecting, Working
    <3>9. Shaped(n) /\ \A s \in Requests : ~Serves(n, s)
      BY <3>2, <3>3, <3>6, <3>8 DEF Shaped, Serves
    <3>10. Retried(p, p', c, d, n, g)
      BY <2>6, <2>14, <2>15, <3>1 DEF Retried
    <3> QED BY <1>1, <2>1, <3>2, <3>3, <3>4, <3>9, <3>10, RetrySure
  <2> QED BY <2>13, <2>16 DEF Inv
<1> QED BY <1>8, <1>9

(* A read ends: a request that was not answered is asked again, on another *)
(* connection, and this one is shut down. *)
LEMMA ReadEndsStep ==
  ASSUME Inv(p), NEW c \in Conns, ReadEnds(c)
  PROVE  Inv(p')
<1> DEFINE k == p.conn[c]
           m == [k EXCEPT !.read = "inactive"]
           u == Put(p, c, m)
<1>1. /\ Base(p) /\ p \in ProxyType /\ c \in DOMAIN p.conn
      /\ k \in ConnType /\ Sound(k)
  BY Facts
<1>2. ~k.freed /\ k.read = "active" /\ ~k.open
  BY DEF ReadEnds
<1>3. u = [p EXCEPT !.conn[c].read = "inactive"]
  BY <1>1 DEF Put, ProxyType
<1>4. p' = http_client_headers_close_callback(u, c)
  BY <1>3 DEF ReadEnds
<1>5. /\ m \in ConnType /\ Sound(m) /\ (Waits(m) <=> Waits(k)) /\ MayShut(m) /\ ~m.freed
      /\ m.io = k.io
  BY <1>1, <1>2 DEF ConnType, Sound, Waits, Responding, MayShut
<1>6. Base(u) /\ Changed(p, u, c, m) /\ Around(p, u)
  <2> HIDE DEF m
  <2> QED BY <1>1, <1>5, PutBase
<1>7. u.conn[c].io = k.io
  <2> HIDE DEF m, u
  <2> QED BY <1>5, <1>6 DEF Changed
<1>8. CASE k.io \cap {"HEADERS", "DATA"} = {} \/ "IDLE" \in k.io
  <2>1. p' = http_client_shutdown(u, c)
    BY <1>4, <1>7, <1>8 DEF http_client_headers_close_callback
  <2> QED BY <1>2, <1>5, <1>6, <1>8, <2>1, ReadEndsIdle
<1>9. CASE k.io \cap {"HEADERS", "DATA"} # {} /\ "IDLE" \notin k.io
  <2>1. p' = http_client_shutdown(http_client_restart(u, c), c)
    BY <1>4, <1>7, <1>9 DEF http_client_headers_close_callback
  <2> QED BY <1>2, <1>5, <1>6, <1>9, <2>1, ReadEndsLost
<1> QED BY <1>8, <1>9

(* The rest of an earlier answer is no head: the request is asked again,   *)
(* on another connection, and this one is shut down. *)
LEMMA GarbledStep ==
  ASSUME Inv(p), NEW c \in Conns, Garbled(c)
  PROVE  Inv(p')
<1> DEFINE k == p.conn[c]
           m == [k EXCEPT !.read = "inactive"]
           u == Put(p, c, m)
<1>1. /\ Base(p) /\ p \in ProxyType /\ c \in DOMAIN p.conn
      /\ k \in ConnType /\ Sound(k)
  BY Facts
<1>2. ~k.freed /\ k.read = "active" /\ "DATA" \in k.io /\ "IDLE" \notin k.io
  BY DEF Garbled, Expects
<1>3. u = [p EXCEPT !.conn[c].read = "inactive"]
  BY <1>1 DEF Put, ProxyType
<1>4. p' = http_client_headers_close_callback(u, c)
  BY <1>3 DEF Garbled
<1>5. /\ m \in ConnType /\ Sound(m) /\ (Waits(m) <=> Waits(k)) /\ MayShut(m) /\ ~m.freed
      /\ m.io = k.io
  BY <1>1, <1>2 DEF ConnType, Sound, Waits, Responding, MayShut
<1>6. Base(u) /\ Changed(p, u, c, m) /\ Around(p, u)
  <2> HIDE DEF m
  <2> QED BY <1>1, <1>5, PutBase
<1>7. u.conn[c].io = k.io
  <2> HIDE DEF m, u
  <2> QED BY <1>5, <1>6 DEF Changed
<1>8. k.io \cap {"HEADERS", "DATA"} # {}
  BY <1>2
<1>9. p' = http_client_shutdown(http_client_restart(u, c), c)
  BY <1>2, <1>4, <1>7, <1>8 DEF http_client_headers_close_callback
<1> QED BY <1>2, <1>5, <1>6, <1>8, <1>9, ReadEndsLost

----------------------------------------------------------------------------
(* The idle connections are shut down, one after the other. *)

Down(k) == [k EXCEPT !.open = FALSE, !.io = @ \cup {"STOPPING"}, !.closing = TRUE]

(* The first n idle connections are shut down and gone from the list. *)
Partly(st, n) ==
  [st EXCEPT !.conn = [c \in DOMAIN st.conn |->
                         IF \E i \in 1 .. n : st.idle[i] = c
                         THEN Down(st.conn[c]) ELSE st.conn[c]],
             !.idle = SubSeq(st.idle, n + 1, Len(st.idle))]

(* One round of the loop. *)
Round(st, w, n) ==
  http_client_shutdown([w EXCEPT !.conn[st.idle[n]].open = FALSE], st.idle[n])

(* An idle connection may be shut down, and is not idle then. *)
LEMMA DownShape ==
  ASSUME NEW k \in ConnType, Sound(k), Waits(k)
  PROVE  /\ Down(k) \in ConnType /\ Sound(Down(k)) /\ ~Waits(Down(k))
         /\ Shaped(k) => Steady(k, Down(k))
         /\ LET o == [k EXCEPT !.open = FALSE]
            IN  /\ o \in ConnType /\ Sound(o) /\ Waits(o) /\ MayShut(o) /\ ~o.freed
                /\ Shut(o) = Down(k)
<1> DEFINE n == Down(k)
           o == [k EXCEPT !.open = FALSE]
<1>1. /\ n \in ConnType /\ n.io = k.io \cup {"STOPPING"} /\ n.read = k.read
      /\ n.open = FALSE /\ n.connecting = k.connecting /\ n.told = k.told
      /\ n.answered = k.answered /\ n.parent = k.parent /\ n.pipe = k.pipe
      /\ n.post = k.post /\ n.sending = k.sending /\ n.freed = k.freed /\ n.closing = TRUE
  BY DEF ConnType, Down, Flag
<1>2. o \in ConnType /\ Sound(o) /\ Waits(o) /\ MayShut(o) /\ ~o.freed
  BY DEF ConnType, Sound, Waits, Responding, MayShut
<1>3. Shut(o) = n
  <2>1. ~Frees(o) /\ "STOPPING" \notin o.io
    BY <1>2 DEF Frees, Sound, Waits
  <2>2. Shut(o) = [o EXCEPT !.io = @ \cup {"STOPPING"}, !.closing = TRUE]
    BY <2>1 DEF Shut
  <2> QED BY <2>2 DEF Down
<1> HIDE DEF n
<1>4. Sound(n) /\ ~Waits(n)
  BY <1>1 DEF Sound, Waits, Responding
<1>5. ASSUME Shaped(k) PROVE Steady(k, n)
  <2>1. Idle(k) /\ "END" \notin k.io /\ ~k.freed
    BY <1>5 DEF Waits, Sound, Shaped, Connecting, Working, Over, Failed
  <2>2. Idle(n) /\ ~Connecting(n) /\ ~Working(n)
    BY <1>1, <2>1 DEF Idle, Connecting, Working
  <2>3. Shaped(n)
    BY <1>1, <1>5, <2>1, <2>2 DEF Shaped
  <2> QED BY <2>2, <2>3 DEF Steady, Serves
<1> QED BY <1>1, <1>2, <1>3, <1>4, <1>5 DEF n

(* A function on 1 .. n is a sequence. *)
LEMMA FunctionIsSeq ==
  ASSUME NEW S, NEW n \in Nat, NEW f \in [1 .. n -> S]
  PROVE  f \in Seq(S)
<1>1. Seq(S) = UNION {[1 .. k -> S] : k \in Nat}
  BY SeqDef
<1>2. [1 .. n -> S] \in {[1 .. k -> S] : k \in Nat}
  OBVIOUS
<1> QED BY <1>1, <1>2, Zenon

(* Intervals from 1 that are equal end at the same number. *)
LEMMA SameCount ==
  ASSUME NEW a \in Nat, NEW b \in Nat, 1 .. a = 1 .. b
  PROVE  a = b
<1>1. \A i \in Nat : i \in 1 .. a <=> i \in 1 .. b
  OBVIOUS
<1>2. CASE a < b
  BY <1>1, <1>2
<1>3. CASE b < a
  BY <1>1, <1>3
<1> QED BY <1>2, <1>3

(* What the closed form says, field by field. *)
LEMMA PartlyDoes ==
  ASSUME NEW st, Base(st), NEW n \in 0 .. Len(st.idle)
  PROVE  LET q == Partly(st, n)
             Gone(c) == \E i \in 1 .. n : st.idle[i] = c
         IN  /\ q \in ProxyType /\ Base(q) /\ Around(st, q) /\ DOMAIN q.conn = DOMAIN st.conn
             /\ \A c \in DOMAIN st.conn :
                  q.conn[c] = IF Gone(c) THEN Down(st.conn[c]) ELSE st.conn[c]
             /\ q.idle = SubSeq(st.idle, n + 1, Len(st.idle))
<1> DEFINE q == Partly(st, n)
           N == Len(st.idle)
           Gone(c) == \E i \in 1 .. n : st.idle[i] = c
           s == [c \in DOMAIN st.conn |->
                   IF Gone(c) THEN Down(st.conn[c]) ELSE st.conn[c]]
           l == SubSeq(st.idle, n + 1, N)
<1>1. /\ st \in ProxyType /\ st.conn \in Seq(ConnType) /\ st.idle \in Seq(Nat)
      /\ Len(st.conn) \in Nat /\ DOMAIN st.conn = 1 .. Len(st.conn)
      /\ \A c \in DOMAIN st.conn : c \in Nat /\ st.conn[c] \in ConnType
  BY ConnTyped DEF Base
<1>2. N \in Nat /\ n \in Nat /\ n <= N /\ DOMAIN st.idle = 1 .. N
  BY <1>1, LenProperties
<1>3. /\ \A i \in 1 .. N : st.idle[i] \in Nat /\ st.idle[i] \in ToSet(st.idle)
      /\ \A x : x \in ToSet(st.idle) <=> \E i \in 1 .. N : st.idle[i] = x
  BY <1>1, Elements
<1>4. \A i, j \in 1 .. N : st.idle[i] = st.idle[j] => i = j
  BY <1>2 DEF Base, Listed, IsInjective
<1> HIDE DEF N
<1>5. \A i \in 1 .. n : i \in 1 .. N
  BY <1>2
<1>6. \A c \in DOMAIN st.conn : Gone(c) => Waits(st.conn[c])
  BY <1>1, <1>3, <1>5 DEF Base, Listed
<1>7. \A c \in DOMAIN st.conn : Gone(c) => Down(st.conn[c]) \in ConnType
  BY <1>1, <1>6, DownShape DEF Base
<1>8. s \in Seq(ConnType)
  <2>1. s \in [1 .. Len(st.conn) -> ConnType]
    <3> HIDE DEF Gone
    <3> QED BY <1>1, <1>7
  <2> HIDE DEF s
  <2> QED BY <1>1, <2>1, FunctionIsSeq
<1>9. /\ l \in Seq(Nat) /\ Len(l) = N - n /\ \A i \in 1 .. (N - n) : l[i] = st.idle[n + i]
  <2>1. n + 1 \in Int /\ N \in Int /\ \A i \in (n + 1) .. N : st.idle[i] \in Nat
    BY <1>2, <1>3
  <2>2. /\ l \in Seq(Nat) /\ Len(l) = (IF n + 1 <= N THEN N - (n + 1) + 1 ELSE 0)
        /\ \A i \in 1 .. (N - (n + 1) + 1) : l[i] = st.idle[(n + 1) + i - 1]
    BY <2>1, SubSeqProperties
  <2> HIDE DEF l
  <2> QED BY <1>2, <2>2
<1>10. q = [st EXCEPT !.conn = s, !.idle = l]
  BY DEF Partly, N
<1>11. /\ DOMAIN s = DOMAIN st.conn
       /\ \A c \in DOMAIN st.conn : s[c] = IF Gone(c) THEN Down(st.conn[c]) ELSE st.conn[c]
  OBVIOUS
<1> HIDE DEF s, l, q, Gone
<1>12. q \in ProxyType /\ q.conn = s /\ q.idle = l /\ Around(st, q)
  BY <1>1, <1>8, <1>9, <1>10 DEF ProxyType, Around
<1>13. IsInjective(l)
  <2>1. DOMAIN l = 1 .. (N - n)
    BY <1>9, LenProperties
  <2>2. \A i \in 1 .. (N - n) : n + i \in 1 .. N
    BY <1>2
  <2>3. \A i, j \in 1 .. (N - n) : n + i = n + j => i = j
    BY <1>2
  <2>4. ASSUME NEW i \in 1 .. (N - n), NEW j \in 1 .. (N - n), l[i] = l[j]
        PROVE  i = j
    <3>1. st.idle[n + i] = st.idle[n + j]
      BY <1>9, <2>4
    <3>2. n + i = n + j
      BY <1>4, <2>2, <3>1
    <3> QED BY <2>3, <3>2
  <2> QED BY <2>1, <2>4 DEF IsInjective
<1>14. \A x : x \in ToSet(l) <=> x \in ToSet(st.idle) /\ ~Gone(x)
  <2>1. \A x : x \in ToSet(l) <=> \E i \in 1 .. (N - n) : l[i] = x
    BY <1>9, Elements
  <2>2. ASSUME NEW x, x \in ToSet(l) PROVE x \in ToSet(st.idle) /\ ~Gone(x)
    <3>1. PICK i \in 1 .. (N - n) : st.idle[n + i] = x
      BY <1>9, <2>1, <2>2
    <3>2. n + i \in 1 .. N /\ \A j \in 1 .. n : j # n + i
      BY <1>2
    <3> QED BY <1>3, <1>4, <1>5, <3>1, <3>2 DEF Gone
  <2>3. ASSUME NEW x, x \in ToSet(st.idle), ~Gone(x) PROVE x \in ToSet(l)
    <3>1. PICK j \in 1 .. N : st.idle[j] = x
      BY <1>3, <2>3
    <3>2. j \notin 1 .. n
      BY <2>3, <3>1 DEF Gone
    <3>3. j - n \in 1 .. (N - n) /\ n + (j - n) = j
      BY <1>2, <3>2
    <3> QED BY <1>9, <2>1, <3>1, <3>3
  <2> QED BY <2>2, <2>3
<1>15. \A c \in DOMAIN st.conn : Gone(c) => ~Waits(Down(st.conn[c])) /\ Sound(Down(st.conn[c]))
  BY <1>1, <1>6, DownShape DEF Base
<1>16. Listed(q)
  <2> SUFFICES ASSUME NEW c \in Nat
               PROVE  c \in ToSet(l) <=> c \in DOMAIN s /\ Waits(s[c])
    BY <1>12, <1>13 DEF Listed
  <2>1. c \in ToSet(st.idle) <=> c \in DOMAIN st.conn /\ Waits(st.conn[c])
    BY DEF Base, Listed
  <2> QED BY <1>11, <1>14, <1>15, <2>1
<1>17. \A c \in DOMAIN q.conn : Sound(q.conn[c])
  BY <1>11, <1>12, <1>15 DEF Base
<1>18. Base(q)
  BY <1>12, <1>16, <1>17 DEF Base
<1> QED BY <1>11, <1>12, <1>18 DEF q, l, N, Gone

(* States with equal fields are equal. *)
LEMMA SameFields ==
  ASSUME NEW a \in ProxyType, NEW b \in ProxyType,
         a.conn = b.conn, a.idle = b.idle, Around(a, b)
  PROVE  a = b
BY DEF ProxyType, Around

(* A round of the loop takes the closed form one connection further. *)
LEMMA RoundDoes ==
  ASSUME NEW st, Base(st), NEW n \in 1 .. Len(st.idle)
  PROVE  Partly(st, n) = Round(st, Partly(st, n - 1), n)
<1> DEFINE N == Len(st.idle)
           d == st.idle[n]
           a == Partly(st, n - 1)
           b == Partly(st, n)
           k == st.conn[d]
           o == [k EXCEPT !.open = FALSE]
           u == Put(a, d, o)
           q == http_client_shutdown(u, d)
           m == n - 1
           Gone(j, c) == \E i \in 1 .. j : st.idle[i] = c
<1>1. st \in ProxyType /\ st.idle \in Seq(Nat) /\ DOMAIN st.idle = 1 .. N
  BY ConnTyped, LenProperties DEF Base
<1>2. /\ N \in Nat /\ n \in Nat /\ 1 <= n /\ n <= N /\ m \in 0 .. N /\ n \in 0 .. N
      /\ m + 1 = n
  BY <1>1, LenProperties
<1>3. d \in DOMAIN st.conn /\ Waits(k) /\ d \in Nat
  BY <1>1, Elements DEF Base, Listed
<1>4. k \in ConnType /\ Sound(k)
  BY <1>1, <1>3, ConnTyped DEF Base
<1>5. \A i, j \in 1 .. N : st.idle[i] = st.idle[j] => i = j
  BY <1>1 DEF Base, Listed, IsInjective
<1>6. /\ a \in ProxyType /\ Base(a) /\ Around(st, a) /\ DOMAIN a.conn = DOMAIN st.conn
      /\ \A c \in DOMAIN st.conn :
           a.conn[c] = IF Gone(m, c) THEN Down(st.conn[c]) ELSE st.conn[c]
      /\ a.idle = SubSeq(st.idle, m + 1, N)
  BY <1>2, PartlyDoes
<1>7. /\ b \in ProxyType /\ Base(b) /\ Around(st, b) /\ DOMAIN b.conn = DOMAIN st.conn
      /\ \A c \in DOMAIN st.conn :
           b.conn[c] = IF Gone(n, c) THEN Down(st.conn[c]) ELSE st.conn[c]
      /\ b.idle = SubSeq(st.idle, n + 1, N)
  BY <1>2, PartlyDoes
<1>8. /\ ~Gone(m, d) /\ Gone(n, d) /\ \A c : c # d => (Gone(n, c) <=> Gone(m, c))
  <2>1. \A i \in 1 .. m : i \in 1 .. N /\ i # n
    BY <1>2
  <2>2. /\ n \in 1 .. n /\ \A i \in 1 .. n : i = n \/ i \in 1 .. m
        /\ \A i \in 1 .. m : i \in 1 .. n
    BY <1>2
  <2> QED BY <1>5, <2>1, <2>2
<1>9. /\ o \in ConnType /\ Sound(o) /\ Waits(o) /\ MayShut(o) /\ ~o.freed
      /\ Shut(o) = Down(k)
  BY <1>3, <1>4, DownShape
<1> HIDE DEF a, b, d, m, N, Gone
<1>10. d \in DOMAIN a.conn /\ a.conn[d] = k
  BY <1>3, <1>6, <1>8
<1>11. u = [a EXCEPT !.conn[d].open = FALSE]
  BY <1>6, <1>10 DEF Put, ProxyType
<1> HIDE DEF o
<1>12. Base(u) /\ Changed(a, u, d, o) /\ Around(a, u) /\ u.idle = a.idle
  BY <1>3, <1>6, <1>9, <1>10, PutBase
<1> HIDE DEF u
<1>13. d \in DOMAIN u.conn /\ u.conn[d] = o
  BY <1>10, <1>12 DEF Changed
<1>14. /\ Base(q) /\ Changed(u, q, d, Down(k)) /\ Around(u, q)
       /\ q.idle = basic_dlist_remove(u.idle, d)
  <2>1. ~u.conn[d].freed /\ MayShut(u.conn[d])
    BY <1>9, <1>13
  <2>2. /\ Base(q) /\ Changed(u, q, d, Shut(u.conn[d])) /\ Around(u, q)
        /\ q.idle = IF Waits(u.conn[d]) THEN basic_dlist_remove(u.idle, d) ELSE u.idle
    BY <1>12, <1>13, <2>1, ShutdownDoes
  <2> QED BY <1>9, <1>13, <2>2
<1> HIDE DEF q
<1>15. q.idle = b.idle
  <2> DEFINE l == SubSeq(st.idle, n, N)
  <2>1. /\ l \in Seq(Nat) /\ Len(l) = N - n + 1
        /\ \A x \in 1 .. (N - n + 1) : l[x] = st.idle[n + x - 1]
        /\ RemoveAt(l, 1) = SubSeq(st.idle, n + 1, N)
    BY <1>1, RemovedFirst DEF N
  <2>2. u.idle = l
    BY <1>2, <1>6, <1>12
  <2> HIDE DEF l
  <2>3. DOMAIN l = 1 .. (N - n + 1)
    BY <2>1, LenProperties
  <2>4. 1 \in DOMAIN l /\ l[1] = d
    <3>1. 1 \in 1 .. (N - n + 1) /\ n + 1 - 1 = n
      BY <1>2
    <3> QED BY <2>1, <2>3, <3>1 DEF d
  <2>5. \A i \in DOMAIN l : l[i] = d => i = 1
    <3> SUFFICES ASSUME NEW i \in 1 .. (N - n + 1), l[i] = d PROVE i = 1
      BY <2>3
    <3>1. n + i - 1 \in 1 .. N /\ n \in 1 .. N
      BY <1>2
    <3>2. st.idle[n + i - 1] = st.idle[n]
      BY <2>1 DEF d
    <3>3. n + i - 1 = n
      BY <1>5, <3>1, <3>2
    <3> QED BY <1>2, <3>3
  <2>6. (CHOOSE i \in DOMAIN l : l[i] = d) = 1
    BY <2>4, <2>5
  <2> QED BY <1>7, <1>14, <2>1, <2>2, <2>6 DEF basic_dlist_remove
<1>16. q.conn = b.conn
  <2>1. /\ q.conn \in Seq(ConnType) /\ b.conn \in Seq(ConnType)
        /\ DOMAIN q.conn = 1 .. Len(q.conn) /\ DOMAIN b.conn = 1 .. Len(b.conn)
        /\ Len(q.conn) \in Nat /\ Len(b.conn) \in Nat
    BY <1>7, <1>14, ConnTyped DEF Base
  <2>2. DOMAIN q.conn = DOMAIN st.conn /\ DOMAIN b.conn = DOMAIN st.conn
    BY <1>6, <1>7, <1>12, <1>14 DEF Changed
  <2>3. \A c \in DOMAIN st.conn : q.conn[c] = b.conn[c]
    <3> SUFFICES ASSUME NEW c \in DOMAIN st.conn PROVE q.conn[c] = b.conn[c]
      OBVIOUS
    <3>1. CASE c = d
      BY <1>7, <1>8, <1>14, <3>1 DEF Changed
    <3>2. CASE c # d
      BY <1>6, <1>7, <1>8, <1>12, <1>14, <3>2 DEF Changed
    <3> QED BY <3>1, <3>2
  <2>4. Len(q.conn) = Len(b.conn)
    BY <2>1, <2>2
  <2> QED BY <2>1, <2>2, <2>3, <2>4, SeqEqual
<1>17. Around(q, b)
  BY <1>6, <1>7, <1>12, <1>14 DEF Around
<1>18. q = b
  BY <1>7, <1>14, <1>15, <1>16, <1>17, SameFields DEF Base
<1> QED BY <1>11, <1>18 DEF Round, q, b, a, m, d

(* The loop as a whole. *)
LEMMA CloseIdleDoes ==
  ASSUME NEW st, Base(st)
  PROVE  http_connection_close_idle(st) = Partly(st, Len(st.idle))
<1> DEFINE N == Len(st.idle)
           Is(f) == f = [n \in 0 .. N |-> IF n = 0 THEN st ELSE Round(st, f[n - 1], n)]
           h == CHOOSE f : Is(f)
           g == [n \in 0 .. N |-> Partly(st, n)]
<1>1. st \in ProxyType /\ st.idle \in Seq(Nat) /\ N \in Nat
  BY ConnTyped, LenProperties DEF Base
<1>2. Partly(st, 0) = st
  <2> DEFINE b == Partly(st, 0)
  <2>1. 0 \in 0 .. N
    BY <1>1
  <2>2. /\ b \in ProxyType /\ Base(b) /\ Around(st, b) /\ DOMAIN b.conn = DOMAIN st.conn
        /\ \A c \in DOMAIN st.conn :
             b.conn[c] = IF \E i \in 1 .. 0 : st.idle[i] = c
                         THEN Down(st.conn[c]) ELSE st.conn[c]
        /\ b.idle = SubSeq(st.idle, 0 + 1, N)
    BY <2>1, PartlyDoes
  <2> HIDE DEF b
  <2>3. \A c \in DOMAIN st.conn : b.conn[c] = st.conn[c]
    BY <2>2
  <2>4. b.conn = st.conn
    <3>1. /\ b.conn \in Seq(ConnType) /\ st.conn \in Seq(ConnType)
          /\ Len(b.conn) \in Nat /\ Len(st.conn) \in Nat
          /\ DOMAIN b.conn = 1 .. Len(b.conn) /\ DOMAIN st.conn = 1 .. Len(st.conn)
      BY <1>1, <2>2, ConnTyped
    <3>2. Len(b.conn) = Len(st.conn)
      BY <2>2, <3>1, SameCount
    <3> QED BY <2>3, <3>1, <3>2, SeqEqual
  <2>5. b.idle = st.idle
    <3>1. \A i \in 1 .. N : st.idle[i] \in Nat
      BY <1>1, ElementOfSeq
    <3>2. /\ SubSeq(st.idle, 1, N) \in Seq(Nat)
          /\ Len(SubSeq(st.idle, 1, N)) = (IF 1 <= N THEN N - 1 + 1 ELSE 0)
          /\ \A i \in 1 .. (N - 1 + 1) : SubSeq(st.idle, 1, N)[i] = st.idle[1 + i - 1]
      BY <1>1, <3>1, SubSeqProperties
    <3>3. /\ Len(SubSeq(st.idle, 1, N)) = N
          /\ \A i \in 1 .. N : SubSeq(st.idle, 1, N)[i] = st.idle[i]
      BY <1>1, <3>2
    <3>4. SubSeq(st.idle, 1, N) = st.idle
      BY <1>1, <3>2, <3>3, SeqEqual
    <3> QED BY <2>2, <3>4
  <2>6. Around(b, st)
    BY <2>2 DEF Around
  <2>7. b = st
    BY <1>1, <2>2, <2>4, <2>5, <2>6, SameFields
  <2> QED BY <2>7 DEF b
<1>3. ASSUME NEW n \in 0 .. N, n # 0
      PROVE  /\ n \in 1 .. N /\ n - 1 \in 0 .. N
             /\ Partly(st, n) = Round(st, Partly(st, n - 1), n)
  <2>1. n \in 1 .. N /\ n - 1 \in 0 .. N
    BY <1>1, <1>3
  <2> QED BY <2>1, RoundDoes
<1> HIDE DEF N
<1>4. Is(g)
  <2>1. \A n \in 0 .. N : g[n] = IF n = 0 THEN st ELSE Round(st, g[n - 1], n)
    BY <1>2, <1>3
  <2>2. g = [n \in 0 .. N |-> g[n]]
    OBVIOUS
  <2> HIDE DEF g
  <2>3. [n \in 0 .. N |-> g[n]] =
          [n \in 0 .. N |-> IF n = 0 THEN st ELSE Round(st, g[n - 1], n)]
    BY <2>1
  <2> QED BY <2>2, <2>3
<1>5. Is(h)
  <2> HIDE DEF Is, g
  <2> QED BY <1>4
<1> HIDE DEF h
<1>6. \A n \in 0 .. N : h[n] = IF n = 0 THEN st ELSE Round(st, h[n - 1], n)
  BY <1>5
<1>7. \A n \in 0 .. N : h[n] = Partly(st, n)
  <2> DEFINE T == {n \in 0 .. N : h[n] # Partly(st, n)}
  <2> SUFFICES ASSUME T # {} PROVE FALSE
    OBVIOUS
  <2>1. T \in SUBSET Nat
    BY <1>1
  <2>2. Min(T) \in T /\ \A n \in T : Min(T) <= n
    <3> HIDE DEF T
    <3> QED BY <2>1, LeastNat
  <2>3. PICK n \in 0 .. N : h[n] # Partly(st, n) /\ \A j \in T : n <= j
    BY <2>2
  <2>4. n # 0
    BY <1>2, <1>6, <2>3
  <2>5. n - 1 \in 0 .. N /\ ~(n <= n - 1)
    BY <1>1, <2>4
  <2>6. h[n - 1] = Partly(st, n - 1)
    BY <2>3, <2>5
  <2> QED BY <1>3, <1>6, <2>3, <2>4, <2>6
<1>8. http_connection_close_idle(st) = h[N]
  BY DEF http_connection_close_idle, Round, h, N
<1>9. N \in 0 .. N
  BY <1>1
<1> QED BY <1>7, <1>8, <1>9 DEF N

(* Closing the idle connections disturbs no request. *)
LEMMA CloseIdleStep ==
  ASSUME Inv(p), CloseIdle
  PROVE  Inv(p')
<1> DEFINE N == Len(p.idle)
           Gone(c) == \E i \in 1 .. N : p.idle[i] = c
<1>1. Base(p) /\ p \in ProxyType /\ p.idle \in Seq(Nat) /\ N \in Nat
  BY ConnTyped, LenProperties DEF Inv, Base
<1>2. p' = Partly(p, N)
  BY <1>1, CloseIdleDoes DEF CloseIdle
<1>3. N \in 0 .. N
  BY <1>1
<1>4. /\ Base(p') /\ Around(p, p') /\ DOMAIN p'.conn = DOMAIN p.conn
      /\ \A c \in DOMAIN p.conn :
           p'.conn[c] = IF Gone(c) THEN Down(p.conn[c]) ELSE p.conn[c]
  BY <1>1, <1>2, <1>3, PartlyDoes
<1>5. ASSUME NEW c \in DOMAIN p.conn, Gone(c)
      PROVE  p.conn[c] \in ConnType /\ Sound(p.conn[c]) /\ Waits(p.conn[c])
  <2>1. c \in ToSet(p.idle) /\ c \in Nat
    BY <1>1, <1>5, Elements, ConnTyped
  <2> QED BY <1>1, <2>1, ConnTyped DEF Base, Listed
<1> HIDE DEF Gone
<1>6. ASSUME Undisturbed(p') PROVE Sure(p')
  <2>1. Sure(p)
    BY <1>4, <1>6 DEF Undisturbed, Around, Inv
  <2>2. \A c \in DOMAIN p.conn : Steady(p.conn[c], p'.conn[c])
    <3> SUFFICES ASSUME NEW c \in DOMAIN p.conn PROVE Steady(p.conn[c], p'.conn[c])
      OBVIOUS
    <3>1. CASE Gone(c)
      BY <1>4, <1>5, <2>1, <3>1, DownShape DEF Sure
    <3>2. CASE ~Gone(c)
      BY <1>4, <2>1, <3>2 DEF Sure, Steady
    <3> QED BY <3>1, <3>2
  <2>3. p'.req = p.req /\ p'.faults = p.faults /\ p'.bad = p.bad
    BY <1>4 DEF Around
  <2>4. \A c \in DOMAIN p.conn, r \in Requests :
          Serves(p'.conn[c], r) =>
            Serves(p.conn[c], r) /\ p'.conn[c].answered = p.conn[c].answered
    BY <2>2 DEF Steady
  <2>5. \A c \in DOMAIN p'.conn, r \in Requests :
          Serves(p'.conn[c], r) => ServedBy(p'.conn[c], p'.req[r])
    BY <1>4, <2>1, <2>3, <2>4 DEF Sure, ServedBy
  <2>6. \A c \in DOMAIN p'.conn : Shaped(p'.conn[c])
    BY <1>4, <2>2 DEF Steady
  <2>7. \A c, d \in DOMAIN p'.conn, r \in Requests :
          Serves(p'.conn[c], r) /\ Serves(p'.conn[d], r) => c = d
    BY <1>4, <2>1, <2>4 DEF Sure
  <2> QED BY <2>1, <2>3, <2>5, <2>6, <2>7 DEF Sure
<1> QED BY <1>4, <1>6 DEF Inv

----------------------------------------------------------------------------
(* The theorems. *)

(* No connection and no request yet. *)
LEMMA InitInv == Init => IInv
<1> SUFFICES ASSUME Init PROVE Inv(p)
  BY DEF IInv
<1>1. /\ p.conn = <<>> /\ p.idle = <<>> /\ p.closes = 0 /\ p.faults = {} /\ p.bad = {}
      /\ p.req = [r \in Requests |->
                  [asked |-> FALSE, begun |-> 0, ended |-> 0, gone |-> "no"]]
  BY DEF Init
<1>2. p.req \in [Requests -> ParentType]
  BY <1>1 DEF ParentType
<1>3. p \in ProxyType
  <2>1. /\ <<>> \in Seq(ConnType) /\ <<>> \in Seq(Nat) /\ 0 \in 0 .. MaxClose
    BY ProxyAssumption
  <2> QED BY <1>1, <1>2, <2>1 DEF Init, ProxyType
<1>4. DOMAIN p.conn = {} /\ DOMAIN p.idle = {} /\ ToSet(p.idle) = {}
  BY <1>1 DEF ToSet
<1>5. Base(p)
  BY <1>3, <1>4 DEF Base, Listed, IsInjective
<1>6. Sure(p)
  BY <1>1, <1>4 DEF Sure, Counted
<1> QED BY <1>5, <1>6 DEF Inv

(* Every step of the proxy keeps the inductive invariant. *)
LEMMA NextInv == IInv /\ [Next]_vars => IInv'
<1> SUFFICES ASSUME Inv(p), [Next]_vars PROVE Inv(p')
  BY DEF IInv
<1>1. CASE UNCHANGED vars
  BY <1>1 DEF vars
<1>2. ASSUME NEW r \in Requests, Start(r) PROVE Inv(p')
  BY <1>2, StartStep
<1>3. ASSUME NEW c \in Conns, Connected(c) PROVE Inv(p')
  BY <1>3, ConnectedStep
<1>4. ASSUME NEW c \in Conns, ConnectFails(c) PROVE Inv(p')
  BY <1>4, ConnectFailsStep
<1>5. ASSUME NEW c \in Conns, Sent(c) PROVE Inv(p')
  BY <1>5, SentStep
<1>6. ASSUME NEW c \in Conns, SendFails(c) PROVE Inv(p')
  BY <1>6, SendFailsStep
<1>7. ASSUME NEW c \in Conns, Answer(c) PROVE Inv(p')
  BY <1>7, AnswerStep
<1>8. ASSUME NEW c \in Conns, ReadEnds(c) PROVE Inv(p')
  BY <1>8, ReadEndsStep
<1>9. ASSUME NEW c \in Conns, PipeDone(c) PROVE Inv(p')
  BY <1>9, PipeDoneStep
<1>10. ASSUME NEW c \in Conns, PostDone(c) PROVE Inv(p')
  BY <1>10, PostDoneStep
<1>11. ASSUME NEW c \in Conns, Closed(c) PROVE Inv(p')
  BY <1>11, ClosedStep
<1>12. ASSUME NEW c \in Conns, ServerCloses(c) PROVE Inv(p')
  BY <1>12, ServerClosesStep
<1>13. ASSUME NEW c \in Conns, Garbled(c) PROVE Inv(p')
  BY <1>13, GarbledStep
<1>14. ASSUME NEW c \in Conns, PipeFails(c) PROVE Inv(p')
  BY <1>14, PipeFailsStep
<1>15. ASSUME NEW c \in Conns, RestTaken(c) PROVE Inv(p')
  BY <1>15, RestTakenStep
<1>16. ASSUME NEW c \in Conns, AnswerTaken(c) PROVE Inv(p')
  BY <1>16, AnswerTakenStep
<1>17. ASSUME NEW r \in Requests, ParentClosed(r) PROVE Inv(p')
  BY <1>17, ParentClosedStep
<1>18. CASE CloseIdle
  BY <1>18, CloseIdleStep
<1>19. CASE Done
  BY <1>19 DEF Done
<1> QED
  BY <1>1, <1>2, <1>3, <1>4, <1>5, <1>6, <1>7, <1>8, <1>9, <1>10, <1>11, <1>12,
     <1>13, <1>14, <1>15, <1>16, <1>17, <1>18, <1>19 DEF Next, Progress

(* What the inductive invariant says of the parents. *)
LEMMA InvParent == IInv => ParentAnsweredOnce
BY DEF IInv, Inv, Sure, Counted, ParentAnsweredOnce, Alive

(* What the inductive invariant says of the connections. *)
LEMMA InvConnections == IInv => ConnectionsExact
<1> SUFFICES ASSUME Inv(p) PROVE ConnectionsExact
  BY DEF IInv
<1>1. /\ p \in ProxyType /\ Listed(p) /\ \A c \in Conns : Sound(p.conn[c])
      /\ \A c \in Conns : c \in Nat /\ p.conn[c] \in ConnType
  BY ConnTyped DEF Inv, Base, Conns
<1>2. ASSUME NEW c \in ToSet(p.idle) PROVE c \in Conns /\ Waits(p.conn[c])
  <2>1. p.idle \in Seq(Nat)
    BY <1>1, ConnTyped
  <2>2. c \in Nat
    BY <2>1, Elements
  <2> QED BY <1>1, <2>2 DEF Listed, Conns
<1>3. ASSUME Undisturbed(p)
      PROVE  /\ \A c \in Conns : Shaped(p.conn[c])
             /\ \A c, d \in Conns, r \in Requests :
                  Serves(p.conn[c], r) /\ Serves(p.conn[d], r) => c = d
  BY <1>3 DEF Inv, Sure, Conns
<1>4. ASSUME NEW c \in ToSet(p.idle), Shaped(p.conn[c])
      PROVE  /\ ~p.conn[c].freed /\ ~p.conn[c].closing /\ p.conn[c].parent = NoRequest
             /\ p.conn[c].read = "active" /\ ~p.conn[c].pipe /\ ~p.conn[c].post
  <2>1. /\ Waits(p.conn[c]) /\ Sound(p.conn[c])
    BY <1>1, <1>2
  <2>2. Idle(p.conn[c])
    BY <1>4, <2>1 DEF Waits, Shaped, Connecting, Working, Over, Failed
  <2> QED BY <1>4, <2>1, <2>2 DEF Waits, Sound, Idle
<1>5. ASSUME NEW c \in Conns, Shaped(p.conn[c]), InUse(c), p.conn[c].parent # NoRequest
      PROVE  p.conn[c].parent \in Requests /\ Serves(p.conn[c], p.conn[c].parent)
  <2>1. p.conn[c].parent \in Requests
    BY <1>1, <1>5 DEF ConnType
  <2>2. Connecting(p.conn[c]) \/ Working(p.conn[c])
    BY <1>5 DEF InUse, Shaped, Idle, Over, Failed
  <2> QED BY <2>1, <2>2 DEF Serves
<1>6. ASSUME NEW c \in Conns, Shaped(p.conn[c])
      PROVE  /\ "END" \in p.conn[c].io /\ ~p.conn[c].freed =>
                  p.conn[c].sending \/ p.conn[c].read = "active"
             /\ p.conn[c].freed => ~p.conn[c].sending /\ ~p.conn[c].pipe /\ ~p.conn[c].post
                                   /\ p.conn[c].read # "active"
  BY <1>6 DEF Shaped, Connecting, Working, Idle, Over, Failed
<1>7. ASSUME Undisturbed(p),
             NEW c \in Conns, NEW d \in Conns, InUse(c), InUse(d),
             p.conn[c].parent = p.conn[d].parent, p.conn[c].parent # NoRequest
      PROVE  c = d
  BY <1>3, <1>5, <1>7
<1> QED
  BY <1>1, <1>2, <1>3, <1>4, <1>6, <1>7 DEF ConnectionsExact, TypeOK, Listed

(* The inductive invariant holds in every state the proxy reaches. *)
THEOREM InvariantCorrect == Spec => []IInv
BY InitInv, NextInv, PTL DEF Spec

(* Connections, the idle list and the requests of the proxy have their     *)
(* type, for any set of requests and any number of closing servers. *)
THEOREM TypeCorrect == Spec => []TypeOK
<1>1. IInv => TypeOK
  BY DEF IInv, Inv, Base, TypeOK
<1> QED BY InvariantCorrect, <1>1, PTL

(* The idle list and the flags of the connections agree, no request has    *)
(* two connections, and whoever ends last frees a connection, as           *)
(* http_client_unlink means it. *)
THEOREM ConnectionsCorrect == Spec => []ConnectionsExact
BY InvariantCorrect, InvConnections, PTL

(* A parent is answered once and told of the end once, however often its   *)
(* request was retried, as hin_rproxy_finish and http_client_restart need  *)
(* it. *)
THEOREM ParentCorrect == Spec => []ParentAnsweredOnce
BY InvariantCorrect, InvParent, PTL

=============================================================================
