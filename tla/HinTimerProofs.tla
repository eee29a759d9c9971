--------------------------- MODULE HinTimerProofs ---------------------------
(***************************************************************************)
(* Proofs about HinTimer, for any sets of clients and objects, any         *)
(* configurations and any clock.  The argument has two layers: what        *)
(* removing and inserting do to a list of distinct timers, position by     *)
(* position, and the invariant, which only speaks of membership and order. *)
(***************************************************************************)
EXTENDS HinTimer, SequenceTheorems, FiniteSetTheorems, WellFoundedInduction, TLAPS

Distinct(l) == \A i, j \in 1 .. Len(l) : l[i] = l[j] => i = j

(* x stands at or before y. *)
Before(l, x, y) == \E i, j \in 1 .. Len(l) : i <= j /\ l[i] = x /\ l[j] = y

(* Timers other than t keep their order. *)
OrderKept(s, l, t) ==
  \A x, y \in Timers \ {t} : Before(l, x, y) => Before(s, x, y)

(* What the walk relies on. *)
WalkOK ==
  /\ phase = "none" => elem = None
  /\ tm <= now

(* No timer is armed further ahead than the configuration says. *)
TimeBound == \A t \in Timers : \E d \in delays \cup {Rearm} : time[t] <= now + d

(* During a flush the list is in order, whatever the timeouts are, and the *)
(* clients that wait are still ahead of the walk. *)
FlushOK ==
  phase = "flush" =>
    /\ InOrder(list, time)
    /\ \A c \in Clients : owner[c] = "waits" /\ c \in ToSet(list) =>
         time[c] = 0 /\ elem # None /\ Before(list, elem, c)

IInv == TypeOK /\ ListExact /\ SortedWhenUniform /\ WalkOK /\ TimeBound /\ FlushOK

----------------------------------------------------------------------------
(* Lists: what stands where after a removal or an insertion. *)

(* The elements of a list are what stands at its positions. *)
LEMMA Elements ==
  ASSUME NEW S, NEW l \in Seq(S)
  PROVE  /\ Len(l) \in Nat /\ ToSet(l) \subseteq S
         /\ \A x : x \in ToSet(l) <=> \E i \in 1 .. Len(l) : l[i] = x
         /\ \A i \in 1 .. Len(l) : l[i] \in S /\ l[i] \in ToSet(l)
<1>1. Len(l) \in Nat /\ DOMAIN l = 1 .. Len(l) /\ \A i \in 1 .. Len(l) : l[i] \in S
  BY LenProperties, ElementOfSeq
<1> QED BY <1>1 DEF ToSet

(* RemoveAt, position by position. *)
LEMMA RemovedAt ==
  ASSUME NEW S, NEW l \in Seq(S), NEW i \in 1 .. Len(l)
  PROVE  LET r == RemoveAt(l, i)
         IN  /\ r \in Seq(S) /\ Len(r) = Len(l) - 1
             /\ \A x \in 1 .. (Len(l) - 1) : r[x] = IF x < i THEN l[x] ELSE l[x + 1]
<1> DEFINE n == Len(l)
           a == SubSeq(l, 1, i - 1)
           b == SubSeq(l, i + 1, n)
           r == a \o b
<1>1. n \in Nat /\ i \in Nat /\ i >= 1 /\ i <= n /\ \A x \in 1 .. n : l[x] \in S
  BY LenProperties, ElementOfSeq
<1> HIDE DEF n
<1>2. /\ a \in Seq(S) /\ Len(a) = i - 1 /\ \A x \in 1 .. (i - 1) : a[x] = l[x]
  <2>1. 1 \in Int /\ i - 1 \in Int /\ \A x \in 1 .. (i - 1) : l[x] \in S
    BY <1>1
  <2>2. /\ a \in Seq(S) /\ Len(a) = (IF 1 <= i - 1 THEN i - 1 - 1 + 1 ELSE 0)
        /\ \A x \in 1 .. (i - 1 - 1 + 1) : a[x] = l[1 + x - 1]
    BY <2>1, SubSeqProperties
  <2> QED BY <1>1, <2>2
<1>3. /\ b \in Seq(S) /\ Len(b) = n - i /\ \A x \in 1 .. (n - i) : b[x] = l[i + x]
  <2>1. i + 1 \in Int /\ n \in Int /\ \A x \in (i + 1) .. n : l[x] \in S
    BY <1>1
  <2>2. /\ b \in Seq(S) /\ Len(b) = (IF i + 1 <= n THEN n - (i + 1) + 1 ELSE 0)
        /\ \A x \in 1 .. (n - (i + 1) + 1) : b[x] = l[(i + 1) + x - 1]
    BY <2>1, SubSeqProperties
  <2>3. /\ n - (i + 1) + 1 = n - i /\ (IF i + 1 <= n THEN n - (i + 1) + 1 ELSE 0) = n - i
        /\ \A x \in 1 .. (n - i) : (i + 1) + x - 1 = i + x
    BY <1>1
  <2> QED BY <2>2, <2>3
<1> HIDE DEF a, b
<1>4. /\ r \in Seq(S) /\ Len(r) = Len(a) + Len(b)
      /\ \A x \in 1 .. Len(a) + Len(b) : r[x] = IF x <= Len(a) THEN a[x] ELSE b[x - Len(a)]
  BY <1>2, <1>3, ConcatProperties
<1> HIDE DEF r
<1>5. Len(r) = n - 1
  BY <1>1, <1>2, <1>3, <1>4
<1>6. ASSUME NEW x \in 1 .. (n - 1)
      PROVE  r[x] = IF x < i THEN l[x] ELSE l[x + 1]
  <2>1. r[x] = IF x <= i - 1 THEN a[x] ELSE b[x - (i - 1)]
    BY <1>1, <1>2, <1>3, <1>4
  <2>2. CASE x < i
    BY <1>1, <1>2, <2>1, <2>2
  <2>3. CASE ~ (x < i)
    <3>1. x - (i - 1) \in 1 .. (n - i) /\ i + (x - (i - 1)) = x + 1
      BY <1>1, <2>3
    <3> QED BY <1>1, <1>3, <2>1, <2>3, <3>1
  <2> QED BY <2>2, <2>3
<1> QED BY <1>4, <1>5, <1>6 DEF RemoveAt, r, a, b, n

(* InsertAt, position by position. *)
LEMMA InsertedAt ==
  ASSUME NEW S, NEW l \in Seq(S), NEW k \in 1 .. (Len(l) + 1), NEW e \in S
  PROVE  LET r == InsertAt(l, k, e)
         IN  /\ r \in Seq(S) /\ Len(r) = Len(l) + 1
             /\ \A x \in 1 .. (Len(l) + 1) :
                  r[x] = IF x < k THEN l[x] ELSE IF x = k THEN e ELSE l[x - 1]
<1> DEFINE n == Len(l)
           a == SubSeq(l, 1, k - 1)
           m == <<e>>
           b == SubSeq(l, k, n)
           am == a \o m
           r == am \o b
<1>1. n \in Nat /\ k \in Nat /\ k >= 1 /\ k <= n + 1 /\ \A x \in 1 .. n : l[x] \in S
  BY LenProperties, ElementOfSeq
<1> HIDE DEF n
<1>2. /\ a \in Seq(S) /\ Len(a) = k - 1 /\ \A x \in 1 .. (k - 1) : a[x] = l[x]
  <2>1. 1 \in Int /\ k - 1 \in Int /\ \A x \in 1 .. (k - 1) : l[x] \in S
    BY <1>1
  <2>2. /\ a \in Seq(S) /\ Len(a) = (IF 1 <= k - 1 THEN k - 1 - 1 + 1 ELSE 0)
        /\ \A x \in 1 .. (k - 1 - 1 + 1) : a[x] = l[1 + x - 1]
    BY <2>1, SubSeqProperties
  <2> QED BY <1>1, <2>2
<1>3. /\ b \in Seq(S) /\ Len(b) = n - k + 1
      /\ \A x \in 1 .. (n - k + 1) : b[x] = l[k + x - 1]
  <2>1. k \in Int /\ n \in Int /\ \A x \in k .. n : l[x] \in S
    BY <1>1
  <2>2. /\ b \in Seq(S) /\ Len(b) = (IF k <= n THEN n - k + 1 ELSE 0)
        /\ \A x \in 1 .. (n - k + 1) : b[x] = l[k + x - 1]
    BY <2>1, SubSeqProperties
  <2> QED BY <1>1, <2>2
<1>4. m \in Seq(S) /\ Len(m) = 1 /\ m[1] = e
  OBVIOUS
<1> HIDE DEF a, b, m
<1>5. /\ am \in Seq(S) /\ Len(am) = Len(a) + Len(m)
      /\ \A x \in 1 .. Len(a) + Len(m) : am[x] = IF x <= Len(a) THEN a[x] ELSE m[x - Len(a)]
  BY <1>2, <1>4, ConcatProperties
<1> HIDE DEF am
<1>6. Len(am) = k /\ (\A x \in 1 .. (k - 1) : am[x] = l[x]) /\ am[k] = e
  BY <1>1, <1>2, <1>4, <1>5
<1>7. /\ r \in Seq(S) /\ Len(r) = Len(am) + Len(b)
      /\ \A x \in 1 .. Len(am) + Len(b) : r[x] = IF x <= Len(am) THEN am[x] ELSE b[x - Len(am)]
  BY <1>3, <1>5, ConcatProperties
<1> HIDE DEF r
<1>8. Len(r) = n + 1
  BY <1>1, <1>3, <1>6, <1>7
<1>9. ASSUME NEW x \in 1 .. (n + 1)
      PROVE  r[x] = IF x < k THEN l[x] ELSE IF x = k THEN e ELSE l[x - 1]
  <2>1. r[x] = IF x <= k THEN am[x] ELSE b[x - k]
    BY <1>1, <1>3, <1>6, <1>7
  <2>2. CASE x < k
    BY <1>1, <1>6, <2>1, <2>2
  <2>3. CASE x = k
    BY <1>1, <1>6, <2>1, <2>3
  <2>4. CASE x > k
    <3>1. x - k \in 1 .. (n - k + 1) /\ k + (x - k) - 1 = x - 1
      BY <1>1, <2>4
    <3> QED BY <1>1, <1>3, <2>1, <2>4, <3>1
  <2> QED BY <1>1, <2>2, <2>3, <2>4
<1> QED BY <1>7, <1>8, <1>9 DEF InsertAt, r, am, a, b, m, n

(* A set of numbers that is not empty has a least element ... *)
LEMMA LeastNat ==
  ASSUME NEW T \in SUBSET Nat, T # {}
  PROVE  Min(T) \in T /\ \A m \in T : Min(T) <= m
<1>1. \E n \in T : \A m \in T : ~ (<<m, n>> \in OpToRel(<, Nat))
  BY NatLessThanWellFounded, WFMin
<1>2. PICK n \in T : \A m \in T : ~ (<<m, n>> \in OpToRel(<, Nat))
  BY <1>1
<1>3. \A m \in T : ~ (m < n)
  BY <1>2 DEF OpToRel
<1>4. \E x \in T : \A m \in T : x <= m
  BY <1>3
<1> QED BY <1>4 DEF Min

(* ... and a greatest one when it is bounded. *)
LEMMA GreatestNat ==
  ASSUME NEW n \in Nat, NEW T \in SUBSET (1 .. n), T # {}
  PROVE  Max(T) \in T
<1> DEFINE D == {n - x : x \in T}
           d == Min(D)
<1>1. D \in SUBSET Nat /\ D # {}
  <2>1. \A x \in T : n - x \in Nat
    OBVIOUS
  <2> QED BY <2>1
<1>2. d \in D /\ \A m \in D : d <= m
  BY <1>1, LeastNat
<1>3. PICK x \in T : d = n - x
  BY <1>2
<1>4. \A y \in T : n - x <= n - y
  BY <1>2, <1>3
<1>5. \A y \in T : x >= y
  BY <1>4
<1>6. \E z \in T : \A y \in T : z >= y
  BY <1>5
<1> QED BY <1>6 DEF Max

(* Index finds a timer that is listed. *)
LEMMA IndexFinds ==
  ASSUME NEW l \in Seq(Timers), NEW t \in ToSet(l)
  PROVE  Index(l, t) \in 1 .. Len(l) /\ l[Index(l, t)] = t
<1>1. \E i \in 1 .. Len(l) : l[i] = t
  BY Elements
<1> QED BY <1>1 DEF Index

(* Two places of r are two places of l, in the same order. *)
Sublist(r, l) ==
  \A x, y \in 1 .. Len(r) : x < y =>
    \E i, j \in 1 .. Len(l) : i < j /\ l[i] = r[x] /\ l[j] = r[y]

(* Taking a timer off the list leaves the others, in their order. *)
LEMMA UnlinkedList ==
  ASSUME NEW l \in Seq(Timers), Distinct(l), NEW t \in Timers
  PROVE  LET r == Unlinked(l, t)
         IN  /\ r \in Seq(Timers) /\ Distinct(r) /\ ToSet(r) = ToSet(l) \ {t}
             /\ OrderKept(r, l, t) /\ Sublist(r, l)
<1> DEFINE r == Unlinked(l, t)
<1>1. Len(l) \in Nat
  BY Elements
<1>2. CASE t \notin ToSet(l)
  <2>1. r = l
    BY <1>2 DEF Unlinked
  <2>2. Sublist(l, l)
    BY DEF Sublist
  <2>3. OrderKept(l, l, t)
    BY DEF OrderKept
  <2> QED BY <1>2, <2>1, <2>2, <2>3
<1>3. CASE t \in ToSet(l)
  <2> DEFINE i == Index(l, t)
             n == Len(l)
  <2>1. i \in 1 .. n /\ l[i] = t
    BY <1>3, IndexFinds
  <2>2. r = RemoveAt(l, i)
    BY <1>3 DEF Unlinked
  <2>3. /\ r \in Seq(Timers) /\ Len(r) = n - 1
        /\ \A x \in 1 .. (n - 1) : r[x] = IF x < i THEN l[x] ELSE l[x + 1]
    BY <2>1, <2>2, RemovedAt
  <2> HIDE DEF r, i
  <2> DEFINE at(x) == IF x < i THEN x ELSE x + 1
             from(a) == IF a < i THEN a ELSE a - 1
  <2>4. n \in Nat /\ i \in Nat /\ 1 <= i /\ i <= n
    BY <1>1, <2>1
  <2> HIDE DEF n
  <2>5. \A x \in 1 .. (n - 1) : at(x) \in 1 .. n /\ at(x) # i /\ r[x] = l[at(x)]
    BY <2>3, <2>4
  <2>6. \A x, y \in 1 .. (n - 1) : x < y => at(x) < at(y)
    BY <2>4
  <2>7. \A a \in 1 .. n : a # i => from(a) \in 1 .. (n - 1) /\ at(from(a)) = a
    BY <2>4
  <2>8. \A a, b \in 1 .. n : a # i /\ b # i /\ a <= b => from(a) <= from(b)
    BY <2>4
  <2> HIDE DEF at, from
  <2>9. \A a \in 1 .. n : a # i => r[from(a)] = l[a]
    BY <2>5, <2>7
  <2>10. \A a \in 1 .. n : l[a] = t => a = i
    BY <2>1 DEF Distinct, n
  <2>11. Sublist(r, l)
    BY <2>3, <2>5, <2>6 DEF Sublist, n
  <2>12. Distinct(r)
    <3> SUFFICES ASSUME NEW x \in 1 .. Len(r), NEW y \in 1 .. Len(r), r[x] = r[y], x # y
                 PROVE  FALSE
      BY DEF Distinct
    <3>1. x \in 1 .. (n - 1) /\ y \in 1 .. (n - 1) /\ (x < y \/ y < x)
      BY <2>3, <2>4
    <3>2. at(x) = at(y)
      <4>1. at(x) \in 1 .. Len(l) /\ at(y) \in 1 .. Len(l) /\ l[at(x)] = l[at(y)]
        BY <2>5, <3>1 DEF n
      <4> QED BY <4>1 DEF Distinct
    <3>3. at(x) \in 1 .. n /\ at(y) \in 1 .. n /\ (at(x) < at(y) \/ at(y) < at(x))
      BY <2>5, <2>6, <3>1
    <3> QED BY <2>4, <3>2, <3>3
  <2>13. ToSet(r) = ToSet(l) \ {t}
    <3>1. ASSUME NEW x \in ToSet(r) PROVE x \in ToSet(l) \ {t}
      <4>1. PICK a \in 1 .. (n - 1) : r[a] = x
        BY <2>3, Elements
      <4>2. at(a) \in 1 .. n /\ l[at(a)] = x /\ x # t
        BY <2>5, <2>10, <4>1
      <4> QED BY <4>2, Elements DEF n
    <3>2. ASSUME NEW x \in ToSet(l) \ {t} PROVE x \in ToSet(r)
      <4>1. PICK a \in 1 .. n : l[a] = x
        BY Elements DEF n
      <4>2. from(a) \in 1 .. (n - 1) /\ r[from(a)] = x
        BY <2>1, <2>7, <2>9, <4>1
      <4> QED BY <2>3, <4>2, Elements
    <3> QED BY <3>1, <3>2
  <2>14. OrderKept(r, l, t)
    <3> SUFFICES ASSUME NEW x \in Timers \ {t}, NEW y \in Timers \ {t}, Before(l, x, y)
                 PROVE  Before(r, x, y)
      BY DEF OrderKept
    <3>1. PICK a, b \in 1 .. n : a <= b /\ l[a] = x /\ l[b] = y
      BY DEF Before, n
    <3>2. a # i /\ b # i
      BY <2>1, <3>1
    <3>3. /\ from(a) \in 1 .. Len(r) /\ from(b) \in 1 .. Len(r) /\ from(a) <= from(b)
          /\ r[from(a)] = x /\ r[from(b)] = y
      BY <2>3, <2>7, <2>8, <2>9, <3>1, <3>2
    <3> QED BY <3>3 DEF Before
  <2> QED BY <2>3, <2>11, <2>12, <2>13, <2>14 DEF r
<1> QED BY <1>2, <1>3

(* A list in order stays so without some of its timers. *)
LEMMA SublistOrdered ==
  ASSUME NEW l, NEW r, NEW at, Sublist(r, l), InOrder(l, at)
  PROVE  InOrder(r, at)
<1> SUFFICES ASSUME NEW x \in 1 .. Len(r), NEW y \in 1 .. Len(r), x < y
             PROVE  at[r[x]] <= at[r[y]]
  BY DEF InOrder
<1>1. PICK i, j \in 1 .. Len(l) : i < j /\ l[i] = r[x] /\ l[j] = r[y]
  BY DEF Sublist
<1>2. at[l[i]] <= at[l[j]]
  BY <1>1 DEF InOrder
<1> QED BY <1>1, <1>2

(* Putting a timer on the list leaves the others in their order; the list  *)
(* stays in order when the place fits. *)
LEMMA InsertedList ==
  ASSUME NEW r \in Seq(Timers), Distinct(r), NEW t \in Timers, t \notin ToSet(r),
         NEW k \in 1 .. (Len(r) + 1)
  PROVE  LET s == InsertAt(r, k, t)
         IN  /\ s \in Seq(Timers) /\ Distinct(s) /\ ToSet(s) = ToSet(r) \cup {t}
             /\ \A x, y \in Timers : Before(r, x, y) => Before(s, x, y)
             /\ \A at \in [Timers -> Nat] :
                  /\ InOrder(r, at)
                  /\ \A x \in 1 .. Len(r) : x < k => at[r[x]] <= at[t]
                  /\ \A x \in 1 .. Len(r) : x >= k => at[t] <= at[r[x]]
                  => InOrder(s, at)
<1> DEFINE s == InsertAt(r, k, t)
           n == Len(r)
<1>1. /\ s \in Seq(Timers) /\ Len(s) = n + 1
      /\ \A x \in 1 .. (n + 1) : s[x] = IF x < k THEN r[x] ELSE IF x = k THEN t ELSE r[x - 1]
  BY InsertedAt
<1> HIDE DEF s
<1>2. n \in Nat /\ k \in Nat /\ 1 <= k /\ k <= n + 1
  BY Elements
<1>3. \A x \in 1 .. n : r[x] \in Timers /\ r[x] # t
  BY Elements
<1> HIDE DEF n
<1> DEFINE up(a) == IF a < k THEN a ELSE a + 1
           down(x) == IF x < k THEN x ELSE x - 1
<1>4. \A a \in 1 .. n : up(a) \in 1 .. (n + 1) /\ up(a) # k /\ s[up(a)] = r[a]
  BY <1>1, <1>2
<1>5. \A a, b \in 1 .. n : a <= b => up(a) <= up(b)
  BY <1>2
<1>6. \A x \in 1 .. (n + 1) : x # k =>
        /\ down(x) \in 1 .. n /\ s[x] = r[down(x)]
        /\ (x < k => down(x) < k) /\ (x > k => down(x) >= k)
  BY <1>1, <1>2
<1>7. \A x, y \in 1 .. (n + 1) : x # k /\ y # k /\ x < y => down(x) < down(y)
  BY <1>2
<1>8. \A x, y \in 1 .. (n + 1) : x # k /\ y # k /\ down(x) = down(y) => x = y
  BY <1>2
<1>9. s[k] = t /\ k \in 1 .. (n + 1)
  BY <1>1, <1>2
<1> HIDE DEF up, down
<1>10. Distinct(s)
  <2> SUFFICES ASSUME NEW x \in 1 .. (n + 1), NEW y \in 1 .. (n + 1), s[x] = s[y]
               PROVE  x = y
    BY <1>1 DEF Distinct
  <2>1. CASE x = k /\ y # k
    BY <1>3, <1>6, <1>9, <2>1
  <2>2. CASE x # k /\ y = k
    BY <1>3, <1>6, <1>9, <2>2
  <2>3. CASE x # k /\ y # k
    <3>1. down(x) \in 1 .. n /\ down(y) \in 1 .. n /\ r[down(x)] = r[down(y)]
      BY <1>6, <2>3
    <3>2. down(x) = down(y)
      BY <3>1 DEF Distinct, n
    <3> QED BY <1>8, <2>3, <3>2
  <2> QED BY <2>1, <2>2, <2>3
<1>11. ToSet(s) = ToSet(r) \cup {t}
  <2>1. ASSUME NEW e \in ToSet(s) PROVE e \in ToSet(r) \cup {t}
    <3>1. PICK x \in 1 .. (n + 1) : s[x] = e
      BY <1>1, Elements
    <3>2. CASE x = k
      BY <1>9, <3>1, <3>2
    <3>3. CASE x # k
      <4>1. down(x) \in 1 .. n /\ r[down(x)] = e
        BY <1>6, <3>1, <3>3
      <4> QED BY <4>1, Elements DEF n
    <3> QED BY <3>2, <3>3
  <2>2. ASSUME NEW e \in ToSet(r) \cup {t} PROVE e \in ToSet(s)
    <3>1. CASE e = t
      BY <1>1, <1>9, <3>1, Elements
    <3>2. CASE e # t
      <4>1. PICK a \in 1 .. n : r[a] = e
        BY <3>2, Elements DEF n
      <4>2. up(a) \in 1 .. Len(s) /\ s[up(a)] = e
        BY <1>1, <1>4, <4>1
      <4> QED BY <1>1, <4>2, Elements
    <3> QED BY <3>1, <3>2
  <2> QED BY <2>1, <2>2
<1>12. ASSUME NEW x \in Timers, NEW y \in Timers, Before(r, x, y)
       PROVE  Before(s, x, y)
  <2>1. PICK a, b \in 1 .. n : a <= b /\ r[a] = x /\ r[b] = y
    BY <1>12 DEF Before, n
  <2>2. /\ up(a) \in 1 .. Len(s) /\ up(b) \in 1 .. Len(s) /\ up(a) <= up(b)
        /\ s[up(a)] = x /\ s[up(b)] = y
    BY <1>1, <1>4, <1>5, <2>1
  <2> QED BY <2>2 DEF Before
<1>13. ASSUME NEW at \in [Timers -> Nat], InOrder(r, at),
              \A x \in 1 .. n : x < k => at[r[x]] <= at[t],
              \A x \in 1 .. n : x >= k => at[t] <= at[r[x]]
       PROVE  InOrder(s, at)
  <2> SUFFICES ASSUME NEW x \in 1 .. (n + 1), NEW y \in 1 .. (n + 1), x < y
               PROVE  at[s[x]] <= at[s[y]]
    BY <1>1 DEF InOrder
  <2>1. CASE x # k /\ y # k
    <3>1. /\ down(x) \in 1 .. n /\ down(y) \in 1 .. n /\ down(x) < down(y)
          /\ s[x] = r[down(x)] /\ s[y] = r[down(y)]
      BY <1>6, <1>7, <2>1
    <3> QED BY <1>13, <3>1 DEF InOrder, n
  <2>2. CASE x = k
    <3>1. y > k /\ y # k
      BY <1>2, <2>2
    <3>2. down(y) \in 1 .. n /\ s[y] = r[down(y)] /\ down(y) >= k
      BY <1>6, <3>1
    <3> QED BY <1>9, <1>13, <2>2, <3>2
  <2>3. CASE y = k
    <3>1. x < k /\ x # k
      BY <1>2, <2>3
    <3>2. down(x) \in 1 .. n /\ s[x] = r[down(x)] /\ down(x) < k
      BY <1>6, <3>1
    <3> QED BY <1>9, <1>13, <2>3, <3>2
  <2> QED BY <2>1, <2>2, <2>3
<1> QED BY <1>1, <1>10, <1>11, <1>12, <1>13 DEF s, n

(* InOrder only looks at the times of listed timers. *)
LEMMA SameTimes ==
  ASSUME NEW l \in Seq(Timers), NEW at, NEW at2, InOrder(l, at),
         \A x \in ToSet(l) : at2[x] = at[x]
  PROVE  InOrder(l, at2)
<1> SUFFICES ASSUME NEW i \in 1 .. Len(l), NEW j \in 1 .. Len(l), i < j
             PROVE  at2[l[i]] <= at2[l[j]]
  BY DEF InOrder
<1>1. at[l[i]] <= at[l[j]]
  BY DEF InOrder
<1>2. l[i] \in ToSet(l) /\ l[j] \in ToSet(l)
  BY Elements
<1> QED BY <1>1, <1>2

(* What hin_timer_remove leaves. *)
Removed(q, l, at, t) ==
  /\ q.list \in Seq(Timers) /\ Distinct(q.list) /\ ToSet(q.list) = ToSet(l) \ {t}
  /\ OrderKept(q.list, l, t)
  /\ q.time \in [Timers -> Nat] /\ q.time[t] = 0
  /\ \A x \in Timers \ {t} : q.time[x] = at[x]
  /\ InOrder(l, at) => InOrder(q.list, q.time)

(* hin_timer_remove takes the timer off the list, which stays in order if  *)
(* it was. *)
LEMMA RemoveTimer ==
  ASSUME NEW l \in Seq(Timers), Distinct(l), NEW at \in [Timers -> Nat], NEW t \in Timers
  PROVE  Removed(hin_timer_remove([list |-> l, time |-> at], t), l, at, t)
<1> DEFINE r == Unlinked(l, t)
           at2 == [at EXCEPT ![t] = 0]
           q == hin_timer_remove([list |-> l, time |-> at], t)
<1>1. q.list = r /\ q.time = at2
  BY DEF hin_timer_remove
<1>2. /\ at2 \in [Timers -> Nat] /\ at2[t] = 0 /\ \A x \in Timers \ {t} : at2[x] = at[x]
  OBVIOUS
<1>3. /\ r \in Seq(Timers) /\ Distinct(r) /\ ToSet(r) = ToSet(l) \ {t}
      /\ OrderKept(r, l, t) /\ Sublist(r, l)
  BY UnlinkedList
<1> HIDE DEF r, at2, q
<1>4. InOrder(l, at) => InOrder(r, at2)
  <2> SUFFICES ASSUME InOrder(l, at) PROVE InOrder(r, at2)
    OBVIOUS
  <2>1. InOrder(r, at)
    BY <1>3, SublistOrdered
  <2>2. \A x \in ToSet(r) : at2[x] = at[x]
    BY <1>2, <1>3, Elements
  <2> QED BY <1>3, <2>1, <2>2, SameTimes
<1> QED BY <1>1, <1>2, <1>3, <1>4 DEF q, Removed

(* Moving a timer to another place among the others. *)
LEMMA Placed ==
  ASSUME NEW l \in Seq(Timers), Distinct(l), NEW t \in Timers,
         NEW k \in 1 .. (Len(Unlinked(l, t)) + 1)
  PROVE  LET s == InsertAt(Unlinked(l, t), k, t)
         IN  /\ s \in Seq(Timers) /\ Distinct(s) /\ ToSet(s) = ToSet(l) \cup {t}
             /\ OrderKept(s, l, t)
<1> DEFINE r == Unlinked(l, t)
           s == InsertAt(r, k, t)
<1>1. /\ r \in Seq(Timers) /\ Distinct(r) /\ ToSet(r) = ToSet(l) \ {t}
      /\ OrderKept(r, l, t)
  BY UnlinkedList
<1>2. k \in 1 .. (Len(r) + 1)
  OBVIOUS
<1> HIDE DEF r
<1>3. /\ s \in Seq(Timers) /\ Distinct(s) /\ ToSet(s) = ToSet(r) \cup {t}
      /\ \A x, y \in Timers : Before(r, x, y) => Before(s, x, y)
  BY <1>1, <1>2, InsertedList
<1> HIDE DEF s
<1>4. ToSet(s) = ToSet(l) \cup {t}
  BY <1>1, <1>3
<1>5. OrderKept(s, l, t)
  BY <1>1, <1>3 DEF OrderKept
<1> QED BY <1>3, <1>4, <1>5 DEF s, r

(* What hin_timer_update leaves: t is listed once, at its new time, and the *)
(* other timers keep their order. *)
Moved(q, l, at, t, new) ==
  /\ q.list \in Seq(Timers) /\ Distinct(q.list) /\ ToSet(q.list) = ToSet(l) \cup {t}
  /\ OrderKept(q.list, l, t) /\ q.time = [at EXCEPT ![t] = new]

(* hin_timer_update with a later time: the walk forward finds a place that *)
(* fits when the list is in order (and, for a timer that is not listed,    *)
(* when no time is later). *)
LEMMA LaterTimer ==
  ASSUME NEW l \in Seq(Timers), Distinct(l), NEW at \in [Timers -> Nat], NEW t \in Timers,
         NEW new \in Nat, at[t] < new
  PROVE  LET q == UpdateLater([list |-> l, time |-> at], t, new)
         IN  /\ Moved(q, l, at, t, new)
             /\ InOrder(l, at) /\ (t \notin ToSet(l) => \A x \in ToSet(l) : at[x] <= new)
                  => InOrder(q.list, q.time)
<1> DEFINE r == Unlinked(l, t)
           n == Len(l)
           at2 == [at EXCEPT ![t] = new]
           i == Index(l, t)
           ahead == {j \in 1 .. n : t \in ToSet(l) /\ j > i /\ at[l[j]] >= new}
           k == IF ahead = {} THEN Len(r) + 1 ELSE Min(ahead) - 1
           s == InsertAt(r, k, t)
           q == UpdateLater([list |-> l, time |-> at], t, new)
<1>1. q.list = s /\ q.time = at2
  BY DEF UpdateLater, Listed
<1>2. /\ at2 \in [Timers -> Nat] /\ at2[t] = new /\ \A x \in Timers \ {t} : at2[x] = at[x]
  OBVIOUS
<1>3. /\ r \in Seq(Timers) /\ Distinct(r) /\ ToSet(r) = ToSet(l) \ {t} /\ Sublist(r, l)
      /\ t \notin ToSet(r)
  BY UnlinkedList
<1>4. n \in Nat /\ Len(r) \in Nat
  BY <1>3, Elements
<1>5. ahead \in SUBSET Nat /\ (ahead # {} => t \in ToSet(l))
  BY <1>4
<1>6. ahead # {} => Min(ahead) \in ahead /\ \A m \in ahead : Min(ahead) <= m
  <2> HIDE DEF ahead
  <2> QED BY <1>5, LeastNat
<1>7. t \in ToSet(l) =>
        /\ i \in 1 .. n /\ l[i] = t /\ r = RemoveAt(l, i) /\ Len(r) = n - 1
        /\ \A x \in 1 .. (n - 1) : r[x] = IF x < i THEN l[x] ELSE l[x + 1]
  <2> SUFFICES ASSUME t \in ToSet(l)
               PROVE  /\ i \in 1 .. n /\ l[i] = t /\ r = RemoveAt(l, i) /\ Len(r) = n - 1
                      /\ \A x \in 1 .. (n - 1) : r[x] = IF x < i THEN l[x] ELSE l[x + 1]
    OBVIOUS
  <2>1. i \in 1 .. n /\ l[i] = t /\ r = RemoveAt(l, i)
    BY IndexFinds DEF Unlinked
  <2> HIDE DEF i, r
  <2>2. LET w == RemoveAt(l, i)
        IN  /\ w \in Seq(Timers) /\ Len(w) = n - 1
            /\ \A x \in 1 .. (n - 1) : w[x] = IF x < i THEN l[x] ELSE l[x + 1]
    BY <2>1, RemovedAt
  <2> QED BY <2>1, <2>2
<1>8. k \in 1 .. (Len(r) + 1)
  <2>1. CASE ahead = {}
    BY <1>4, <2>1
  <2>2. CASE ahead # {}
    <3>1. Min(ahead) \in 1 .. n /\ Min(ahead) > i /\ i \in 1 .. n /\ Len(r) = n - 1
      BY <1>5, <1>6, <1>7, <2>2
    <3> QED BY <1>4, <2>2, <3>1
  <2> QED BY <2>1, <2>2
<1>9. /\ s \in Seq(Timers) /\ Distinct(s) /\ ToSet(s) = ToSet(l) \cup {t}
      /\ OrderKept(s, l, t)
  <2> HIDE DEF k
  <2> QED BY <1>8, Placed
<1>10. ASSUME InOrder(l, at), t \notin ToSet(l) => \A x \in ToSet(l) : at[x] <= new
       PROVE  InOrder(s, at2)
  <2>1. InOrder(r, at2)
    <3>1. InOrder(r, at)
      BY <1>3, <1>10, SublistOrdered
    <3>2. \A x \in ToSet(r) : at2[x] = at[x]
      BY <1>2, <1>3, Elements
    <3> HIDE DEF at2, r
    <3> QED BY <1>3, <3>1, <3>2, SameTimes
  <2>2. \A x \in 1 .. Len(r) : r[x] \in Timers \ {t} /\ r[x] \in ToSet(l)
    BY <1>3, Elements
  <2>3. ASSUME NEW x \in 1 .. Len(r)
        PROVE  (x < k => at[r[x]] <= new) /\ (x >= k => new <= at[r[x]])
    <3>1. CASE t \notin ToSet(l)
      <4>1. ahead = {} /\ k = Len(r) + 1
        BY <1>5, <3>1
      <4>2. x < k
        BY <1>4, <4>1
      <4>3. at[r[x]] <= new
        BY <1>10, <2>2, <3>1
      <4> QED BY <1>4, <4>1, <4>2, <4>3
    <3>2. CASE t \in ToSet(l)
      <4> DEFINE y == IF x < i THEN x ELSE x + 1
      <4>1. /\ i \in 1 .. n /\ l[i] = t /\ Len(r) = n - 1 /\ y \in 1 .. n /\ r[x] = l[y]
            /\ i \in Nat /\ x \in Nat /\ y \in Nat /\ l[y] \in Timers
        <5> HIDE DEF i, r, n
        <5>1. i \in 1 .. n /\ l[i] = t /\ Len(r) = n - 1
          BY <1>7, <3>2
        <5>2. x \in 1 .. (n - 1) /\ i \in Nat /\ x \in Nat
          BY <1>4, <5>1
        <5>3. r[x] = IF x < i THEN l[x] ELSE l[x + 1]
          BY <1>7, <3>2, <5>2
        <5>4. y \in 1 .. n /\ y \in Nat
          BY <1>4, <5>1, <5>2
        <5>5. r[x] = l[y]
          BY <5>2, <5>3
        <5>6. l[y] \in Timers
          BY <2>2, <5>5
        <5> QED BY <5>1, <5>2, <5>4, <5>5, <5>6
      <4>2. at[l[y]] \in Nat /\ at[t] \in Nat
        BY <4>1
      <4>3. CASE x < i
        <5>1. at[l[y]] <= at[t]
          BY <1>10, <4>1, <4>3 DEF InOrder
        <5>2. k >= i
          <6>1. CASE ahead = {}
            BY <1>4, <4>1, <6>1
          <6>2. CASE ahead # {}
            <7>1. Min(ahead) \in 1 .. n /\ Min(ahead) > i
              BY <1>6, <6>2
            <7> QED BY <4>1, <6>2, <7>1
          <6> QED BY <6>1, <6>2
        <5>3. k \in Nat
          BY <1>4, <1>8
        <5> HIDE DEF k, ahead, i
        <5>4. x < k
          BY <4>1, <4>3, <5>2, <5>3
        <5>5. at[r[x]] <= new
          BY <4>1, <4>2, <5>1
        <5> QED BY <4>1, <5>3, <5>4, <5>5
      <4>4. CASE x >= i
        <5>1. y = x + 1 /\ y > i
          BY <4>1, <4>4
        <5>2. CASE ahead = {}
          <6>1. y \notin ahead
            BY <5>2
          <6>2. at[l[y]] < new
            BY <3>2, <4>1, <4>2, <5>1, <6>1
          <6>3. x < k
            BY <1>4, <5>2
          <6> HIDE DEF k, y
          <6> QED BY <1>4, <1>8, <4>1, <4>2, <6>2, <6>3
        <5>3. CASE ahead # {}
          <6> DEFINE m == Min(ahead)
          <6>1. m \in ahead /\ m \in 1 .. n /\ m > i /\ at[l[m]] >= new /\ k = m - 1
            BY <1>6, <5>3
          <6>2. \A z \in ahead : m <= z
            BY <1>6, <5>3
          <6> HIDE DEF m, k
          <6>3. ASSUME x < k PROVE at[r[x]] <= new
            <7>1. ~ (m <= y)
              BY <4>1, <5>1, <6>1, <6>3
            <7>2. y \notin ahead
              BY <6>2, <7>1
            <7>3. at[l[y]] < new
              BY <3>2, <4>1, <4>2, <5>1, <7>2
            <7> QED BY <4>1, <4>2, <7>3
          <6>4. ASSUME x >= k PROVE new <= at[r[x]]
            <7>1. m <= y
              <8> HIDE DEF i, y, ahead
              <8>1. m \in Nat /\ m - 1 <= x
                BY <1>4, <6>1, <6>4
              <8> QED BY <4>1, <5>1, <8>1
            <7>2. l[m] \in Timers /\ at[l[m]] \in Nat
              BY <6>1, Elements
            <7>3. at[l[m]] <= at[l[y]]
              <8>1. CASE m = y
                BY <7>2, <8>1
              <8>2. CASE m < y
                BY <1>10, <4>1, <6>1, <8>2 DEF InOrder
              <8> QED BY <4>1, <6>1, <7>1, <8>1, <8>2
            <7> QED BY <4>1, <4>2, <6>1, <7>2, <7>3
          <6> QED BY <6>3, <6>4
        <5> QED BY <5>2, <5>3
      <4> HIDE DEF i
      <4>5. x < i \/ x >= i
        BY <4>1
      <4> QED BY <4>3, <4>4, <4>5
    <3> QED BY <3>1, <3>2
  <2>4. /\ \A x \in 1 .. Len(r) : x < k => at2[r[x]] <= at2[t]
        /\ \A x \in 1 .. Len(r) : x >= k => at2[t] <= at2[r[x]]
    BY <1>2, <2>2, <2>3
  <2> HIDE DEF k, at2, r
  <2> QED BY <1>2, <1>3, <1>8, <2>1, <2>4, InsertedList
<1> HIDE DEF q, s, at2
<1> QED BY <1>1, <1>9, <1>10 DEF q, at2, Moved

(* hin_timer_update with an earlier time. *)
LEMMA EarlierTimer ==
  ASSUME NEW l \in Seq(Timers), Distinct(l), NEW at \in [Timers -> Nat], NEW t \in Timers,
         NEW new \in Nat
  PROVE  Moved(UpdateEarlier([list |-> l, time |-> at], t, new), l, at, t, new)
<1> DEFINE r == Unlinked(l, t)
           n == Len(l)
           i == Index(l, t)
           behind == {j \in 1 .. n : t \in ToSet(l) /\ j < i /\ at[l[j]] <= new}
           k == IF behind = {} THEN 1 ELSE Max(behind) + 1
           s == InsertAt(r, k, t)
           q == UpdateEarlier([list |-> l, time |-> at], t, new)
<1>1. q.list = s /\ q.time = [at EXCEPT ![t] = new]
  BY DEF UpdateEarlier, Listed
<1>2. r \in Seq(Timers) /\ n \in Nat /\ Len(r) \in Nat
  BY UnlinkedList, Elements
<1>3. k \in 1 .. (Len(r) + 1)
  <2>1. CASE behind = {}
    BY <1>2, <2>1
  <2>2. CASE behind # {}
    <3>1. Max(behind) \in behind
      <4>1. behind \in SUBSET (1 .. n)
        OBVIOUS
      <4> HIDE DEF behind, n
      <4> QED BY <1>2, <2>2, <4>1, GreatestNat
    <3>2. Max(behind) \in 1 .. n /\ Max(behind) < i /\ t \in ToSet(l)
      BY <3>1
    <3>3. i \in 1 .. n
      BY <3>2, IndexFinds
    <3>4. Len(r) = n - 1
      <4>1. r = RemoveAt(l, i)
        BY <3>2 DEF Unlinked
      <4> HIDE DEF i, r
      <4> QED BY <3>3, <4>1, RemovedAt
    <3> HIDE DEF i, r, behind, n
    <3> QED BY <1>2, <2>2, <3>2, <3>3, <3>4
  <2> QED BY <2>1, <2>2
<1>4. /\ s \in Seq(Timers) /\ Distinct(s) /\ ToSet(s) = ToSet(l) \cup {t}
      /\ OrderKept(s, l, t)
  <2> HIDE DEF k
  <2> QED BY <1>3, Placed
<1> HIDE DEF q, s
<1> QED BY <1>1, <1>4 DEF q, Moved

(* What hin_timer_update leaves. *)
Updated(q, l, at, t, new) ==
  /\ q.list \in Seq(Timers) /\ Distinct(q.list) /\ ToSet(q.list) = ToSet(l) \cup {t}
  /\ OrderKept(q.list, l, t)
  /\ q.time \in [Timers -> Nat] /\ q.time[t] = new
  /\ \A x \in Timers \ {t} : q.time[x] = at[x]
  /\ /\ InOrder(l, at) /\ at[t] <= new
     /\ t \notin ToSet(l) => \A x \in ToSet(l) : at[x] <= new
     => InOrder(q.list, q.time)

(* hin_timer_update: the timer is listed once, the others keep their       *)
(* order, and a list in order stays so where the code can keep it so. *)
LEMMA UpdateTimer ==
  ASSUME NEW l \in Seq(Timers), Distinct(l), NEW at \in [Timers -> Nat], NEW t \in Timers,
         NEW new \in Nat, at[t] = new => t \in ToSet(l)
  PROVE  Updated(hin_timer_update([list |-> l, time |-> at], t, new), l, at, t, new)
<1> DEFINE in == [list |-> l, time |-> at]
           q == hin_timer_update(in, t, new)
           at2 == [at EXCEPT ![t] = new]
<1>1. at2 \in [Timers -> Nat] /\ at2[t] = new /\ \A x \in Timers \ {t} : at2[x] = at[x]
  OBVIOUS
<1>2. in.list = l /\ in.time = at /\ at[t] \in Nat
  OBVIOUS
<1>3. CASE at[t] = new
  <2>1. q = in
    BY <1>2, <1>3 DEF hin_timer_update
  <2>2. OrderKept(l, l, t)
    BY DEF OrderKept
  <2>3. ToSet(l) = ToSet(l) \cup {t}
    BY <1>3
  <2> HIDE DEF q, in
  <2> QED BY <1>2, <1>3, <2>1, <2>2, <2>3 DEF q, in, Updated
<1>4. CASE at[t] < new
  <2>1. q = UpdateLater(in, t, new)
    BY <1>2, <1>4 DEF hin_timer_update
  <2>2. /\ q.list \in Seq(Timers) /\ Distinct(q.list) /\ ToSet(q.list) = ToSet(l) \cup {t}
        /\ OrderKept(q.list, l, t) /\ q.time = at2
        /\ InOrder(l, at) /\ (t \notin ToSet(l) => \A x \in ToSet(l) : at[x] <= new)
             => InOrder(q.list, q.time)
    <3> DEFINE w == UpdateLater([list |-> l, time |-> at], t, new)
    <3>1. /\ Moved(w, l, at, t, new)
          /\ InOrder(l, at) /\ (t \notin ToSet(l) => \A x \in ToSet(l) : at[x] <= new)
               => InOrder(w.list, w.time)
      BY <1>4, LaterTimer, Zenon
    <3> QED BY <2>1, <3>1, Zenon DEF Moved
  <2> HIDE DEF q, at2
  <2> QED BY <1>1, <2>2 DEF q, Updated
<1>5. CASE at[t] > new
  <2>1. q = UpdateEarlier(in, t, new)
    BY <1>2, <1>5 DEF hin_timer_update
  <2>2. /\ q.list \in Seq(Timers) /\ Distinct(q.list) /\ ToSet(q.list) = ToSet(l) \cup {t}
        /\ OrderKept(q.list, l, t) /\ q.time = at2
    <3>1. Moved(UpdateEarlier([list |-> l, time |-> at], t, new), l, at, t, new)
      BY EarlierTimer, Zenon
    <3> QED BY <2>1, <3>1, Zenon DEF Moved
  <2> HIDE DEF q, at2
  <2>3. ~ (at[t] <= new)
    BY <1>2, <1>5
  <2> QED BY <1>1, <2>2, <2>3 DEF q, Updated
<1> QED BY <1>2, <1>3, <1>4, <1>5

----------------------------------------------------------------------------
(* The invariant. *)

(* One timeout for every timer, not shorter than Rearm. *)
Uniform == Cardinality(delays) = 1 /\ \A d \in delays : d >= Rearm

(* The timeouts are numbers of seconds. *)
LEMMA Delays ==
  ASSUME TypeOK
  PROVE  /\ now \in Nat /\ now >= 1 /\ Rearm \in Nat /\ Rearm >= 1 /\ Rearm <= MaxDelay
         /\ MaxDelay \in Nat /\ MaxTime \in Nat
         /\ \A d \in delays : d \in Nat /\ d >= 1 /\ d <= MaxDelay
         /\ IsFiniteSet(delays)
<1>1. delays \subseteq 1 .. MaxDelay /\ MaxDelay \in Nat /\ MaxTime \in Nat
  BY TimerAssumption DEF TypeOK
<1>2. IsFiniteSet(1 .. MaxDelay)
  BY <1>1, FS_Interval
<1>3. IsFiniteSet(delays)
  BY <1>1, <1>2, FS_Subset
<1> QED BY <1>1, <1>3, TimerAssumption DEF TypeOK

(* With one timeout a timer that is armed now is armed last. *)
LEMMA UniformBound ==
  ASSUME IInv, Uniform, NEW d \in delays
  PROVE  \A x \in Timers : time[x] <= now + d
<1>1. IsFiniteSet(delays) /\ Cardinality(delays) = 1
  BY Delays DEF IInv, Uniform
<1>2. \E x : delays = {x}
  BY <1>1, FS_Singleton
<1>3. delays = {d}
  BY <1>2
<1>4. d >= Rearm /\ d \in Nat /\ Rearm \in Nat /\ now \in Nat
  BY Delays DEF IInv, Uniform
<1> SUFFICES ASSUME NEW x \in Timers PROVE time[x] <= now + d
  OBVIOUS
<1>5. PICK e \in delays \cup {Rearm} : time[x] <= now + e
  BY DEF IInv, TimeBound
<1>6. time[x] \in Nat
  BY DEF IInv, TypeOK
<1> QED BY <1>3, <1>4, <1>5, <1>6

(* The conjuncts of the invariant, put together. *)
LEMMA Assembled ==
  ASSUME IInv, delays' = delays, now' \in 1 .. MaxTime, now' >= now,
         list' \in Seq(Timers), Distinct(list'), time' \in [Timers -> Nat],
         \A t \in Timers : \E d \in delays \cup {Rearm} : time'[t] <= now + d,
         \A t \in Timers : time'[t] # 0 => t \in ToSet(list'),
         owner' \in [Timers -> OwnerState],
         \A t \in ToSet(list') : owner'[t] # "gone",
         Uniform => InOrder(list', time'),
         phase' \in {"none", "check", "flush"},
         elem' = None \/ elem' \in ToSet(list'),
         phase' = "none" => elem' = None,
         tm' \in Nat, tm' <= now',
         FlushOK'
  PROVE  IInv'
<1>1. /\ now \in Nat /\ Rearm \in Nat /\ Rearm <= MaxDelay /\ MaxDelay \in Nat /\ MaxTime \in Nat
      /\ \A d \in delays : d \in Nat /\ d <= MaxDelay
  BY Delays DEF IInv
<1>2. now' \in Nat /\ now' <= MaxTime
  BY <1>1
<1>3. TimeBound'
  <2> SUFFICES ASSUME NEW t \in Timers
               PROVE  \E d \in delays \cup {Rearm} : time'[t] <= now' + d
    BY DEF TimeBound
  <2>1. PICK d \in delays \cup {Rearm} : time'[t] <= now + d
    OBVIOUS
  <2>2. time'[t] \in Nat /\ d \in Nat
    BY <1>1
  <2>3. time'[t] <= now' + d
    BY <1>1, <1>2, <2>1, <2>2
  <2> QED BY <2>3
<1>4. time' \in [Timers -> 0 .. now' + MaxDelay]
  <2> SUFFICES ASSUME NEW t \in Timers PROVE time'[t] \in 0 .. now' + MaxDelay
    OBVIOUS
  <2>1. PICK d \in delays \cup {Rearm} : time'[t] <= now + d
    OBVIOUS
  <2>2. time'[t] \in Nat /\ d \in Nat /\ d <= MaxDelay
    BY <1>1
  <2> QED BY <1>1, <1>2, <2>1, <2>2
<1>5. TypeOK'
  <2>1. ToSet(list') \subseteq Timers
    BY Elements
  <2>2. elem' \in Timers \cup {None}
    BY <2>1
  <2>3. tm' \in 0 .. MaxTime
    BY <1>1, <1>2
  <2>4. delays' \in DelaySets
    BY DEF IInv, TypeOK
  <2> QED BY <1>4, <2>2, <2>3, <2>4 DEF TypeOK
<1>6. ListExact'
  BY DEF ListExact, Distinct
<1>7. SortedWhenUniform'
  <2>1. Uniform' => Uniform
    BY DEF Uniform
  <2> QED BY <2>1 DEF SortedWhenUniform, Uniform
<1>8. WalkOK'
  BY DEF WalkOK
<1> QED BY <1>3, <1>5, <1>6, <1>7, <1>8 DEF IInv

(* What the invariant says of the list and the times. *)
LEMMA Facts ==
  ASSUME IInv
  PROVE  /\ list \in Seq(Timers) /\ Distinct(list) /\ time \in [Timers -> Nat]
         /\ \A t \in Timers : time[t] # 0 => t \in ToSet(list)
         /\ \A t \in ToSet(list) : t \in Timers /\ owner[t] # "gone"
         /\ elem = None \/ elem \in ToSet(list)
         /\ owner \in [Timers -> OwnerState]
         /\ Uniform => InOrder(list, time)
         /\ \A t \in Timers : \E d \in delays \cup {Rearm} : time[t] <= now + d
         /\ now \in 1 .. MaxTime /\ now \in Nat /\ now >= now
         /\ tm \in Nat /\ tm <= now
         /\ phase \in {"none", "check", "flush"}
         /\ phase = "none" => elem = None
<1>1. now \in Nat /\ MaxDelay \in Nat /\ MaxTime \in Nat
  BY Delays DEF IInv
<1>2. time \in [Timers -> Nat]
  <2>1. \A x \in 0 .. now + MaxDelay : x \in Nat
    BY <1>1
  <2> QED BY <2>1 DEF IInv, TypeOK
<1>3. list \in Seq(Timers) /\ ToSet(list) \subseteq Timers
  <2>1. list \in Seq(Timers)
    BY DEF IInv, TypeOK
  <2> QED BY <2>1, Elements
<1>4. now \in 1 .. MaxTime /\ tm \in Nat /\ tm <= now /\ now >= now
  BY <1>1 DEF IInv, TypeOK, WalkOK
<1> QED BY <1>1, <1>2, <1>3, <1>4
        DEF IInv, TypeOK, ListExact, Distinct, SortedWhenUniform, Uniform, WalkOK, TimeBound

(* A handler of the event loop runs between two walks, so the walk's part  *)
(* of the invariant says nothing. *)
LEMMA HandlerStep ==
  ASSUME IInv, Handler, list' \in Seq(Timers), Distinct(list'), time' \in [Timers -> Nat],
         \A t \in Timers : \E d \in delays \cup {Rearm} : time'[t] <= now + d,
         \A t \in Timers : time'[t] # 0 => t \in ToSet(list'),
         owner' \in [Timers -> OwnerState],
         \A t \in ToSet(list') : owner'[t] # "gone",
         Uniform => InOrder(list', time')
  PROVE  IInv'
<1>1. /\ delays' = delays /\ now' = now /\ phase' = "none" /\ elem' = None /\ tm' = tm
  BY Facts DEF Handler
<1>2. now \in 1 .. MaxTime /\ now >= now /\ tm \in Nat /\ tm <= now
  BY Facts
<1>3. FlushOK'
  BY <1>1 DEF FlushOK
<1> QED BY <1>1, <1>2, <1>3, Assembled

(* A handler that leaves the list alone. *)
LEMMA OwnerStep ==
  ASSUME IInv, Handler, UNCHANGED <<list, time>>, owner' \in [Timers -> OwnerState],
         \A t \in ToSet(list) : owner'[t] # "gone"
  PROVE  IInv'
<1>1. list' = list /\ time' = time
  OBVIOUS
<1> QED BY <1>1, Facts, HandlerStep

(* A handler that removes a timer. *)
LEMMA RemoveStep ==
  ASSUME IInv, Handler, NEW t \in Timers, Become(hin_timer_remove(L, t)),
         owner' \in [Timers -> OwnerState], \A x \in Timers \ {t} : owner'[x] = owner[x]
  PROVE  IInv'
<1> DEFINE q == hin_timer_remove([list |-> list, time |-> time], t)
<1>1. /\ list \in Seq(Timers) /\ Distinct(list) /\ time \in [Timers -> Nat]
      /\ \A x \in ToSet(list) : x \in Timers /\ owner[x] # "gone"
      /\ \A x \in Timers : time[x] # 0 => x \in ToSet(list)
      /\ \A x \in Timers : \E d \in delays \cup {Rearm} : time[x] <= now + d
      /\ Uniform => InOrder(list, time)
  BY Facts
<1>2. list' = q.list /\ time' = q.time
  BY DEF Become, L
<1>3. /\ q.list \in Seq(Timers) /\ Distinct(q.list) /\ ToSet(q.list) = ToSet(list) \ {t}
      /\ q.time \in [Timers -> Nat] /\ q.time[t] = 0
      /\ \A x \in Timers \ {t} : q.time[x] = time[x]
      /\ InOrder(list, time) => InOrder(q.list, q.time)
  <2>1. Removed(hin_timer_remove([list |-> list, time |-> time], t), list, time, t)
    BY <1>1, RemoveTimer, Zenon
  <2> QED BY <2>1, Zenon DEF Removed
<1> HIDE DEF q
<1>4. \A x \in Timers : \E d \in delays \cup {Rearm} : time'[x] <= now + d
  <2> SUFFICES ASSUME NEW x \in Timers PROVE \E d \in delays \cup {Rearm} : time'[x] <= now + d
    OBVIOUS
  <2>1. CASE x = t
    <3>1. time'[x] = 0 /\ 0 <= now + Rearm
      BY <1>2, <1>3, <2>1, Delays DEF IInv
    <3> QED BY <3>1
  <2>2. CASE x # t
    BY <1>1, <1>2, <1>3, <2>2
  <2> QED BY <2>1, <2>2
<1>5. /\ list' \in Seq(Timers) /\ Distinct(list') /\ time' \in [Timers -> Nat]
      /\ \A x \in Timers : time'[x] # 0 => x \in ToSet(list')
      /\ \A x \in ToSet(list') : owner'[x] # "gone"
      /\ Uniform => InOrder(list', time')
  BY <1>1, <1>2, <1>3
<1> QED BY <1>4, <1>5, HandlerStep

(* A handler that arms a timer with a timeout of the configuration, where  *)
(* the list is as it was or lacks the timer. *)
LEMMA ArmStep ==
  ASSUME IInv, Handler, NEW t \in Timers, NEW d \in delays,
         NEW l \in Seq(Timers), Distinct(l), NEW at \in [Timers -> Nat],
         ToSet(l) \subseteq ToSet(list), ToSet(list) \subseteq ToSet(l) \cup {t},
         \A x \in Timers \ {t} : at[x] = time[x], at[t] \in {0, time[t]},
         at[t] # 0 => t \in ToSet(l), InOrder(list, time) => InOrder(l, at),
         Become(hin_timer_update([list |-> l, time |-> at], t, now + d)),
         owner' \in [Timers -> OwnerState], owner'[t] # "gone",
         \A x \in Timers \ {t} : owner'[x] = owner[x]
  PROVE  IInv'
<1>1. /\ \A x \in ToSet(list) : x \in Timers /\ owner[x] # "gone"
      /\ \A x \in Timers : time[x] # 0 => x \in ToSet(list)
      /\ \A x \in Timers : \E e \in delays \cup {Rearm} : time[x] <= now + e
      /\ time \in [Timers -> Nat] /\ (Uniform => InOrder(list, time))
  BY Facts
<1>2. PICK new \in Nat : new = now + d /\ new # 0
  <2>1. now \in Nat /\ now >= 1 /\ d \in Nat
    BY Delays DEF IInv
  <2>2. now + d \in Nat /\ now + d # 0
    BY <2>1
  <2> QED BY <2>2
<1> DEFINE q == hin_timer_update([list |-> l, time |-> at], t, new)
<1>3. list' = q.list /\ time' = q.time
  BY <1>2 DEF Become
<1>4. at[t] = new => t \in ToSet(l)
  BY <1>2
<1>5. /\ q.list \in Seq(Timers) /\ Distinct(q.list) /\ ToSet(q.list) = ToSet(l) \cup {t}
      /\ q.time \in [Timers -> Nat] /\ q.time[t] = new
      /\ \A x \in Timers \ {t} : q.time[x] = at[x]
      /\ /\ InOrder(l, at) /\ at[t] <= new
         /\ t \notin ToSet(l) => \A x \in ToSet(l) : at[x] <= new
         => InOrder(q.list, q.time)
  <2>1. Updated(hin_timer_update([list |-> l, time |-> at], t, new), l, at, t, new)
    BY <1>4, UpdateTimer, Zenon
  <2> QED BY <2>1, Zenon DEF Updated
<1> HIDE DEF q
<1>6. ASSUME Uniform PROVE InOrder(list', time')
  <2>1. \A x \in Timers : time[x] <= new
    BY <1>2, <1>6, UniformBound
  <2>2. at[t] <= new /\ \A x \in ToSet(l) : at[x] <= new
    <3>1. at[t] <= new
      BY <1>2, <2>1
    <3>2. ASSUME NEW x \in ToSet(l) PROVE at[x] <= new
      <4>1. x \in Timers
        BY <1>1
      <4> QED BY <2>1, <3>1, <4>1
    <3> QED BY <3>1, <3>2
  <2> QED BY <1>1, <1>3, <1>5, <1>6, <2>2
<1>7. \A x \in Timers : \E e \in delays \cup {Rearm} : time'[x] <= now + e
  <2> SUFFICES ASSUME NEW x \in Timers PROVE \E e \in delays \cup {Rearm} : time'[x] <= now + e
    OBVIOUS
  <2>1. CASE x = t
    <3>1. time'[x] = now + d /\ now + d <= now + d
      BY <1>2, <1>3, <1>5, <2>1
    <3> QED BY <3>1
  <2>2. CASE x # t
    <3>1. time'[x] = time[x]
      BY <1>3, <1>5, <2>2
    <3> QED BY <1>1, <3>1
  <2> QED BY <2>1, <2>2
<1>8. \A x \in Timers : time'[x] # 0 => x \in ToSet(list')
  BY <1>1, <1>3, <1>5
<1>9. \A x \in ToSet(list') : owner'[x] # "gone"
  BY <1>1, <1>3, <1>5
<1>10. list' \in Seq(Timers) /\ Distinct(list') /\ time' \in [Timers -> Nat]
  BY <1>3, <1>5
<1> QED BY <1>6, <1>7, <1>8, <1>9, <1>10, HandlerStep

(* The saved successor is another timer of the list, at or before every    *)
(* timer behind the one visited. *)
LEMMA Successor ==
  ASSUME NEW l \in Seq(Timers), Distinct(l), NEW t \in ToSet(l)
  PROVE  /\ Next1(l, t) = None \/ Next1(l, t) \in ToSet(l) \ {t}
         /\ \A c \in Timers \ {t} : Before(l, t, c) =>
              /\ Next1(l, t) # None /\ Next1(l, t) \in Timers \ {t}
              /\ Before(l, Next1(l, t), c)
<1>1. PICK i \in 1 .. Len(l) : i = Index(l, t) /\ l[i] = t
  BY IndexFinds
<1>2. Len(l) \in Nat /\ \A x \in 1 .. Len(l) : l[x] \in Timers /\ l[x] \in ToSet(l)
  BY Elements
<1>3. Next1(l, t) = IF i < Len(l) THEN l[i + 1] ELSE None
  BY <1>1 DEF Next1
<1>4. i < Len(l) => i + 1 \in 1 .. Len(l) /\ i + 1 # i
  BY <1>2
<1>5. i < Len(l) => l[i + 1] # t
  BY <1>1, <1>4 DEF Distinct
<1>6. ASSUME NEW c \in Timers \ {t}, Before(l, t, c)
      PROVE  /\ Next1(l, t) # None /\ Next1(l, t) \in Timers \ {t}
             /\ Before(l, Next1(l, t), c)
  <2>1. PICK a, b \in 1 .. Len(l) : a <= b /\ l[a] = t /\ l[b] = c
    BY <1>6 DEF Before
  <2>2. a = i
    BY <1>1, <2>1 DEF Distinct
  <2>3. b # i
    BY <1>1, <2>1
  <2>4. i < Len(l) /\ i + 1 <= b
    BY <1>2, <2>1, <2>2, <2>3
  <2>5. Next1(l, t) = l[i + 1] /\ l[i + 1] \in Timers \ {t}
    BY <1>2, <1>3, <1>4, <1>5, <2>4
  <2>6. Next1(l, t) # None
    BY <2>5, TimerAssumption
  <2>7. Before(l, l[i + 1], c)
    BY <1>4, <2>1, <2>4 DEF Before
  <2> QED BY <2>5, <2>6, <2>7
<1> QED BY <1>2, <1>3, <1>4, <1>5, <1>6

(* One turn of the walk: the callback moves or removes the timer visited   *)
(* and leaves the others in their order. *)
LEMMA WalkStep ==
  ASSUME IInv, NEW t \in Timers, phase # "none", elem = t, elem' = Next1(list, t),
         UNCHANGED <<delays, now, phase, tm>>,
         list' \in Seq(Timers), Distinct(list'), OrderKept(list', list, t),
         ToSet(list) \ {t} \subseteq ToSet(list'), ToSet(list') \subseteq ToSet(list),
         time' \in [Timers -> Nat], \A x \in Timers \ {t} : time'[x] = time[x],
         time'[t] <= now + Rearm, time'[t] # 0 => t \in ToSet(list'),
         InOrder(list, time) => InOrder(list', time'),
         owner' \in [Timers -> OwnerState], \A x \in Timers \ {t} : owner'[x] = owner[x],
         t \in ToSet(list') => owner'[t] # "gone",
         t \in ToSet(list') /\ t \in Clients => owner'[t] # "waits"
  PROVE  IInv'
<1>1. /\ list \in Seq(Timers) /\ Distinct(list)
      /\ \A x \in Timers : time[x] # 0 => x \in ToSet(list)
      /\ \A x \in ToSet(list) : x \in Timers /\ owner[x] # "gone"
      /\ Uniform => InOrder(list, time)
      /\ \A x \in Timers : \E d \in delays \cup {Rearm} : time[x] <= now + d
      /\ now \in 1 .. MaxTime /\ now >= now /\ tm \in Nat /\ tm <= now
      /\ phase \in {"none", "check", "flush"}
  BY Facts
<1>2. t \in ToSet(list)
  BY Facts, TimerAssumption
<1>3. /\ elem' = None \/ elem' \in ToSet(list) \ {t}
      /\ \A c \in Timers \ {t} : Before(list, t, c) =>
           elem' # None /\ elem' \in Timers \ {t} /\ Before(list, elem', c)
  BY <1>1, <1>2, Successor
<1>4. elem' = None \/ elem' \in ToSet(list')
  BY <1>3
<1>5. \A x \in Timers : \E d \in delays \cup {Rearm} : time'[x] <= now + d
  <2> SUFFICES ASSUME NEW x \in Timers PROVE \E d \in delays \cup {Rearm} : time'[x] <= now + d
    OBVIOUS
  <2>1. CASE x = t
    BY <2>1
  <2>2. CASE x # t
    <3>1. time'[x] = time[x]
      BY <2>2
    <3> QED BY <1>1, <3>1
  <2> QED BY <2>1, <2>2
<1>6. \A x \in Timers : time'[x] # 0 => x \in ToSet(list')
  <2> SUFFICES ASSUME NEW x \in Timers, x # t, time'[x] # 0 PROVE x \in ToSet(list')
    OBVIOUS
  <2>1. time'[x] = time[x]
    OBVIOUS
  <2> QED BY <1>1, <2>1
<1>7. \A x \in ToSet(list') : owner'[x] # "gone"
  BY <1>1
<1>8. FlushOK'
  <2> SUFFICES ASSUME phase = "flush"
               PROVE  /\ InOrder(list', time')
                      /\ \A c \in Clients : owner'[c] = "waits" /\ c \in ToSet(list') =>
                           time'[c] = 0 /\ elem' # None /\ Before(list', elem', c)
    BY DEF FlushOK
  <2>1. /\ InOrder(list, time)
        /\ \A c \in Clients : owner[c] = "waits" /\ c \in ToSet(list) =>
             time[c] = 0 /\ Before(list, t, c)
    BY DEF IInv, FlushOK
  <2>2. ASSUME NEW c \in Clients, owner'[c] = "waits", c \in ToSet(list')
        PROVE  time'[c] = 0 /\ elem' # None /\ Before(list', elem', c)
    <3>1. c \in Timers \ {t}
      BY <2>2 DEF Timers
    <3>2. owner[c] = "waits" /\ c \in ToSet(list) /\ time'[c] = time[c]
      BY <2>2, <3>1
    <3>3. time[c] = 0 /\ Before(list, t, c)
      BY <2>1, <3>2
    <3>4. elem' # None /\ elem' \in Timers \ {t} /\ Before(list, elem', c)
      BY <1>3, <3>1, <3>3
    <3>5. Before(list', elem', c)
      BY <3>1, <3>4 DEF OrderKept
    <3> QED BY <3>2, <3>3, <3>4, <3>5
  <2> QED BY <2>1, <2>2
<1>9. /\ delays' = delays /\ now' = now /\ phase' = phase /\ tm' = tm
  OBVIOUS
<1>10. /\ now' \in 1 .. MaxTime /\ now' >= now /\ tm' \in Nat /\ tm' <= now'
       /\ phase' \in {"none", "check", "flush"} /\ phase' # "none"
  BY <1>1, <1>9
<1> HIDE DEF FlushOK
<1> QED BY <1>1, <1>4, <1>5, <1>6, <1>7, <1>8, <1>9, <1>10, Assembled

(* A callback that removes the timer visited. *)
LEMMA FireRemoves ==
  ASSUME IInv, NEW t \in Timers, phase # "none", elem = t, elem' = Next1(list, t),
         UNCHANGED <<delays, now, phase, tm>>, Become(hin_timer_remove(L, t)),
         owner' \in [Timers -> OwnerState], \A x \in Timers \ {t} : owner'[x] = owner[x]
  PROVE  IInv'
<1> DEFINE q == hin_timer_remove([list |-> list, time |-> time], t)
<1>1. list \in Seq(Timers) /\ Distinct(list) /\ time \in [Timers -> Nat]
  BY Facts
<1>2. list' = q.list /\ time' = q.time
  BY DEF Become, L
<1>3. Removed(q, list, time, t)
  BY <1>1, RemoveTimer, Zenon
<1> HIDE DEF q
<1>4. /\ list' \in Seq(Timers) /\ Distinct(list') /\ ToSet(list') = ToSet(list) \ {t}
      /\ OrderKept(list', list, t)
      /\ time' \in [Timers -> Nat] /\ time'[t] = 0
      /\ \A x \in Timers \ {t} : time'[x] = time[x]
      /\ InOrder(list, time) => InOrder(list', time')
  BY <1>2, <1>3 DEF Removed
<1>5. 0 <= now + Rearm
  BY Delays DEF IInv
<1> QED BY <1>4, <1>5, WalkStep

(* A callback that re-arms the timer visited. *)
LEMMA FireRearms ==
  ASSUME IInv, NEW t \in Timers, phase # "none", elem = t, elem' = Next1(list, t),
         time[t] <= tm, UNCHANGED <<delays, now, phase, tm, owner>>, owner[t] # "waits",
         LET q == hin_timer_update(L, t, now + Rearm)
         IN  Become(IF q.time[t] <= tm THEN hin_timer_remove(q, t) ELSE q)
  PROVE  IInv'
<1>1. /\ list \in Seq(Timers) /\ Distinct(list) /\ time \in [Timers -> Nat]
      /\ tm \in Nat /\ tm <= now /\ now \in Nat /\ owner \in [Timers -> OwnerState]
      /\ \A x \in ToSet(list) : owner[x] # "gone"
  BY Facts
<1>2. t \in ToSet(list)
  BY Facts, TimerAssumption
<1>3. PICK new \in Nat : new = now + Rearm /\ new > tm /\ time[t] <= new
  <2>1. Rearm \in Nat /\ Rearm >= 1 /\ time[t] \in Nat
    BY <1>1, Delays DEF IInv
  <2>2. now + Rearm \in Nat /\ now + Rearm > tm /\ time[t] <= now + Rearm
    BY <1>1, <2>1
  <2> QED BY <2>2
<1> DEFINE q == hin_timer_update([list |-> list, time |-> time], t, new)
<1>4. Become(IF q.time[t] <= tm THEN hin_timer_remove(q, t) ELSE q)
  BY <1>3 DEF L
<1>5. Updated(q, list, time, t, new)
  BY <1>1, <1>2, UpdateTimer, Zenon
<1> HIDE DEF q
<1>6. q.time[t] = new /\ ~ (q.time[t] <= tm)
  BY <1>1, <1>3, <1>5 DEF Updated
<1>7. list' = q.list /\ time' = q.time
  BY <1>4, <1>6 DEF Become
<1>8. /\ list' \in Seq(Timers) /\ Distinct(list') /\ ToSet(list') = ToSet(list)
      /\ OrderKept(list', list, t)
      /\ time' \in [Timers -> Nat] /\ time'[t] = new
      /\ \A x \in Timers \ {t} : time'[x] = time[x]
      /\ InOrder(list, time) => InOrder(list', time')
  BY <1>2, <1>3, <1>5, <1>7 DEF Updated
<1>9. time'[t] <= now + Rearm
  BY <1>3, <1>8
<1>10. owner' = owner
  OBVIOUS
<1> QED BY <1>1, <1>2, <1>8, <1>9, <1>10, WalkStep

(* A callback that leaves the timer where it is. *)
LEMMA FireKeeps ==
  ASSUME IInv, NEW t \in Timers, phase # "none", elem = t, elem' = Next1(list, t),
         t \notin Clients, UNCHANGED <<delays, now, phase, tm, list, time, owner>>,
         time[t] <= tm
  PROVE  IInv'
<1>1. /\ list \in Seq(Timers) /\ Distinct(list) /\ time \in [Timers -> Nat]
      /\ owner \in [Timers -> OwnerState] /\ tm \in Nat /\ tm <= now /\ now \in Nat
      /\ \A x \in ToSet(list) : owner[x] # "gone"
      /\ time[t] # 0 => t \in ToSet(list)
  BY Facts
<1>2. OrderKept(list, list, t)
  BY DEF OrderKept
<1>3. time[t] <= now + Rearm
  <2>1. Rearm \in Nat /\ time[t] \in Nat
    BY <1>1, Delays DEF IInv
  <2> QED BY <1>1, <2>1
<1>4. list' = list /\ time' = time /\ owner' = owner
  OBVIOUS
<1> QED BY <1>1, <1>2, <1>3, <1>4, WalkStep

(* One turn of hin_timer_check's loop. *)
LEMMA FireStep ==
  ASSUME IInv, NEW t \in Timers, Fire(t)
  PROVE  IInv'
<1>1. /\ phase # "none" /\ elem = t /\ elem' = Next1(list, t) /\ time[t] <= tm
      /\ UNCHANGED <<delays, now, phase, tm>>
  BY DEF Fire
<1>2. owner \in [Timers -> OwnerState]
  BY Facts
<1>3. CASE t \in Clients
  <2>1. httpd_timeout_callback(t)
    BY <1>3 DEF Fire
  <2>2. CASE /\ owner' = [owner EXCEPT ![t] = "closing"]
             /\ Become(hin_timer_remove(L, t))
    <3>1. owner' \in [Timers -> OwnerState] /\ \A x \in Timers \ {t} : owner'[x] = owner[x]
      BY <1>2, <2>2 DEF OwnerState
    <3> QED BY <1>1, <2>2, <3>1, FireRemoves
  <2>3. CASE /\ owner[t] # "waits" /\ UNCHANGED owner
             /\ LET q == hin_timer_update(L, t, now + Rearm)
                IN  Become(IF q.time[t] <= tm THEN hin_timer_remove(q, t) ELSE q)
    BY <1>1, <2>3, FireRearms
  <2> QED BY <2>1, <2>2, <2>3 DEF httpd_timeout_callback
<1>4. CASE t \in Objects
  <2>1. hin_cache_timeout_callback(t)
    BY <1>4 DEF Fire
  <2>2. CASE /\ owner' = [owner EXCEPT ![t] = "gone"]
             /\ Become(hin_timer_remove(L, t))
    <3>1. owner' \in [Timers -> OwnerState] /\ \A x \in Timers \ {t} : owner'[x] = owner[x]
      BY <1>2, <2>2 DEF OwnerState
    <3> QED BY <1>1, <2>2, <3>1, FireRemoves
  <2>3. CASE UNCHANGED <<list, time, owner>>
    <3>1. t \notin Clients
      BY <1>4, TimerAssumption
    <3> QED BY <1>1, <2>3, <3>1, FireKeeps
  <2> QED BY <2>1, <2>2, <2>3 DEF hin_cache_timeout_callback
<1> QED BY <1>3, <1>4 DEF Timers

(* A walk begins at the head of the list; a flush also makes every timer   *)
(* due, so the whole list is ahead of it and in order. *)
LEMMA WalkBegins ==
  ASSUME IInv, phase = "none", hin_timer_check \/ hin_timer_flush
  PROVE  IInv'
<1>1. /\ list \in Seq(Timers) /\ Distinct(list) /\ time \in [Timers -> Nat]
      /\ \A t \in Timers : time[t] # 0 => t \in ToSet(list)
      /\ \A t \in ToSet(list) : t \in Timers /\ owner[t] # "gone"
      /\ owner \in [Timers -> OwnerState]
      /\ Uniform => InOrder(list, time)
      /\ \A t \in Timers : \E d \in delays \cup {Rearm} : time[t] <= now + d
      /\ now \in 1 .. MaxTime /\ now \in Nat /\ now >= now
  BY Facts
<1>2. /\ delays' = delays /\ now' = now /\ list' = list /\ owner' = owner /\ tm' = now
      /\ elem' = IF list = <<>> THEN None ELSE list[1]
  BY DEF hin_timer_check, hin_timer_flush
<1>3. /\ Len(list) \in Nat /\ (list # <<>> => 1 \in 1 .. Len(list))
      /\ \A x : x \in ToSet(list) <=> \E i \in 1 .. Len(list) : list[i] = x
      /\ \A i \in 1 .. Len(list) : list[i] \in Timers /\ list[i] \in ToSet(list)
  <2>1. list # <<>> => Len(list) > 0 /\ Len(list) \in Nat
    BY <1>1, EmptySeq, LenProperties
  <2> QED BY <1>1, <2>1, Elements
<1>4. elem' = None \/ elem' \in ToSet(list')
  BY <1>2, <1>3
<1>5. CASE hin_timer_check
  <2>1. phase' = "check" /\ time' = time
    BY <1>5 DEF hin_timer_check
  <2>2. FlushOK'
    BY <2>1 DEF FlushOK
  <2> QED BY <1>1, <1>2, <1>4, <2>1, <2>2, Assembled
<1>6. CASE hin_timer_flush
  <2>1. phase' = "flush" /\ time' = [t \in Timers |-> 0]
    BY <1>6 DEF hin_timer_flush
  <2>2. time' \in [Timers -> Nat] /\ \A t \in Timers : time'[t] = 0
    BY <2>1
  <2>3. InOrder(list', time')
    BY <1>2, <1>3, <2>2 DEF InOrder
  <2>4. \A t \in Timers : \E d \in delays \cup {Rearm} : time'[t] <= now + d
    <3>1. 0 <= now + Rearm
      BY Delays DEF IInv
    <3> QED BY <2>2, <3>1
  <2>5. FlushOK'
    <3>1. ASSUME NEW c \in Clients, c \in ToSet(list')
          PROVE  time'[c] = 0 /\ elem' # None /\ Before(list', elem', c)
      <4>1. PICK i \in 1 .. Len(list) : list[i] = c
        BY <1>2, <1>3, <3>1
      <4>2. 1 \in 1 .. Len(list) /\ 1 <= i
        BY <1>3
      <4>3. list # <<>>
        <5> SUFFICES ASSUME list = <<>> PROVE FALSE
          OBVIOUS
        <5>1. Len(list) = 0
          BY EmptySeq
        <5> QED BY <4>2, <5>1
      <4>4. elem' = list[1] /\ elem' # None
        BY <1>2, <1>3, <4>2, <4>3, TimerAssumption
      <4>5. Before(list', elem', c)
        BY <1>2, <4>1, <4>2, <4>4 DEF Before
      <4>6. c \in Timers
        BY DEF Timers
      <4> QED BY <2>2, <4>4, <4>5, <4>6
    <3> QED BY <2>3, <3>1 DEF FlushOK
  <2> QED BY <1>1, <1>2, <1>4, <2>1, <2>2, <2>3, <2>4, <2>5, Assembled
<1> QED BY <1>5, <1>6

(* The handlers of an httpd client. *)
LEMMA ClientStep ==
  ASSUME IInv, NEW c \in Clients,
         \/ Answer(c) \/ Shutdown(c) \/ Closed(c)
         \/ \E d \in delays : httpd_client_ping(c, d) \/ NextRequest(c, d)
  PROVE  IInv'
<1>1. /\ list \in Seq(Timers) /\ Distinct(list) /\ time \in [Timers -> Nat]
      /\ \A t \in Timers : time[t] # 0 => t \in ToSet(list)
      /\ \A t \in ToSet(list) : t \in Timers /\ owner[t] # "gone"
      /\ owner \in [Timers -> OwnerState] /\ c \in Timers
  BY Facts DEF Timers
<1>2. CASE Answer(c) \/ Shutdown(c)
  <2>1. /\ Handler /\ UNCHANGED <<list, time>>
        /\ \E s \in {"busy", "closing"} : owner' = [owner EXCEPT ![c] = s]
    BY <1>2 DEF Answer, Shutdown
  <2>2. owner' \in [Timers -> OwnerState] /\ \A t \in ToSet(list) : owner'[t] # "gone"
    BY <1>1, <2>1 DEF OwnerState
  <2> QED BY <2>1, <2>2, OwnerStep
<1>3. CASE Closed(c)
  <2>1. Handler /\ Become(hin_timer_remove(L, c)) /\ owner' = [owner EXCEPT ![c] = "gone"]
    BY <1>3 DEF Closed
  <2>2. owner' \in [Timers -> OwnerState] /\ \A x \in Timers \ {c} : owner'[x] = owner[x]
    BY <1>1, <2>1 DEF OwnerState
  <2> QED BY <1>1, <2>1, <2>2, RemoveStep
<1>4. ASSUME NEW d \in delays, httpd_client_ping(c, d) PROVE IInv'
  <2>1. /\ Handler /\ Become(hin_timer_update([list |-> list, time |-> time], c, now + d))
        /\ owner' = [owner EXCEPT ![c] = IF owner[c] = "gone" THEN "waits" ELSE owner[c]]
    BY <1>4 DEF httpd_client_ping, L
  <2>2. /\ owner' \in [Timers -> OwnerState] /\ owner'[c] # "gone"
        /\ \A x \in Timers \ {c} : owner'[x] = owner[x]
    BY <1>1, <2>1 DEF OwnerState
  <2>3. time[c] \in {0, time[c]} /\ ToSet(list) \subseteq ToSet(list) \cup {c}
    OBVIOUS
  <2> QED BY <1>1, <2>1, <2>2, <2>3, ArmStep
<1>5. ASSUME NEW d \in delays, NextRequest(c, d) PROVE IInv'
  <2> DEFINE l == Unlinked(list, c)
             at == [time EXCEPT ![c] = 0]
  <2>1. hin_timer_remove(L, c) = [list |-> l, time |-> at]
    BY DEF hin_timer_remove, L
  <2>2. /\ Handler /\ Become(hin_timer_update([list |-> l, time |-> at], c, now + d))
        /\ owner' = [owner EXCEPT ![c] = "waits"]
    BY <1>5, <2>1 DEF NextRequest
  <2>3. Removed([list |-> l, time |-> at], list, time, c)
    <3>1. Removed(hin_timer_remove([list |-> list, time |-> time], c), list, time, c)
      BY <1>1, RemoveTimer, Zenon
    <3> QED BY <2>1, <3>1 DEF L
  <2> HIDE DEF l, at
  <2>4. /\ l \in Seq(Timers) /\ Distinct(l) /\ ToSet(l) = ToSet(list) \ {c}
        /\ at \in [Timers -> Nat] /\ at[c] = 0 /\ \A x \in Timers \ {c} : at[x] = time[x]
        /\ InOrder(list, time) => InOrder(l, at)
    BY <2>3 DEF Removed
  <2>5. /\ owner' \in [Timers -> OwnerState] /\ owner'[c] # "gone"
        /\ \A x \in Timers \ {c} : owner'[x] = owner[x]
    BY <1>1, <2>2 DEF OwnerState
  <2>6. /\ ToSet(l) \subseteq ToSet(list) /\ ToSet(list) \subseteq ToSet(l) \cup {c}
        /\ at[c] \in {0, time[c]} /\ (at[c] # 0 => c \in ToSet(l))
    BY <2>4
  <2> QED BY <1>1, <2>2, <2>4, <2>5, <2>6, ArmStep
<1> QED BY <1>2, <1>3, <1>4, <1>5

(* The handlers of a cached object. *)
LEMMA ObjectStep ==
  ASSUME IInv, NEW o \in Objects, Use(o) \/ \E d \in delays : Save(o, d)
  PROVE  IInv'
<1>1. /\ list \in Seq(Timers) /\ Distinct(list) /\ time \in [Timers -> Nat]
      /\ \A t \in Timers : time[t] # 0 => t \in ToSet(list)
      /\ \A t \in ToSet(list) : t \in Timers /\ owner[t] # "gone"
      /\ owner \in [Timers -> OwnerState] /\ o \in Timers
  BY Facts DEF Timers
<1>2. ASSUME Use(o) PROVE IInv'
  <2>1. Handler
    BY <1>2 DEF Use
  <2>2. CASE /\ owner' = [owner EXCEPT ![o] = IF owner[o] = "busy" THEN "waits" ELSE "busy"]
             /\ UNCHANGED <<list, time>>
    <3>1. owner' \in [Timers -> OwnerState] /\ \A t \in ToSet(list) : owner'[t] # "gone"
      BY <1>1, <2>2 DEF OwnerState
    <3> QED BY <2>1, <2>2, <3>1, OwnerStep
  <2>3. CASE owner' = [owner EXCEPT ![o] = "gone"] /\ Become(hin_timer_remove(L, o))
    <3>1. owner' \in [Timers -> OwnerState] /\ \A x \in Timers \ {o} : owner'[x] = owner[x]
      BY <1>1, <2>3 DEF OwnerState
    <3> QED BY <1>1, <2>1, <2>3, <3>1, RemoveStep
  <2> QED BY <1>2, <2>2, <2>3 DEF Use
<1>3. ASSUME NEW d \in delays, Save(o, d) PROVE IInv'
  <2>1. /\ Handler /\ Become(hin_timer_update([list |-> list, time |-> time], o, now + d))
        /\ owner' = [owner EXCEPT ![o] = "busy"]
    BY <1>3 DEF Save, L
  <2>2. /\ owner' \in [Timers -> OwnerState] /\ owner'[o] # "gone"
        /\ \A x \in Timers \ {o} : owner'[x] = owner[x]
    BY <1>1, <2>1 DEF OwnerState
  <2>3. time[o] \in {0, time[o]} /\ ToSet(list) \subseteq ToSet(list) \cup {o}
    OBVIOUS
  <2> QED BY <1>1, <2>1, <2>2, <2>3, ArmStep
<1> QED BY <1>2, <1>3

(* The invariant holds at the start ... *)
LEMMA InitInv ==
  ASSUME Init
  PROVE  IInv
<1>1. /\ delays \in DelaySets /\ now = 1 /\ list = <<>> /\ phase = "none" /\ elem = None
      /\ tm = 0 /\ time = [t \in Timers |-> 0] /\ owner = [t \in Timers |-> "gone"]
  BY DEF Init
<1>2. list \in Seq(Timers) /\ Len(list) = 0 /\ ToSet(list) = {}
  <2>1. list \in Seq(Timers) /\ Len(list) = 0
    BY <1>1, EmptySeq
  <2>2. \A x : x \in ToSet(list) => \E i \in 1 .. 0 : list[i] = x
    BY <2>1, Elements
  <2> QED BY <2>1, <2>2
<1>3. MaxTime \in Nat /\ MaxTime >= 1 /\ MaxDelay \in Nat /\ Rearm \in Nat
  BY TimerAssumption
<1>4. TypeOK
  <2>1. now \in 1 .. MaxTime /\ tm \in 0 .. MaxTime /\ 0 \in 0 .. now + MaxDelay
    BY <1>1, <1>3
  <2> QED BY <1>1, <1>2, <2>1 DEF TypeOK, OwnerState
<1>5. ListExact
  BY <1>1, <1>2 DEF ListExact
<1>6. SortedWhenUniform
  BY <1>2 DEF SortedWhenUniform, InOrder
<1>7. WalkOK /\ FlushOK
  BY <1>1 DEF WalkOK, FlushOK
<1>8. TimeBound
  <2>1. \A t \in Timers : time[t] = 0
    BY <1>1
  <2>2. 0 <= now + Rearm
    BY <1>1, <1>3
  <2> QED BY <2>1, <2>2 DEF TimeBound
<1> QED BY <1>4, <1>5, <1>6, <1>7, <1>8 DEF IInv

(* ... and every step keeps it. *)
LEMMA NextInv ==
  ASSUME IInv, [Next]_vars
  PROVE  IInv'
<1>1. CASE UNCHANGED vars
  BY <1>1 DEF vars, IInv, TypeOK, ListExact, SortedWhenUniform, WalkOK, TimeBound, FlushOK
<1>2. CASE Tick
  <2>1. /\ now < MaxTime /\ now' = now + 1
        /\ UNCHANGED <<delays, list, time, owner, phase, elem, tm>>
    BY <1>2 DEF Tick
  <2>2. now' \in 1 .. MaxTime /\ now' >= now /\ tm <= now'
    BY <2>1, Facts, Delays DEF IInv
  <2>3. FlushOK'
    BY <2>1 DEF FlushOK, IInv
  <2> QED BY <2>1, <2>2, <2>3, Facts, Assembled
<1>3. CASE hin_timer_check \/ hin_timer_flush
  BY <1>3, WalkBegins DEF hin_timer_check, hin_timer_flush
<1>4. CASE Stop
  <2>1. /\ phase' = "none" /\ elem' = None /\ tm' = 0
        /\ UNCHANGED <<delays, now, list, time, owner>>
    BY <1>4 DEF Stop
  <2>2. now' \in 1 .. MaxTime /\ now' >= now /\ tm' \in Nat /\ tm' <= now'
    BY <2>1, Facts
  <2>3. FlushOK'
    BY <2>1 DEF FlushOK
  <2> QED BY <2>1, <2>2, <2>3, Facts, Assembled
<1>5. ASSUME NEW c \in Clients,
             \/ Answer(c) \/ Shutdown(c) \/ Closed(c)
             \/ \E d \in delays : httpd_client_ping(c, d) \/ NextRequest(c, d)
      PROVE  IInv'
  BY <1>5, ClientStep
<1>6. ASSUME NEW o \in Objects, Use(o) \/ \E d \in delays : Save(o, d)
      PROVE  IInv'
  BY <1>6, ObjectStep
<1>7. ASSUME NEW t \in Timers, Fire(t)
      PROVE  IInv'
  BY <1>7, FireStep
<1> QED BY <1>1, <1>2, <1>3, <1>4, <1>5, <1>6, <1>7 DEF Next

(* A flush ends with no waiting client listed: the timers are in order     *)
(* while it runs, and those of waiting clients, all due, are behind the    *)
(* saved successor. *)
LEMMA FlushEnds ==
  ASSUME IInv, [Next]_vars, phase = "flush", phase' = "none",
         NEW c \in Clients, owner[c] = "waits"
  PROVE  c \notin ToSet(list)
<1> SUFFICES ASSUME c \in ToSet(list) PROVE FALSE
  OBVIOUS
<1>1. Stop
  BY DEF Next, vars, Tick, hin_timer_check, hin_timer_flush, Answer, Shutdown, Closed,
         httpd_client_ping, NextRequest, Use, Save, Handler, Fire
<1>2. InOrder(list, time) /\ time[c] = 0 /\ elem # None /\ Before(list, elem, c)
  BY DEF IInv, FlushOK
<1>3. time[elem] > tm /\ tm \in Nat
  BY <1>1, <1>2, Facts DEF Stop
<1>4. PICK i, j \in 1 .. Len(list) : i <= j /\ list[i] = elem /\ list[j] = c
  BY <1>2 DEF Before
<1>5. time[elem] \in Nat /\ Len(list) \in Nat
  BY <1>2, Facts, Elements
<1>6. CASE i = j
  BY <1>2, <1>3, <1>4, <1>5, <1>6
<1>7. CASE i < j
  <2>1. time[elem] <= time[c]
    BY <1>2, <1>4, <1>7 DEF InOrder
  <2> QED BY <1>2, <1>3, <1>5, <2>1
<1> QED BY <1>4, <1>5, <1>6, <1>7

----------------------------------------------------------------------------
(* The invariant holds in every reachable state. *)
THEOREM InvariantCorrect == Spec => []IInv
<1>1. Init => IInv
  BY InitInv
<1>2. IInv /\ [Next]_vars => IInv'
  BY NextInv
<1> QED BY <1>1, <1>2, PTL DEF Spec

(* No timer is armed further ahead than the longest timeout. *)
THEOREM TypeCorrect == Spec => []TypeOK
<1>1. IInv => TypeOK
  BY DEF IInv
<1> QED BY <1>1, InvariantCorrect, PTL

(* The list of system/timing.c holds each armed timer once and none of a   *)
(* freed client or object, and hin_timer_check's saved successor stays on  *)
(* it whatever a callback does. *)
THEOREM ListCorrect == Spec => []ListExact
<1>1. IInv => ListExact
  BY DEF IInv
<1> QED BY <1>1, InvariantCorrect, PTL

(* With one timeout, not shorter than the re-arm of a busy client, the     *)
(* list is in order of time, so hin_timer_check misses no timer. *)
THEOREM SortedCorrect == Spec => []SortedWhenUniform
<1>1. IInv => SortedWhenUniform
  BY DEF IInv
<1> QED BY <1>1, InvariantCorrect, PTL

(* hin_timer_flush leaves no waiting client on the list, with any number   *)
(* of timeouts. *)
THEOREM FlushCorrect == Spec => FlushVisitsAll
<1> DEFINE Visits == phase = "flush" /\ phase' = "none" =>
                       \A c \in Clients : owner[c] = "waits" => c \notin ToSet(list)
<1>1. IInv /\ [Next]_vars => [Visits]_vars
  BY FlushEnds
<1> QED BY <1>1, InvariantCorrect, PTL DEF Spec, FlushVisitsAll
=============================================================================
