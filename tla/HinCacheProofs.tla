-------------------------- MODULE HinCacheProofs --------------------------
(***************************************************************************)
(* Proofs about HinCache, for any keys and objects, any finite set of      *)
(* requests and any sizes, without the faults that the runs expecting a    *)
(* violation are about.                                                    *)
(***************************************************************************)
EXTENDS HinCache, FiniteSetTheorems, TLAPS

(* The table leads to live objects under their own key; the error callback *)
(* takes an object out of it. *)
Listed ==
  \A k \in Keys : ht[k] # None =>
    /\ item[ht[k]].state = "live" /\ item[ht[k]].key = k
    /\ "ERROR" \notin item[ht[k]].flags

TableRef(i) == IF HasTableRef(i) THEN 1 ELSE 0

(* The object i, according to where it is in its life. *)
UnusedOK(i) == item[i].state = "unused" => item[i] = Unused /\ Sent(i) = {}

FreedOK(i) ==
  item[i].state = "freed" =>
    /\ Sent(i) = {} /\ item[i].queue = {} /\ item[i].fill = "none"
    /\ ~ item[i].timer

LiveOK(i) ==
  item[i].state = "live" =>
    /\ item[i].key \in Keys
    /\ item[i].ref > 0
    /\ item[i].ref = TableRef(i) + Cardinality(item[i].queue) + Cardinality(Sent(i))
    /\ "DONE" \in item[i].flags => item[i].timer

(* A pipe fills an object that is in the table until it fails, and that    *)
(* the client it was made for waits for. *)
FillOK(i) ==
  /\ item[i].fill = "running" =>
       /\ item[i].state = "live" /\ item[i].flags = {} /\ item[i].timer
       /\ item[i].queue # {} /\ ht[item[i].key] = i
  /\ item[i].fill = "drains" =>
       /\ item[i].state = "live" /\ item[i].flags = {"ERROR"} /\ item[i].timer
       /\ item[i].queue = {} /\ ht[item[i].key] # i
  /\ item[i].size = IF "DONE" \in item[i].flags THEN ObjSize ELSE 0

(* The clients in the queue of an object.  (That of an object whose file   *)
(* could not be opened, without a timer, keeps a client that was answered  *)
(* directly.) *)
QueueOK(i) ==
  \A r \in item[i].queue :
    /\ req[r] \notin {"idle", "miss"}
    /\ item[i].timer => req[r] = "queued" /\ of[r].item = i

ItemOK(i) == UnusedOK(i) /\ FreedOK(i) /\ LiveOK(i) /\ FillOK(i) /\ QueueOK(i)

RequestOK(r) ==
  /\ req[r] = "sent" => of[r].item \in Items
  /\ req[r] # "idle" => of[r].key \in Keys

(* The keys whose object is complete. *)
DoneKeys == {k \in Keys : ht[k] # None /\ "DONE" \in item[ht[k]].flags}

IInv == /\ TypeOK
        /\ Listed
        /\ \A i \in Items : ItemOK(i)
        /\ \A r \in Requests : RequestOK(r)
        /\ IsFiniteSet(DoneKeys)
        /\ StoreExact

----------------------------------------------------------------------------
(* The queue of an object and the clients being sent it can be counted. *)
LEMMA Finite ==
  ASSUME TypeOK, NEW i \in Items
  PROVE  /\ IsFiniteSet(item[i].queue) /\ Cardinality(item[i].queue) \in Nat
         /\ IsFiniteSet(Sent(i)) /\ Cardinality(Sent(i)) \in Nat
         /\ Cardinality(item[i].queue) = 0 <=> item[i].queue = {}
         /\ Cardinality(Sent(i)) = 0 <=> Sent(i) = {}
<1>1. item[i].queue \in SUBSET Requests /\ Sent(i) \in SUBSET Requests
  BY DEF TypeOK, ItemType, Sent
<1>2. IsFiniteSet(item[i].queue) /\ IsFiniteSet(Sent(i))
  BY <1>1, FS_Subset, CacheAssumption
<1> QED BY <1>2, FS_CardinalityType, FS_EmptySet

(* A step keeps what it does not touch: the object j, the clients that     *)
(* refer to it and its place in the table. *)
LEMMA Frame ==
  ASSUME NEW j \in Items, ItemOK(j),
         item'[j] = item[j], Sent(j)' = Sent(j),
         item[j].key \in Keys => (ht'[item[j].key] = j <=> ht[item[j].key] = j),
         \A r \in item[j].queue :
           \/ req'[r] = req[r] /\ of'[r] = of[r]
           \/ ~ item[j].timer /\ req'[r] \notin {"idle", "miss"}
  PROVE  ItemOK(j)'
<1>1. UnusedOK(j)' /\ FreedOK(j)'
  BY DEF ItemOK, UnusedOK, FreedOK
<1>2. item[j].state = "live" => TableRef(j)' = TableRef(j)
  BY DEF ItemOK, LiveOK, TableRef, HasTableRef
<1>3. LiveOK(j)'
  BY <1>2 DEF ItemOK, LiveOK
<1>4. FillOK(j)'
  BY DEF ItemOK, LiveOK, FillOK
<1>5. QueueOK(j)'
  BY DEF ItemOK, QueueOK
<1> QED BY <1>1, <1>3, <1>4, <1>5 DEF ItemOK

(* What an action does to an object is said field by field. *)
SameBut(o, x, fields) ==
  /\ "state" \in fields \/ x.state = o.state
  /\ "ref" \in fields \/ x.ref = o.ref
  /\ "queue" \in fields \/ x.queue = o.queue
  /\ "flags" \in fields \/ x.flags = o.flags
  /\ "size" \in fields \/ x.size = o.size
  /\ "timer" \in fields \/ x.timer = o.timer
  /\ "fill" \in fields \/ x.fill = o.fill
  /\ x.key = o.key

(* A step that changes neither the table nor the listed objects' flags     *)
(* keeps the books of the store. *)
LEMMA StoreFrame ==
  ASSUME IInv, store, UNCHANGED <<store, ht, size>>,
         \A k \in Keys : ht[k] # None =>
           /\ item'[ht[k]].state = item[ht[k]].state
           /\ item'[ht[k]].key = item[ht[k]].key
           /\ item'[ht[k]].flags = item[ht[k]].flags
  PROVE  Listed' /\ IsFiniteSet(DoneKeys)' /\ StoreExact'
<1>1. Listed'
  BY DEF IInv, Listed
<1>2. DoneKeys' = DoneKeys
  BY DEF DoneKeys
<1>3. SizeExact' /\ CleanFreesAll'
  BY <1>2 DEF IInv, StoreExact, SizeExact, CleanFreesAll, DoneKeys
<1> QED BY <1>1, <1>2, <1>3 DEF IInv, StoreExact

(* Nothing is in the store when the program starts. *)
LEMMA InitInv == Init => IInv
<1> SUFFICES ASSUME Init PROVE IInv
  OBVIOUS
<1>1. TypeOK
  BY CacheAssumption DEF Init, TypeOK, ItemType, Unused
<1>2. Listed
  BY DEF Init, Listed
<1>3. \A i \in Items : ItemOK(i)
  BY DEF Init, ItemOK, UnusedOK, FreedOK, LiveOK, FillOK, QueueOK, Unused, Sent
<1>4. \A r \in Requests : RequestOK(r)
  BY DEF Init, RequestOK
<1>5. DoneKeys = {}
  BY DEF Init, DoneKeys
<1>6. IsFiniteSet(DoneKeys) /\ SizeExact
  <2>1. Cardinality(DoneKeys) = 0 /\ IsFiniteSet(DoneKeys)
    BY <1>5, FS_EmptySet
  <2> QED BY <2>1, CacheAssumption DEF SizeExact, DoneKeys, Init
<1>7. CleanFreesAll
  BY DEF Init, CleanFreesAll
<1> QED BY <1>1, <1>2, <1>3, <1>4, <1>6, <1>7 DEF IInv, StoreExact

(* hin_cache_check: a hit takes a reference for the client it is sent to. *)
LEMMA CheckInv ==
  ASSUME IInv, Faults = {}, NEW r \in Requests, NEW k \in Keys,
         hin_cache_check(r, k)
  PROVE  IInv'
<1> USE DEF IInv
<1>1. /\ store /\ store' = store /\ req[r] = "idle" /\ ht' = ht /\ size' = size
      /\ of' = [of EXCEPT ![r] = [key |-> k, item |-> ht[k]]]
  BY DEF hin_cache_check, Serving
<1>2. \A j \in Items : r \notin item[j].queue /\ r \notin Sent(j)
  BY <1>1 DEF ItemOK, QueueOK, Sent
<1>3. CASE ht[k] = None
  <2>1. item' = item /\ req' = [req EXCEPT ![r] = "miss"]
    BY <1>3 DEF hin_cache_check
  <2>2. \A j \in Items : Sent(j)' = Sent(j)
    BY <1>1, <1>2, <2>1 DEF Sent, TypeOK
  <2>3. \A j \in Items : \A q \in item[j].queue : req'[q] = req[q] /\ of'[q] = of[q]
    BY <1>1, <1>2, <2>1 DEF TypeOK, ItemType
  <2>4. \A j \in Items : ItemOK(j)'
    BY <1>1, <2>1, <2>2, <2>3, Frame
  <2>5. TypeOK'
    BY <1>1, <2>1, <1>3 DEF TypeOK
  <2>6. \A q \in Requests : RequestOK(q)'
    BY <1>1, <2>1 DEF RequestOK, TypeOK
  <2>7. Listed' /\ IsFiniteSet(DoneKeys)' /\ StoreExact'
    BY <1>1, <2>1 DEF Listed, DoneKeys, StoreExact, SizeExact, CleanFreesAll
  <2> QED BY <2>4, <2>5, <2>6, <2>7
<1>4. CASE ht[k] # None
  <2>0. PICK i \in Items : i = ht[k]
    BY <1>4 DEF TypeOK
  <2> DEFINE x == [item[i] EXCEPT !.ref = @ + 1]
  <2>1. i \in Items /\ item[i] \in ItemType
    BY DEF TypeOK
  <2>2. /\ req' = [req EXCEPT ![r] = "sent"]
        /\ item' = [item EXCEPT ![i] = x]
    BY <1>4, <2>0 DEF hin_cache_check, Served
  <2>3. item[i].state = "live" /\ item[i].key = k /\ "ERROR" \notin item[i].flags
    BY <1>4, <2>0 DEF Listed
  <2>4. x \in ItemType /\ SameBut(item[i], x, {"ref"}) /\ x.ref = item[i].ref + 1
    BY <2>1 DEF ItemType, SameBut
  <2> HIDE DEF x
  <2>5. item' \in [Items -> ItemType] /\ item'[i] = x /\ \A j \in Items \ {i} : item'[j] = item[j]
    BY <2>1, <2>2, <2>4 DEF TypeOK
  <2>6. TypeOK'
    BY <1>1, <2>0, <2>2, <2>5 DEF TypeOK
  <2>7. Listed' /\ IsFiniteSet(DoneKeys)' /\ StoreExact'
    BY <1>1, <2>4, <2>5, StoreFrame DEF SameBut, TypeOK
  <2>8. \A q \in Requests : RequestOK(q)'
    BY <1>1, <2>0, <2>2 DEF RequestOK, TypeOK
  <2>9. Sent(i)' = Sent(i) \cup {r} /\ \A j \in Items \ {i} : Sent(j)' = Sent(j)
    BY <1>1, <1>2, <2>0, <2>2 DEF Sent, TypeOK
  <2>10. \A j \in Items : \A q \in item[j].queue : req'[q] = req[q] /\ of'[q] = of[q]
    BY <1>1, <1>2, <2>2 DEF TypeOK, ItemType
  <2>11. \A j \in Items \ {i} : ItemOK(j)'
    BY <1>1, <2>5, <2>9, <2>10, Frame
  <2>12. ItemOK(i)'
    <3>1. Cardinality(Sent(i)') = Cardinality(Sent(i)) + 1
      BY <1>2, <2>1, <2>9, Finite, FS_AddElement
    <3>2. TableRef(i)' = TableRef(i)
      BY <1>1, <2>4, <2>5 DEF TableRef, HasTableRef, SameBut
    <3>3. UnusedOK(i)' /\ FreedOK(i)'
      BY <2>3, <2>4, <2>5 DEF UnusedOK, FreedOK, SameBut
    <3>4. LiveOK(i)'
      <4>1. Cardinality(item[i].queue) \in Nat /\ Cardinality(Sent(i)) \in Nat
        BY <2>1, Finite
      <4>2. LiveOK(i) /\ item[i].ref \in Nat
        BY <2>1 DEF ItemOK, ItemType
      <4> QED BY <2>3, <2>4, <2>5, <3>1, <3>2, <4>1, <4>2 DEF LiveOK, SameBut, TableRef
    <3>5. FillOK(i)' /\ QueueOK(i)'
      BY <1>1, <2>1, <2>4, <2>5, <2>10 DEF ItemOK, FillOK, QueueOK, SameBut
    <3> QED BY <3>3, <3>4, <3>5 DEF ItemOK
  <2> QED BY <2>6, <2>7, <2>8, <2>11, <2>12
<1> QED BY <1>3, <1>4

(* hin_cache_save with a full store: the client is sent the output. *)
LEMMA SaveFullInv ==
  ASSUME IInv, NEW r \in Requests, SaveFull(r)
  PROVE  IInv'
<1> USE DEF IInv
<1>1. /\ store /\ UNCHANGED <<store, ht, item, size, of>> /\ req[r] = "miss"
      /\ req' = [req EXCEPT ![r] = "direct"]
  BY DEF SaveFull, Serving
<1>2. \A j \in Items : r \notin item[j].queue
  BY <1>1 DEF ItemOK, QueueOK
<1>3. \A j \in Items : Sent(j)' = Sent(j)
  BY <1>1 DEF Sent, TypeOK
<1>4. \A j \in Items : \A q \in item[j].queue : req'[q] = req[q] /\ of'[q] = of[q]
  BY <1>1, <1>2 DEF TypeOK, ItemType
<1>5. \A j \in Items : ItemOK(j)'
  BY <1>1, <1>3, <1>4, Frame
<1>6. TypeOK'
  BY <1>1 DEF TypeOK
<1>7. \A q \in Requests : RequestOK(q)'
  BY <1>1 DEF RequestOK, TypeOK
<1>8. Listed' /\ IsFiniteSet(DoneKeys)' /\ StoreExact'
  BY <1>1, StoreFrame
<1> QED BY <1>5, <1>6, <1>7, <1>8

(* hin_cache_save that finds an object under its key: the client joins the *)
(* queue, with a reference. *)
LEMMA SaveJoinInv ==
  ASSUME IInv, NEW r \in Requests, SaveJoin(r)
  PROVE  IInv'
<1> USE DEF IInv
<1>1. /\ store /\ UNCHANGED <<store, ht, size>> /\ req[r] = "miss"
      /\ req' = [req EXCEPT ![r] = "queued"]
      /\ of[r].key \in Keys /\ ht[of[r].key] # None
  BY DEF SaveJoin, Serving, RequestOK
<1>2. PICK i \in Items : i = ht[of[r].key]
  BY <1>1 DEF TypeOK
<1> DEFINE x == [item[i] EXCEPT !.queue = @ \cup {r}, !.ref = @ + 1]
<1>3. item[i] \in ItemType
  BY DEF TypeOK
<1>4. item' = [item EXCEPT ![i] = x] /\ of' = [of EXCEPT ![r].item = i]
  BY <1>2 DEF SaveJoin, TypeOK
<1>5. \A j \in Items : r \notin item[j].queue
  BY <1>1 DEF ItemOK, QueueOK
<1>6. item[i].state = "live" /\ item[i].key = of[r].key /\ "ERROR" \notin item[i].flags
  BY <1>1, <1>2 DEF Listed
<1>7. /\ x \in ItemType /\ SameBut(item[i], x, {"ref", "queue"})
      /\ x.ref = item[i].ref + 1 /\ x.queue = item[i].queue \cup {r}
  <2>1. item[i].queue \cup {r} \in SUBSET Requests /\ item[i].ref + 1 \in Nat
    BY <1>3 DEF ItemType
  <2>2. x \in ItemType
    BY <1>3, <2>1 DEF ItemType
  <2> QED BY <1>3, <2>2 DEF ItemType, SameBut
<1> HIDE DEF x
<1>8. item' \in [Items -> ItemType] /\ item'[i] = x /\ \A j \in Items \ {i} : item'[j] = item[j]
  BY <1>4, <1>7 DEF TypeOK
<1>9. of' \in [Requests -> [key : Keys \cup {None}, item : Items \cup {None}]]
  BY <1>4 DEF TypeOK
<1>10. TypeOK'
  BY <1>1, <1>8, <1>9 DEF TypeOK
<1>11. Listed' /\ IsFiniteSet(DoneKeys)' /\ StoreExact'
  BY <1>1, <1>7, <1>8, StoreFrame DEF SameBut, TypeOK
<1>12. /\ of'[r].key = of[r].key /\ of'[r].item = i /\ req'[r] = "queued"
       /\ \A q \in Requests \ {r} : of'[q] = of[q] /\ req'[q] = req[q]
  BY <1>1, <1>4 DEF TypeOK
<1>13. \A q \in Requests : RequestOK(q)'
  BY <1>1, <1>12 DEF RequestOK
<1>14. \A j \in Items : Sent(j)' = Sent(j)
  BY <1>1, <1>12 DEF Sent
<1>15. \A j \in Items : \A q \in item[j].queue : req'[q] = req[q] /\ of'[q] = of[q]
  BY <1>5, <1>12 DEF TypeOK, ItemType
<1>16. \A j \in Items \ {i} : ItemOK(j)'
  BY <1>1, <1>8, <1>14, <1>15, Frame
<1>17. ItemOK(i)'
  <2>1. Cardinality(item'[i].queue) = Cardinality(item[i].queue) + 1
    BY <1>5, <1>7, <1>8, Finite, FS_AddElement
  <2>2. TableRef(i)' = TableRef(i)
    BY <1>1, <1>7, <1>8 DEF TableRef, HasTableRef, SameBut
  <2>3. UnusedOK(i)' /\ FreedOK(i)'
    BY <1>6, <1>7, <1>8 DEF UnusedOK, FreedOK, SameBut
  <2>4. LiveOK(i)'
    <3>1. Cardinality(item[i].queue) \in Nat /\ Cardinality(Sent(i)) \in Nat
      BY Finite
    <3>2. LiveOK(i) /\ item[i].ref \in Nat
      BY <1>3 DEF ItemOK, ItemType
    <3> QED BY <1>6, <1>7, <1>8, <1>14, <2>1, <2>2, <3>1, <3>2
          DEF LiveOK, SameBut, TableRef
  <2>5. FillOK(i)'
    <3>1. /\ item'[i].state = item[i].state /\ item'[i].key = item[i].key
          /\ item'[i].flags = item[i].flags /\ item'[i].fill = item[i].fill
          /\ item'[i].timer = item[i].timer /\ item'[i].size = item[i].size
          /\ item'[i].queue # {}
      BY <1>7, <1>8 DEF SameBut
    <3>2. FillOK(i) /\ item[i].fill # "drains" /\ ht' = ht
      BY <1>1, <1>6 DEF ItemOK, FillOK
    <3> QED BY <3>1, <3>2 DEF FillOK
  <2>6. QueueOK(i)'
    BY <1>7, <1>8, <1>12, <1>15 DEF ItemOK, QueueOK, SameBut
  <2> QED BY <2>3, <2>4, <2>5, <2>6 DEF ItemOK
<1> QED BY <1>10, <1>11, <1>13, <1>16, <1>17

(* hin_cache_save that makes an object i, filled by a pipe or, when openat *)
(* fails, left unfilled: the table and the client refer to it. *)
LEMMA SaveMakesInv ==
  ASSUME IInv, NEW r \in Requests, NEW i \in Items, NEW x \in ItemType,
         store, UNCHANGED <<store, size>>,
         req[r] = "miss", ht[of[r].key] = None, item[i].state = "unused",
         ht' = [ht EXCEPT ![of[r].key] = i], item' = [item EXCEPT ![i] = x],
         x.state = "live", x.key = of[r].key, x.ref = 2, x.queue = {r},
         x.flags = {}, x.size = 0,
         \/ /\ req' = [req EXCEPT ![r] = "queued"] /\ of' = [of EXCEPT ![r].item = i]
            /\ x.timer /\ x.fill = "running"
         \/ /\ req' = [req EXCEPT ![r] = "direct"] /\ of' = of
            /\ ~ x.timer /\ x.fill = "none"
  PROVE  IInv'
<1> USE DEF IInv
<1>1. of[r].key \in Keys
  BY DEF RequestOK
<1>2. PICK k \in Keys : k = of[r].key
  BY <1>1
<1>3. /\ item' \in [Items -> ItemType] /\ item'[i] = x
      /\ \A j \in Items \ {i} : item'[j] = item[j]
  BY DEF TypeOK
<1>4. ht'[k] = i /\ ht[k] = None /\ \A l \in Keys \ {k} : ht'[l] = ht[l] /\ ht[l] # i
  BY <1>2, CacheAssumption DEF TypeOK, Listed
<1>5. \A j \in Items : r \notin item[j].queue
  BY DEF ItemOK, QueueOK
<1>6. of' \in [Requests -> [key : Keys \cup {None}, item : Items \cup {None}]]
  BY DEF TypeOK
<1>7. TypeOK'
  BY <1>1, <1>3, <1>6 DEF TypeOK
<1>8. /\ of'[r].key = k /\ req'[r] \in {"queued", "direct"}
      /\ \A q \in Requests \ {r} : of'[q] = of[q] /\ req'[q] = req[q]
  BY <1>2 DEF TypeOK
<1>9. x.timer => req'[r] = "queued" /\ of'[r].item = i
  BY DEF TypeOK
<1>10. Listed'
  BY <1>2, <1>3, <1>4 DEF Listed, TypeOK
<1>11. DoneKeys' = DoneKeys
  BY <1>3, <1>4 DEF DoneKeys, TypeOK
<1>12. StoreExact'
  BY <1>11 DEF StoreExact, SizeExact, CleanFreesAll, DoneKeys
<1>13. \A q \in Requests : RequestOK(q)'
  BY <1>8 DEF RequestOK
<1>14. \A j \in Items : Sent(j)' = Sent(j)
  BY <1>8 DEF Sent
<1>15. \A j \in Items : \A q \in item[j].queue : req'[q] = req[q] /\ of'[q] = of[q]
  BY <1>5, <1>8 DEF TypeOK, ItemType
<1>16. \A j \in Items \ {i} : ItemOK(j)'
  <2> SUFFICES ASSUME NEW j \in Items \ {i} PROVE ItemOK(j)'
    OBVIOUS
  <2>1. item[j].key \in Keys => (ht'[item[j].key] = j <=> ht[item[j].key] = j)
    BY <1>4, CacheAssumption
  <2> QED BY <1>3, <1>14, <1>15, <2>1, Frame
<1>17. ItemOK(i)'
  <2>1. Sent(i)' = {}
    BY <1>14 DEF ItemOK, UnusedOK
  <2>2. Cardinality(item'[i].queue) = 1 /\ Cardinality(Sent(i)') = 0
    <3>1. item'[i].queue = {r}
      BY <1>3
    <3>2. Cardinality({r}) = 1
      BY FS_Singleton
    <3> QED BY <2>1, <3>1, <3>2, FS_EmptySet
  <2>3. TableRef(i)' = 1
    BY <1>2, <1>3, <1>4 DEF TableRef, HasTableRef
  <2>4. UnusedOK(i)' /\ FreedOK(i)'
    BY <1>3 DEF UnusedOK, FreedOK
  <2>5. LiveOK(i)'
    BY <1>2, <1>3, <2>2, <2>3 DEF LiveOK
  <2>6. FillOK(i)'
    BY <1>2, <1>3, <1>4 DEF FillOK
  <2>7. QueueOK(i)'
    BY <1>3, <1>8, <1>9 DEF QueueOK
  <2> QED BY <2>4, <2>5, <2>6, <2>7 DEF ItemOK
<1> QED BY <1>7, <1>10, <1>11, <1>12, <1>13, <1>16, <1>17

(* The two outcomes of openat in hin_cache_save. *)
LEMMA SaveNewInv ==
  ASSUME IInv, NEW r \in Requests, NEW i \in Items,
         SaveNew(r, i) \/ SaveOpenFails(r, i)
  PROVE  IInv'
<1>1. of[r].key \in Keys
  BY DEF IInv, RequestOK, SaveNew, SaveOpenFails
<1>2. CASE SaveNew(r, i)
  <2> DEFINE x == [Unused EXCEPT
       !.state = "live", !.key = of[r].key, !.ref = 2, !.queue = {r},
       !.timer = TRUE, !.fill = "running"]
  <2>1. /\ x \in ItemType /\ x.state = "live" /\ x.key = of[r].key /\ x.ref = 2
        /\ x.queue = {r} /\ x.flags = {} /\ x.size = 0 /\ x.timer /\ x.fill = "running"
    BY <1>1 DEF Unused, ItemType
  <2>2. item' = [item EXCEPT ![i] = x]
    BY <1>2 DEF SaveNew
  <2> HIDE DEF x
  <2> QED BY <1>2, <2>1, <2>2, SaveMakesInv DEF SaveNew, Serving
<1>3. CASE SaveOpenFails(r, i)
  <2> DEFINE x == [Unused EXCEPT
       !.state = "live", !.key = of[r].key, !.ref = 2, !.queue = {r}]
  <2>1. /\ x \in ItemType /\ x.state = "live" /\ x.key = of[r].key /\ x.ref = 2
        /\ x.queue = {r} /\ x.flags = {} /\ x.size = 0 /\ ~ x.timer /\ x.fill = "none"
    BY <1>1 DEF Unused, ItemType
  <2>2. item' = [item EXCEPT ![i] = x]
    BY <1>3 DEF SaveOpenFails
  <2> HIDE DEF x
  <2> QED BY <1>3, <2>1, <2>2, SaveMakesInv DEF SaveOpenFails, Serving
<1> QED BY <1>2, <1>3

----------------------------------------------------------------------------
(* n calls of hin_cache_unref give n references back, and free the object  *)
(* when these were the last. *)
LEMMA Unref ==
  ASSUME NEW o \in ItemType, NEW n \in Nat, n <= o.ref
  PROVE  LET x == hin_cache_unref(o, n)
         IN  /\ x \in ItemType /\ x.ref = o.ref - n
             /\ SameBut(o, x, {"state", "ref", "timer", "queue"})
             /\ n > 0 /\ o.ref = n =>
                  x.state = "freed" /\ ~ x.timer /\ x.queue = {}
             /\ n = 0 \/ n < o.ref => SameBut(o, x, {"ref"})
<1> DEFINE zero == n > 0 /\ o.ref - n <= 0 /\ o.ref > 0
           x == hin_cache_unref(o, n)
<1>1. x = [o EXCEPT !.ref = @ - n, !.state = IF zero THEN "freed" ELSE @,
                    !.timer = IF zero THEN FALSE ELSE @,
                    !.queue = IF zero THEN {} ELSE @]
  BY DEF hin_cache_unref
<1>2. o.ref \in Nat /\ o.ref - n \in Nat
  BY DEF ItemType
<1>3. zero <=> (n > 0 /\ o.ref = n)
  BY <1>2
<1> HIDE DEF zero
<1>4. x \in ItemType
  BY <1>1, <1>2 DEF ItemType
<1>5. /\ x.ref = o.ref - n /\ x.key = o.key /\ x.flags = o.flags
      /\ x.size = o.size /\ x.fill = o.fill
      /\ zero => x.state = "freed" /\ ~ x.timer /\ x.queue = {}
      /\ ~ zero => x.state = o.state /\ x.timer = o.timer /\ x.queue = o.queue
  BY <1>1 DEF ItemType
<1> HIDE DEF x
<1>6. n = 0 \/ n < o.ref => ~ zero
  BY <1>2, <1>3
<1> QED BY <1>3, <1>4, <1>5, <1>6 DEF SameBut, x

(* The end of a pipe that sends: the client gives its reference back, and  *)
(* the last one frees an object that the table no longer has. *)
LEMMA SendDoneInv ==
  ASSUME IInv, NEW r \in Requests, SendDone(r)
  PROVE  IInv'
<1> USE DEF IInv
<1>1. /\ store /\ UNCHANGED <<store, ht, size, of>> /\ req[r] \in {"sent", "direct"}
      /\ req' = [req EXCEPT ![r] = "answered"]
  BY DEF SendDone, Serving
<1>2. req'[r] = "answered" /\ \A q \in Requests \ {r} : req'[q] = req[q]
  BY <1>1 DEF TypeOK
<1>3. \A q \in Requests : RequestOK(q)'
  BY <1>1, <1>2 DEF RequestOK
<1>4. \A j \in Items : item[j].queue \in SUBSET Requests
  BY DEF TypeOK, ItemType
<1>5. \A j \in Items : \A q \in item[j].queue :
        \/ req'[q] = req[q] /\ of'[q] = of[q]
        \/ ~ item[j].timer /\ req'[q] \notin {"idle", "miss"}
  BY <1>1, <1>2, <1>4 DEF ItemOK, QueueOK
<1>6. CASE req[r] = "direct"
  <2>1. item' = item
    BY <1>6 DEF SendDone
  <2>2. \A j \in Items : Sent(j)' = Sent(j)
    BY <1>1, <1>2, <1>6 DEF Sent
  <2>3. \A j \in Items : ItemOK(j)'
    BY <1>1, <1>5, <2>1, <2>2, Frame
  <2>4. TypeOK'
    BY <1>1, <2>1 DEF TypeOK
  <2>5. Listed' /\ IsFiniteSet(DoneKeys)' /\ StoreExact'
    BY <1>1, <2>1, StoreFrame
  <2> QED BY <1>3, <2>3, <2>4, <2>5
<1>7. CASE req[r] = "sent"
  <2>1. PICK i \in Items : i = of[r].item
    BY <1>7 DEF RequestOK
  <2> DEFINE x == hin_cache_unref(item[i], 1)
  <2>2. item' = [item EXCEPT ![i] = x]
    BY <1>7, <2>1 DEF SendDone
  <2>3. r \in Sent(i)
    BY <1>7, <2>1 DEF Sent
  <2>4. item[i] \in ItemType /\ item[i].state = "live"
    BY <2>3 DEF TypeOK, ItemType, ItemOK, UnusedOK, FreedOK
  <2>5. LiveOK(i) /\ item[i].ref \in Nat /\ item[i].ref >= 1
    BY <2>4 DEF ItemOK, LiveOK, ItemType
  <2>6. /\ x \in ItemType /\ x.ref = item[i].ref - 1
        /\ SameBut(item[i], x, {"state", "ref", "timer", "queue"})
        /\ item[i].ref = 1 => x.state = "freed" /\ ~ x.timer /\ x.queue = {}
        /\ item[i].ref > 1 => SameBut(item[i], x, {"ref"})
    BY <2>4, <2>5, Unref
  <2> HIDE DEF x
  <2>7. /\ item' \in [Items -> ItemType] /\ item'[i] = x
        /\ \A j \in Items \ {i} : item'[j] = item[j]
    BY <2>2, <2>6 DEF TypeOK
  <2>8. TypeOK'
    BY <1>1, <2>7 DEF TypeOK
  <2>9. /\ Sent(i)' = Sent(i) \ {r}
        /\ \A j \in Items \ {i} : Sent(j)' = Sent(j)
    BY <1>1, <1>2, <2>1 DEF Sent
  <2>10. \A j \in Items \ {i} : ItemOK(j)'
    BY <1>1, <1>5, <2>7, <2>9, Frame
  <2>11. /\ Cardinality(Sent(i)) \in Nat /\ Cardinality(Sent(i)) >= 1
         /\ Cardinality(Sent(i)') = Cardinality(Sent(i)) - 1
         /\ Cardinality(item[i].queue) \in Nat
    <3>1. /\ IsFiniteSet(Sent(i)) /\ Cardinality(Sent(i)) \in Nat
          /\ Cardinality(Sent(i)) = 0 <=> Sent(i) = {}
          /\ Cardinality(item[i].queue) \in Nat
      BY Finite
    <3>2. Cardinality(Sent(i) \ {r}) = Cardinality(Sent(i)) - 1
      BY <2>3, <3>1, FS_RemoveElement
    <3> QED BY <2>3, <2>9, <3>1, <3>2
  <2>12. CASE item[i].ref = 1
    <3>1. /\ Cardinality(Sent(i)') = 0 /\ Cardinality(item[i].queue) = 0
          /\ ~ HasTableRef(i)
      BY <2>4, <2>5, <2>11, <2>12 DEF LiveOK, TableRef
    <3>2. Sent(i)' = {}
      BY <2>9, <3>1, Finite, FS_EmptySet, FS_RemoveElement
    <3>3. item[i].fill = "none" /\ \A k \in Keys : ht[k] # i
      BY <2>4, <3>1, CacheAssumption
        DEF ItemOK, FillOK, HasTableRef, ItemType, Listed
    <3>4. /\ x.state = "freed" /\ ~ x.timer /\ x.queue = {} /\ x.fill = "none"
          /\ x.size = item[i].size /\ x.flags = item[i].flags
      BY <2>6, <2>12, <3>3 DEF SameBut
    <3>5. FillOK(i)' /\ UnusedOK(i)' /\ FreedOK(i)' /\ LiveOK(i)' /\ QueueOK(i)'
      BY <2>7, <3>2, <3>4 DEF ItemOK, FillOK, UnusedOK, FreedOK, LiveOK, QueueOK
    <3>6. Listed' /\ IsFiniteSet(DoneKeys)' /\ StoreExact'
      BY <1>1, <2>7, <3>3, StoreFrame DEF TypeOK
    <3> QED BY <1>3, <2>8, <2>10, <3>5, <3>6 DEF ItemOK
  <2>13. CASE item[i].ref > 1
    <3>1. x.ref = item[i].ref - 1 /\ SameBut(item[i], x, {"ref"})
      BY <2>6, <2>13
    <3>2. TableRef(i)' = TableRef(i)
      BY <1>1, <2>7, <3>1 DEF TableRef, HasTableRef, SameBut
    <3>3. UnusedOK(i)' /\ FreedOK(i)'
      BY <2>4, <2>7, <3>1 DEF UnusedOK, FreedOK, SameBut
    <3>4. LiveOK(i)'
      BY <2>4, <2>5, <2>7, <2>11, <2>13, <3>1, <3>2 DEF LiveOK, SameBut, TableRef
    <3>5. FillOK(i)'
      BY <1>1, <2>7, <3>1 DEF ItemOK, FillOK, SameBut
    <3>6. QueueOK(i)'
      BY <1>5, <2>7, <3>1 DEF ItemOK, QueueOK, SameBut
    <3>7. Listed' /\ IsFiniteSet(DoneKeys)' /\ StoreExact'
      BY <1>1, <2>7, <3>1, StoreFrame DEF SameBut, TypeOK
    <3> QED BY <1>3, <2>8, <2>10, <3>3, <3>4, <3>5, <3>6, <3>7 DEF ItemOK
  <2> QED BY <2>5, <2>12, <2>13
<1> QED BY <1>1, <1>6, <1>7

----------------------------------------------------------------------------
(* The filling pipe ends well: the waiting clients keep their references   *)
(* and are sent the object, whose size the store counts from now on. *)
LEMMA FillDoneInv ==
  ASSUME IInv, Faults = {}, NEW i \in Items, FillEnd(i), item[i].fill = "running"
  PROVE  IInv'
<1> USE DEF IInv
<1> DEFINE x == [item[i] EXCEPT !.fill = "none", !.size = ObjSize,
                                !.flags = @ \cup {"DONE"}, !.queue = {}]
           Q == item[i].queue
<1>1. /\ item[i] \in ItemType /\ item[i].state = "live" /\ item[i].flags = {}
      /\ item[i].timer /\ ht[item[i].key] = i /\ item[i].key \in Keys
  BY DEF ItemOK, FillOK, LiveOK, TypeOK
<1>2. /\ store /\ UNCHANGED <<store, ht, of>> /\ size' = size + ObjSize
      /\ item' = [item EXCEPT ![i] = x]
  BY <1>1 DEF FillEnd, FinishCallback, Serving
<1>3. PICK how \in [Q -> {"sent"}] :
        req' = [r \in Requests |-> IF r \in Q THEN how[r] ELSE req[r]]
  BY <1>1 DEF FillEnd, Served
<1>4. Q \in SUBSET Requests
  BY <1>1 DEF ItemType
<1>5. \A r \in Requests : req'[r] = IF r \in Q THEN "sent" ELSE req[r]
  BY <1>3, <1>4
<1>6. \A r \in Q : req[r] = "queued" /\ of[r].item = i
  BY <1>1 DEF ItemOK, QueueOK
<1>7. /\ x \in ItemType /\ x.state = "live" /\ x.key = item[i].key
      /\ x.ref = item[i].ref /\ x.queue = {} /\ x.flags = {"DONE"}
      /\ x.size = ObjSize /\ x.timer /\ x.fill = "none"
  BY <1>1, CacheAssumption DEF ItemType
<1> HIDE DEF x
<1>8. /\ item' \in [Items -> ItemType] /\ item'[i] = x
      /\ \A j \in Items \ {i} : item'[j] = item[j]
  BY <1>2, <1>7 DEF TypeOK
<1>9. TypeOK'
  <2>1. size' \in Nat
    BY <1>2, CacheAssumption DEF TypeOK
  <2>2. req' \in [Requests ->
       {"idle", "miss", "direct", "queued", "sent", "refused", "failed", "answered"}]
    BY <1>3, <1>4 DEF TypeOK
  <2> QED BY <1>2, <1>8, <2>1, <2>2 DEF TypeOK
<1>10. /\ Sent(i)' = Sent(i) \cup Q /\ Sent(i) \cap Q = {}
       /\ \A j \in Items \ {i} : Sent(j)' = Sent(j)
  BY <1>2, <1>4, <1>5, <1>6 DEF Sent
<1>11. \A j \in Items \ {i} : \A q \in item[j].queue :
         \/ req'[q] = req[q] /\ of'[q] = of[q]
         \/ ~ item[j].timer /\ req'[q] \notin {"idle", "miss"}
  <2> SUFFICES ASSUME NEW j \in Items \ {i}, NEW q \in item[j].queue
               PROVE  \/ req'[q] = req[q] /\ of'[q] = of[q]
                      \/ ~ item[j].timer /\ req'[q] \notin {"idle", "miss"}
    OBVIOUS
  <2>1. q \in Requests
    BY DEF TypeOK, ItemType
  <2>2. item[j].timer => of[q].item = j
    BY DEF ItemOK, QueueOK
  <2> QED BY <1>2, <1>5, <1>6, <2>1, <2>2
<1>12. \A j \in Items \ {i} : ItemOK(j)'
  BY <1>2, <1>8, <1>10, <1>11, Frame
<1>13. ItemOK(i)'
  <2>1. Cardinality(Sent(i)') = Cardinality(Sent(i)) + Cardinality(Q)
    <3>1. Cardinality(Sent(i) \cup Q)
            = Cardinality(Sent(i)) + Cardinality(Q) - Cardinality(Sent(i) \cap Q)
      BY Finite, FS_Union
    <3>2. Cardinality(Q) \in Nat /\ Cardinality(Sent(i)) \in Nat
      BY Finite
    <3> HIDE DEF Q
    <3>3. Cardinality(Sent(i) \cap Q) = 0
      BY <1>10, FS_EmptySet
    <3> QED BY <1>10, <3>1, <3>2, <3>3
  <2>2. HasTableRef(i)' /\ HasTableRef(i)
    BY <1>1, <1>2, <1>7, <1>8 DEF HasTableRef
  <2>3. UnusedOK(i)' /\ FreedOK(i)' /\ FillOK(i)' /\ QueueOK(i)'
    BY <1>7, <1>8 DEF UnusedOK, FreedOK, FillOK, QueueOK
  <2>4. LiveOK(i)'
    <3>1. LiveOK(i) /\ item[i].ref \in Nat
      BY <1>1 DEF ItemOK, ItemType
    <3>2. item[i].ref = 1 + Cardinality(Q) + Cardinality(Sent(i)) /\ item[i].ref > 0
      BY <1>1, <2>2, <3>1 DEF LiveOK, TableRef
    <3>3. Cardinality(item'[i].queue) = 0
      BY <1>7, <1>8, FS_EmptySet
    <3>4. Cardinality(Q) \in Nat /\ Cardinality(Sent(i)) \in Nat
      BY Finite
    <3>5. x.ref = TableRef(i)' + Cardinality(item'[i].queue) + Cardinality(Sent(i)')
      <4> HIDE DEF Q
      <4> QED BY <1>7, <2>1, <2>2, <3>2, <3>3, <3>4 DEF TableRef
    <3> QED BY <1>1, <1>7, <1>8, <3>2, <3>5 DEF LiveOK
  <2> QED BY <2>3, <2>4 DEF ItemOK
<1>14. \A r \in Requests : RequestOK(r)'
  BY <1>2, <1>5, <1>6 DEF RequestOK
<1>15. Listed'
  BY <1>2, <1>7, <1>8 DEF Listed, TypeOK
<1>16. DoneKeys' = DoneKeys \cup {item[i].key} /\ item[i].key \notin DoneKeys
  <2>1. \A k \in Keys : ht[k] = i <=> k = item[i].key
    BY <1>1, CacheAssumption DEF Listed
  <2>2. \A k \in Keys : ht[k] # None /\ ht[k] # i => item'[ht[k]] = item[ht[k]]
    BY <1>8 DEF TypeOK
  <2>3. i # None /\ "DONE" \in item'[i].flags /\ "DONE" \notin item[i].flags
    BY <1>1, <1>7, <1>8, CacheAssumption
  <2> QED BY <1>1, <1>2, <2>1, <2>2, <2>3 DEF DoneKeys
<1>17. IsFiniteSet(DoneKeys') /\ Cardinality(DoneKeys') = Cardinality(DoneKeys) + 1
  BY <1>16, FS_AddElement
<1>18. size' = ObjSize * Cardinality(DoneKeys')
  <2>1. size = ObjSize * Cardinality(DoneKeys)
    BY <1>2 DEF StoreExact, SizeExact, DoneKeys
  <2>2. Cardinality(DoneKeys) \in Nat
    BY FS_CardinalityType
  <2>3. \A n \in Nat : ObjSize * (n + 1) = ObjSize * n + ObjSize
    BY CacheAssumption
  <2> QED BY <1>2, <1>17, <2>1, <2>2, <2>3
<1>19. StoreExact'
  BY <1>2, <1>18 DEF StoreExact, SizeExact, CleanFreesAll, DoneKeys
<1> QED BY <1>9, <1>12, <1>13, <1>14, <1>15, <1>17, <1>19

(* A filling pipe fails, or ends after it failed: object i is off the      *)
(* table, its waiting clients are answered with an error, and it lives on  *)
(* for the pipe, while that drains, and for the clients being sent it. *)
LEMMA FillFailsInv ==
  ASSUME IInv, NEW i \in Items, NEW x \in ItemType, item[i].fill # "none",
         store, UNCHANGED <<store, size, of>>,
         ht' \in [Keys -> Items \cup {None}],
         \A k \in Keys : ht'[k] = IF ht[k] = i THEN None ELSE ht[k],
         req' = [r \in Requests |-> IF r \in item[i].queue THEN "failed" ELSE req[r]],
         item' = [item EXCEPT ![i] = x],
         x.key = item[i].key, x.queue = {}, x.flags = {"ERROR"}, x.size = 0,
         x.fill \in {"none", "drains"},
         x.ref = Cardinality(Sent(i)) + (IF x.fill = "drains" THEN 1 ELSE 0),
         x.ref = 0 => x.state = "freed" /\ ~ x.timer,
         x.ref > 0 => x.state = "live" /\ x.timer
  PROVE  IInv'
<1> USE DEF IInv
<1>1. /\ item[i] \in ItemType /\ item[i].state = "live" /\ item[i].timer
      /\ item[i].key \in Keys /\ item[i].queue \in SUBSET Requests
      /\ "DONE" \notin item[i].flags
  BY DEF ItemOK, FillOK, LiveOK, TypeOK, ItemType
<1>2. \A r \in Requests : req'[r] = IF r \in item[i].queue THEN "failed" ELSE req[r]
  OBVIOUS
<1>3. \A r \in item[i].queue : req[r] = "queued" /\ of[r].item = i
  BY <1>1 DEF ItemOK, QueueOK
<1>4. /\ item' \in [Items -> ItemType] /\ item'[i] = x
      /\ \A j \in Items \ {i} : item'[j] = item[j]
  BY DEF TypeOK
<1>5. TypeOK'
  <2>1. req' \in [Requests ->
       {"idle", "miss", "direct", "queued", "sent", "refused", "failed", "answered"}]
    BY DEF TypeOK
  <2> QED BY <1>4, <2>1 DEF TypeOK
<1>6. \A j \in Items : Sent(j)' = Sent(j)
  BY <1>1, <1>2, <1>3 DEF Sent
<1>7. \A j \in Items \ {i} : \A q \in item[j].queue :
         \/ req'[q] = req[q] /\ of'[q] = of[q]
         \/ ~ item[j].timer /\ req'[q] \notin {"idle", "miss"}
  <2> SUFFICES ASSUME NEW j \in Items \ {i}, NEW q \in item[j].queue
               PROVE  \/ req'[q] = req[q] /\ of'[q] = of[q]
                      \/ ~ item[j].timer /\ req'[q] \notin {"idle", "miss"}
    OBVIOUS
  <2>1. q \in Requests
    BY DEF TypeOK, ItemType
  <2>2. item[j].timer => of[q].item = j
    BY DEF ItemOK, QueueOK
  <2> QED BY <1>2, <1>3, <2>1, <2>2
<1>8. \A j \in Items \ {i} : ItemOK(j)'
  <2> SUFFICES ASSUME NEW j \in Items \ {i} PROVE ItemOK(j)'
    OBVIOUS
  <2>1. item[j].key \in Keys => (ht'[item[j].key] = j <=> ht[item[j].key] = j)
    BY CacheAssumption
  <2> QED BY <1>4, <1>6, <1>7, <2>1, Frame
<1>9. ItemOK(i)'
  <2>1. Cardinality(Sent(i)') = Cardinality(Sent(i)) /\ Cardinality(Sent(i)) \in Nat
    BY <1>6, Finite
  <2>2. ht'[item'[i].key] # i
    BY <1>1, <1>4, CacheAssumption
  <2>3. TableRef(i)' = IF x.fill = "drains" THEN 1 ELSE 0
    BY <1>4, <2>2 DEF TableRef, HasTableRef
  <2>4. UnusedOK(i)' /\ QueueOK(i)'
    BY <1>4, <2>1 DEF UnusedOK, QueueOK
  <2>5. FreedOK(i)'
    <3>1. x.ref = 0 => x.fill = "none" /\ Sent(i) = {}
      BY <2>1, Finite
    <3>2. x.ref \in Nat
      BY DEF ItemType
    <3> QED BY <1>4, <1>6, <3>1, <3>2 DEF FreedOK
  <2>6. LiveOK(i)'
    <3>1. Cardinality(item'[i].queue) = 0
      BY <1>4, FS_EmptySet
    <3>2. x.ref \in Nat
      BY DEF ItemType
    <3> QED BY <1>1, <1>4, <2>1, <2>3, <3>1, <3>2 DEF LiveOK
  <2>7. FillOK(i)'
    <3>1. x.fill = "drains" => x.ref > 0
      BY <2>1
    <3> QED BY <1>4, <2>2, <3>1 DEF FillOK
  <2> QED BY <2>4, <2>5, <2>6, <2>7 DEF ItemOK
<1>10. \A r \in Requests : RequestOK(r)'
  BY <1>2, <1>3 DEF RequestOK
<1>11. \A k \in Keys : ht'[k] # None =>
         ht'[k] = ht[k] /\ ht[k] # i /\ item'[ht[k]] = item[ht[k]]
  BY <1>4 DEF TypeOK
<1>12. Listed'
  BY <1>11 DEF Listed
<1>13. DoneKeys' = DoneKeys
  <2>1. \A k \in Keys : ht[k] # i => ht'[k] = ht[k]
    OBVIOUS
  <2> QED BY <1>1, <1>11, <2>1 DEF DoneKeys
<1>14. StoreExact'
  BY <1>13 DEF StoreExact, SizeExact, CleanFreesAll, DoneKeys
<1> QED BY <1>5, <1>8, <1>9, <1>10, <1>12, <1>13, <1>14

(* The counts of an object that a pipe fills. *)
LEMMA FillCounts ==
  ASSUME IInv, NEW i \in Items, item[i].fill # "none"
  PROVE  /\ item[i] \in ItemType /\ item[i].timer /\ item[i].state = "live"
         /\ Cardinality(item[i].queue) \in Nat /\ Cardinality(Sent(i)) \in Nat
         /\ item[i].ref = 1 + Cardinality(item[i].queue) + Cardinality(Sent(i))
         /\ item[i].size = 0 /\ item[i].key \in Keys
         /\ \/ item[i].fill = "running" /\ item[i].flags = {}
               /\ \A k \in Keys : ht[k] = i <=> k = item[i].key
            \/ /\ item[i].fill = "drains" /\ item[i].flags = {"ERROR"}
               /\ item[i].queue = {} /\ Cardinality(item[i].queue) = 0
               /\ \A k \in Keys : ht[k] # i
<1> USE DEF IInv
<1>1. /\ item[i] \in ItemType /\ item[i].timer /\ item[i].state = "live"
      /\ item[i].size = 0 /\ item[i].key \in Keys
      /\ \/ item[i].fill = "running" /\ item[i].flags = {} /\ ht[item[i].key] = i
         \/ /\ item[i].fill = "drains" /\ item[i].flags = {"ERROR"}
            /\ item[i].queue = {} /\ ht[item[i].key] # i
  BY DEF ItemOK, FillOK, LiveOK, TypeOK, ItemType
<1>2. Cardinality(item[i].queue) \in Nat /\ Cardinality(Sent(i)) \in Nat
  BY Finite
<1>3. TableRef(i) = 1
  BY <1>1 DEF TableRef, HasTableRef
<1>4. item[i].ref = 1 + Cardinality(item[i].queue) + Cardinality(Sent(i))
  BY <1>1, <1>3 DEF ItemOK, LiveOK
<1>5. \A k \in Keys : ht[k] = i => k = item[i].key
  BY CacheAssumption DEF Listed
<1> QED BY <1>1, <1>2, <1>4, <1>5, FS_EmptySet

(* hin_cache_pipe_error_callback gives back the waiting clients'           *)
(* references, never the last. *)
LEMMA ErrorGood ==
  ASSUME IInv, NEW i \in Items, item[i].fill # "none"
  PROVE  LET e == ErrorCallback(item[i])
         IN  /\ e \in ItemType /\ e.ref = 1 + Cardinality(Sent(i))
             /\ e.queue = {} /\ e.flags = {"ERROR"}
             /\ SameBut(item[i], e, {"ref", "queue", "flags"})
<1> DEFINE n == Cardinality(item[i].queue)
           u == hin_cache_unref(item[i], n)
           e == ErrorCallback(item[i])
<1>1. /\ item[i] \in ItemType /\ n \in Nat /\ Cardinality(Sent(i)) \in Nat
      /\ item[i].ref = 1 + n + Cardinality(Sent(i))
      /\ item[i].flags \cup {"ERROR"} = {"ERROR"}
  BY FillCounts
<1>2. n <= item[i].ref /\ n < item[i].ref
  BY <1>1
<1> HIDE DEF n
<1>3. u \in ItemType /\ u.ref = item[i].ref - n /\ SameBut(item[i], u, {"ref"})
  BY <1>1, <1>2, Unref
<1>4. e = [u EXCEPT !.queue = {}, !.flags = @ \cup {"ERROR"}]
  BY DEF ErrorCallback, n
<1> HIDE DEF u, e
<1>5. u.flags = item[i].flags
  BY <1>3 DEF SameBut
<1>6. /\ e \in ItemType /\ e.ref = u.ref /\ e.queue = {} /\ e.flags = {"ERROR"}
      /\ SameBut(u, e, {"queue", "flags"})
  BY <1>1, <1>3, <1>4, <1>5 DEF ItemType, SameBut
<1>7. e.ref = 1 + Cardinality(Sent(i))
  BY <1>1, <1>3, <1>6
<1> QED BY <1>3, <1>6, <1>7 DEF SameBut, e

(* Reading the CGI output fails. *)
LEMMA ReadErrorInv ==
  ASSUME IInv, NEW i \in Items, FillReadError(i)
  PROVE  IInv'
<1> DEFINE e == ErrorCallback(item[i])
           x == [e EXCEPT !.fill = "drains"]
<1>1. /\ store /\ UNCHANGED <<store, size, of>> /\ item[i].fill = "running"
      /\ item' = [item EXCEPT ![i] = x] /\ ht' = Delete(item[i].key)
      /\ req' = [r \in Requests |-> IF r \in item[i].queue THEN "failed" ELSE req[r]]
  BY DEF FillReadError, Serving
<1>2. /\ e \in ItemType /\ e.ref = 1 + Cardinality(Sent(i))
      /\ e.queue = {} /\ e.flags = {"ERROR"}
      /\ SameBut(item[i], e, {"ref", "queue", "flags"})
  BY <1>1, ErrorGood
<1>3. /\ item[i].timer /\ item[i].state = "live" /\ item[i].size = 0
      /\ Cardinality(Sent(i)) \in Nat
      /\ \A k \in Keys : ht[k] = i <=> k = item[i].key
  BY <1>1, FillCounts
<1>4. /\ ht' \in [Keys -> Items \cup {None}]
      /\ \A k \in Keys : ht'[k] = IF ht[k] = i THEN None ELSE ht[k]
  BY <1>1, <1>3 DEF Delete, IInv, TypeOK
<1> HIDE DEF e
<1>5. /\ x \in ItemType /\ x.queue = {} /\ x.flags = {"ERROR"} /\ x.fill = "drains"
      /\ x.ref = Cardinality(Sent(i)) + 1 /\ x.ref > 0 /\ x.key = item[i].key
      /\ x.size = 0 /\ x.state = "live" /\ x.timer
  <2>1. x \in ItemType /\ SameBut(e, x, {"fill"}) /\ x.fill = "drains"
    BY <1>2 DEF ItemType, SameBut
  <2> HIDE DEF x
  <2>2. x.ref = Cardinality(Sent(i)) + 1 /\ x.ref > 0
    BY <1>2, <1>3, <2>1 DEF SameBut
  <2> QED BY <1>2, <1>3, <2>1, <2>2 DEF SameBut
<1> HIDE DEF x
<1>6. /\ x.fill \in {"none", "drains"} /\ x.ref # 0
      /\ x.ref = Cardinality(Sent(i)) + (IF x.fill = "drains" THEN 1 ELSE 0)
  BY <1>3, <1>5
<1>7. item[i].fill # "none"
  BY <1>1
<1> QED BY <1>1, <1>4, <1>5, <1>6, <1>7, FillFailsInv

(* hin_cache_finish after an error gives the table's reference back. *)
LEMMA FailedEndInv ==
  ASSUME IInv, NEW i \in Items, NEW o \in ItemType, item[i].fill # "none",
         SameBut(item[i], o, {"ref", "queue", "flags"}),
         o.ref = 1 + Cardinality(Sent(i)), o.queue = {}, o.flags = {"ERROR"},
         store, UNCHANGED <<store, size, of>>,
         ht' \in [Keys -> Items \cup {None}],
         \A k \in Keys : ht'[k] = IF ht[k] = i THEN None ELSE ht[k],
         req' = [r \in Requests |-> IF r \in item[i].queue THEN "failed" ELSE req[r]],
         item' = [item EXCEPT ![i] = FinishCallback(o)]
  PROVE  IInv'
<1> DEFINE u == hin_cache_unref(o, 1)
           x == [u EXCEPT !.fill = "none"]
<1>1. FinishCallback(o) = x
  BY DEF FinishCallback
<1>2. /\ item[i].timer /\ item[i].state = "live" /\ item[i].size = 0
      /\ Cardinality(Sent(i)) \in Nat
  BY FillCounts
<1>3. /\ u \in ItemType /\ u.ref = o.ref - 1
      /\ SameBut(o, u, {"state", "ref", "timer", "queue"})
      /\ o.ref = 1 => u.state = "freed" /\ ~ u.timer /\ u.queue = {}
      /\ 1 < o.ref => SameBut(o, u, {"ref"})
  <2>1. 1 \in Nat /\ 1 <= o.ref /\ o.ref \in Nat
    BY <1>2
  <2> QED BY <2>1, Unref
<1> HIDE DEF u
<1>4. /\ x \in ItemType /\ x.fill = "none" /\ x.ref = u.ref
      /\ SameBut(u, x, {"fill"})
  BY <1>3 DEF ItemType, SameBut
<1> HIDE DEF x
<1>5. x.ref = Cardinality(Sent(i))
  BY <1>2, <1>3, <1>4
<1>6. /\ x.key = item[i].key /\ x.flags = {"ERROR"} /\ x.size = 0
      /\ o.state = "live" /\ o.timer
  BY <1>2, <1>3, <1>4 DEF SameBut
<1>7. x.ref = 0 => x.state = "freed" /\ ~ x.timer /\ x.queue = {}
  BY <1>2, <1>3, <1>4, <1>5 DEF SameBut
<1>8. x.ref > 0 => x.state = "live" /\ x.timer /\ x.queue = {}
  <2> SUFFICES ASSUME x.ref > 0 PROVE x.state = "live" /\ x.timer /\ x.queue = {}
    OBVIOUS
  <2>1. 1 < o.ref
    BY <1>2, <1>5
  <2>2. x.state = o.state /\ x.timer = o.timer /\ x.queue = o.queue
    BY <1>3, <1>4, <2>1 DEF SameBut
  <2> QED BY <1>6, <2>2
<1>9. x.queue = {}
  BY <1>2, <1>5, <1>7, <1>8
<1>10. /\ x.fill \in {"none", "drains"}
       /\ x.ref = Cardinality(Sent(i)) + (IF x.fill = "drains" THEN 1 ELSE 0)
  BY <1>2, <1>4, <1>5
<1>11. item' = [item EXCEPT ![i] = x]
  BY <1>1
<1> QED BY <1>4, <1>6, <1>7, <1>8, <1>9, <1>10, <1>11, FillFailsInv

(* The filling pipe ends, after draining what it had read when reading     *)
(* had failed. *)
LEMMA FillEndInv ==
  ASSUME IInv, Faults = {}, NEW i \in Items, FillEnd(i)
  PROVE  IInv'
<1>1. item[i].fill # "none" /\ store /\ UNCHANGED <<store, ht, of>>
  BY DEF FillEnd, Serving
<1>2. CASE item[i].fill = "running"
  BY <1>2, FillDoneInv
<1>3. CASE item[i].fill # "running"
  <2>1. /\ item[i] \in ItemType /\ item[i].flags = {"ERROR"} /\ item[i].queue = {}
        /\ Cardinality(item[i].queue) = 0 /\ Cardinality(Sent(i)) \in Nat
        /\ item[i].ref = 1 + Cardinality(item[i].queue) + Cardinality(Sent(i))
        /\ \A k \in Keys : ht[k] # i
    BY <1>1, <1>3, FillCounts
  <2>2. item[i].ref = 1 + Cardinality(Sent(i))
    BY <2>1
  <2>3. size' = size /\ req' = req /\ item' = [item EXCEPT ![i] = FinishCallback(item[i])]
    BY <2>1 DEF FillEnd
  <2>4. req' = [r \in Requests |-> IF r \in item[i].queue THEN "failed" ELSE req[r]]
    BY <2>1, <2>3 DEF IInv, TypeOK
  <2>5. /\ ht' \in [Keys -> Items \cup {None}]
        /\ \A k \in Keys : ht'[k] = IF ht[k] = i THEN None ELSE ht[k]
    BY <1>1, <2>1 DEF IInv, TypeOK
  <2>6. SameBut(item[i], item[i], {"ref", "queue", "flags"})
    BY DEF SameBut
  <2> QED BY <1>1, <2>1, <2>2, <2>3, <2>4, <2>5, <2>6, FailedEndInv
<1> QED BY <1>2, <1>3

(* Writing the cache file fails. *)
LEMMA WriteErrorInv ==
  ASSUME IInv, Faults = {}, NEW i \in Items, FillWriteError(i)
  PROVE  IInv'
<1> DEFINE e == ErrorCallback(item[i])
<1>1. /\ store /\ UNCHANGED <<store, size, of>> /\ item[i].fill # "none"
      /\ item' = [item EXCEPT ![i] = FinishCallback(e)]
      /\ req' = [r \in Requests |-> IF r \in item[i].queue THEN "failed" ELSE req[r]]
  BY DEF FillWriteError, Serving
<1>2. /\ ht' = Delete(item[i].key)
      /\ item[i].fill = "drains" => ht[item[i].key] = None
  BY DEF FillWriteError
<1>3. /\ e \in ItemType /\ e.ref = 1 + Cardinality(Sent(i))
      /\ e.queue = {} /\ e.flags = {"ERROR"}
      /\ SameBut(item[i], e, {"ref", "queue", "flags"})
  BY <1>1, ErrorGood
<1>4. /\ ht' \in [Keys -> Items \cup {None}]
      /\ \A k \in Keys : ht'[k] = IF ht[k] = i THEN None ELSE ht[k]
  BY <1>1, <1>2, FillCounts, CacheAssumption DEF Delete, IInv, TypeOK
<1> HIDE DEF e
<1> QED BY <1>1, <1>3, <1>4, FailedEndInv

----------------------------------------------------------------------------
(* hin_cache_timeout_callback on an object nobody uses: the reference it   *)
(* gives back is the table's and the last, and the store is smaller by the *)
(* object's size. *)
LEMMA ExpireInv ==
  ASSUME IInv, Faults = {}, NEW i \in Items, Expire(i)
  PROVE  IInv'
<1> USE DEF IInv
<1> DEFINE x == hin_cache_unref(item[i], 1)
           k == item[i].key
<1>1. /\ store /\ UNCHANGED <<store, req, of>> /\ item[i].timer
      /\ item[i].fill = "none" /\ item[i].queue = {} /\ Sent(i) = {}
      /\ ht' = Delete(k) /\ size' = size - item[i].size
      /\ item' = [item EXCEPT ![i] = x]
  BY DEF Expire, Serving, InUse
<1>2. item[i] \in ItemType /\ item[i].state = "live"
  BY <1>1 DEF TypeOK, ItemType, ItemOK, UnusedOK, Unused, FreedOK
<1>3. k \in Keys /\ item[i].ref = 1 /\ ht[k] = i
  <2>1. Cardinality(item[i].queue) = 0 /\ Cardinality(Sent(i)) = 0
    BY <1>1, FS_EmptySet
  <2>2. k \in Keys /\ item[i].ref > 0 /\ item[i].ref = TableRef(i) + 0 + 0
    BY <1>2, <2>1 DEF ItemOK, LiveOK
  <2>3. HasTableRef(i) /\ item[i].ref = 1
    BY <2>2 DEF TableRef
  <2> QED BY <1>1, <2>2, <2>3 DEF HasTableRef
<1>4. /\ x \in ItemType /\ x.state = "freed" /\ ~ x.timer /\ x.queue = {}
      /\ SameBut(item[i], x, {"state", "ref", "timer", "queue"})
  BY <1>2, <1>3, Unref
<1> HIDE DEF x
<1>5. /\ item' \in [Items -> ItemType] /\ item'[i] = x
      /\ \A j \in Items \ {i} : item'[j] = item[j]
  BY <1>1, <1>4 DEF TypeOK
<1>6. /\ ht' \in [Keys -> Items \cup {None}]
      /\ ht'[k] = None /\ \A l \in Keys \ {k} : ht'[l] = ht[l] /\ ht[l] # i
  BY <1>1, <1>3, CacheAssumption DEF Delete, TypeOK, Listed
<1>7. \A j \in Items : Sent(j)' = Sent(j)
  BY <1>1 DEF Sent
<1>8. \A j \in Items \ {i} : ItemOK(j)'
  <2> SUFFICES ASSUME NEW j \in Items \ {i} PROVE ItemOK(j)'
    OBVIOUS
  <2>1. item[j].key \in Keys => (ht'[item[j].key] = j <=> ht[item[j].key] = j)
    BY <1>3, <1>6, CacheAssumption
  <2> QED BY <1>1, <1>5, <1>7, <2>1, Frame
<1>9. ItemOK(i)'
  BY <1>1, <1>4, <1>5, <1>7
    DEF ItemOK, UnusedOK, FreedOK, LiveOK, FillOK, QueueOK, SameBut
<1>10. \A r \in Requests : RequestOK(r)'
  BY <1>1 DEF RequestOK
<1>11. \A l \in Keys : ht'[l] # None => ht'[l] = ht[l] /\ item'[ht[l]] = item[ht[l]]
  BY <1>5, <1>6 DEF TypeOK
<1>12. Listed'
  BY <1>11 DEF Listed
<1>13. DoneKeys' = DoneKeys \ {k}
  BY <1>6, <1>11 DEF DoneKeys
<1>14. k \in DoneKeys <=> "DONE" \in item[i].flags
  BY <1>3, CacheAssumption DEF DoneKeys
<1>15. item[i].size = IF k \in DoneKeys THEN ObjSize ELSE 0
  BY <1>14 DEF ItemOK, FillOK
<1> HIDE DEF k
<1>16. /\ IsFiniteSet(DoneKeys') /\ Cardinality(DoneKeys') \in Nat
       /\ Cardinality(DoneKeys) = Cardinality(DoneKeys') + (IF k \in DoneKeys THEN 1 ELSE 0)
  <2>1. IsFiniteSet(DoneKeys')
    BY <1>13, FS_RemoveElement
  <2>2. Cardinality(DoneKeys) \in Nat /\ Cardinality(DoneKeys') \in Nat
    BY <2>1, FS_CardinalityType
  <2>3. Cardinality(DoneKeys \ {k}) =
          IF k \in DoneKeys THEN Cardinality(DoneKeys) - 1 ELSE Cardinality(DoneKeys)
    BY FS_RemoveElement
  <2> QED BY <1>13, <2>1, <2>2, <2>3
<1>17. size' = ObjSize * Cardinality(DoneKeys')
  <2>1. size = ObjSize * Cardinality(DoneKeys)
    BY <1>1 DEF StoreExact, SizeExact, DoneKeys
  <2>2. \A n \in Nat : ObjSize * (n + 1) = ObjSize * n + ObjSize /\ ObjSize * n \in Nat
    BY CacheAssumption
  <2>3. ObjSize \in Nat
    BY CacheAssumption
  <2>4. CASE k \in DoneKeys
    BY <1>1, <1>15, <1>16, <2>1, <2>2, <2>3, <2>4
  <2>5. CASE k \notin DoneKeys
    <3>1. Cardinality(DoneKeys) = Cardinality(DoneKeys') /\ size' = size
      BY <1>1, <1>15, <1>16, <2>5 DEF TypeOK
    <3> QED BY <2>1, <3>1
  <2> QED BY <2>4, <2>5
<1>18. TypeOK'
  <2>1. size' \in Nat
    BY <1>16, <1>17, CacheAssumption
  <2> QED BY <1>1, <1>5, <1>6, <2>1 DEF TypeOK
<1>19. StoreExact'
  BY <1>1, <1>17 DEF StoreExact, SizeExact, CleanFreesAll, DoneKeys
<1> QED BY <1>8, <1>9, <1>10, <1>12, <1>16, <1>18, <1>19

(* hin_cache_clean gives the table's references back. *)
LEMMA CleanInv ==
  ASSUME IInv, hin_cache_clean
  PROVE  IInv'
<1> USE DEF IInv
<1> DEFINE In(i) == item[i].key # None /\ ht[item[i].key] = i
<1>1. /\ store /\ store' = FALSE /\ UNCHANGED <<size, req, of>>
      /\ \A r \in Requests : req[r] \notin {"queued", "sent"}
      /\ ht' = [k \in Keys |-> None]
      /\ item' = [i \in Items |-> IF In(i) THEN hin_cache_unref(item[i], 1) ELSE item[i]]
  BY DEF hin_cache_clean
<1>2. \A i \in Items : Sent(i) = {} /\ Sent(i)' = {}
  BY <1>1 DEF Sent
<1>3. \A i \in Items : item[i].timer => item[i].queue = {}
  BY <1>1 DEF ItemOK, QueueOK, TypeOK, ItemType
<1>4. ASSUME NEW i \in Items, In(i)
      PROVE  /\ item'[i] \in ItemType /\ ItemOK(i)'
             /\ "DONE" \in item'[i].flags => item'[i].state = "freed"
  <2> DEFINE x == hin_cache_unref(item[i], 1)
             n == Cardinality(item[i].queue)
  <2>1. item[i] \in ItemType /\ item[i].key \in Keys
    BY <1>4 DEF TypeOK, ItemType
  <2>2. item[i].state = "live" /\ item[i].fill = "none"
    BY <1>3, <1>4, <2>1, CacheAssumption DEF Listed, ItemOK, FillOK, ItemType
  <2>3. n \in Nat /\ (n = 0 <=> item[i].queue = {})
    BY Finite
  <2>4. item[i].ref = 1 + n
    <3>1. TableRef(i) = 1
      BY <1>4 DEF TableRef, HasTableRef
    <3>2. Cardinality(Sent(i)) = 0
      BY <1>2, FS_EmptySet
    <3> QED BY <2>2, <2>3, <3>1, <3>2 DEF ItemOK, LiveOK
  <2> HIDE DEF n
  <2>5. /\ x \in ItemType /\ x.ref = n
        /\ SameBut(item[i], x, {"state", "ref", "timer", "queue"})
        /\ n = 0 => x.state = "freed" /\ ~ x.timer /\ x.queue = {}
        /\ n # 0 => SameBut(item[i], x, {"ref"})
    <3>1. 1 \in Nat /\ 1 <= item[i].ref /\ item[i].ref - 1 = n
          /\ (n = 0 => item[i].ref = 1) /\ (n # 0 => 1 < item[i].ref)
      BY <2>3, <2>4
    <3> QED BY <2>1, <3>1, Unref
  <2>6. item'[i] = x
    BY <1>1, <1>4
  <2> HIDE DEF x
  <2>7. ht'[x.key] # i
    BY <1>1, <2>1, <2>5, CacheAssumption DEF SameBut
  <2>8. FillOK(i)' /\ UnusedOK(i)'
    BY <2>2, <2>5, <2>6 DEF ItemOK, FillOK, UnusedOK, SameBut
  <2>9. FreedOK(i)'
    BY <1>2, <2>2, <2>5, <2>6 DEF FreedOK, SameBut
  <2>10. LiveOK(i)'
    <3>1. TableRef(i)' = 0
      BY <2>2, <2>5, <2>6, <2>7 DEF TableRef, HasTableRef, SameBut
    <3>2. Cardinality(Sent(i)') = 0
      BY <1>2, FS_EmptySet
    <3>3. CASE n = 0
      BY <2>5, <2>6, <3>3 DEF LiveOK
    <3>4. CASE n # 0
      <4>1. /\ x.queue = item[i].queue /\ x.key = item[i].key /\ x.flags = item[i].flags
            /\ x.timer = item[i].timer
        BY <2>5, <3>4 DEF SameBut
      <4>2. x.ref = 0 + Cardinality(x.queue) + 0 /\ x.ref > 0
        BY <2>3, <2>5, <3>4, <4>1 DEF n
      <4> QED BY <2>1, <2>2, <2>6, <3>1, <3>2, <4>1, <4>2 DEF ItemOK, LiveOK
    <3> QED BY <3>3, <3>4
  <2>11. QueueOK(i)'
    <3>1. CASE n = 0
      BY <2>5, <2>6, <3>1 DEF QueueOK
    <3>2. CASE n # 0
      BY <1>1, <2>5, <2>6, <3>2 DEF ItemOK, QueueOK, SameBut
    <3> QED BY <3>1, <3>2
  <2>12. "DONE" \in x.flags => x.state = "freed"
    <3>1. "DONE" \in item[i].flags => n = 0
      BY <1>3, <2>2, <2>3 DEF ItemOK, LiveOK
    <3> QED BY <2>5, <3>1 DEF SameBut
  <2> QED BY <2>5, <2>6, <2>8, <2>9, <2>10, <2>11, <2>12 DEF ItemOK
<1>5. ASSUME NEW i \in Items, ~ In(i)
      PROVE  /\ item'[i] \in ItemType /\ ItemOK(i)'
             /\ "DONE" \in item'[i].flags => item'[i].state = "freed"
  <2>1. item'[i] = item[i] /\ item[i] \in ItemType
    BY <1>1, <1>5 DEF TypeOK
  <2>2. item[i].key \in Keys => (ht'[item[i].key] = i <=> ht[item[i].key] = i)
    BY <1>1, <1>5, CacheAssumption
  <2>3. ItemOK(i)'
    BY <1>1, <1>2, <2>1, <2>2, Frame
  <2>4. "DONE" \in item[i].flags => item[i].state = "freed"
    <3> SUFFICES ASSUME "DONE" \in item[i].flags, item[i].state = "live" PROVE FALSE
      BY <2>1 DEF ItemType, ItemOK, UnusedOK, Unused
    <3>1. item[i].queue = {} /\ LiveOK(i)
      BY <1>3 DEF ItemOK, LiveOK
    <3>2. Cardinality(item[i].queue) = 0 /\ Cardinality(Sent(i)) = 0
      BY <1>2, <3>1, FS_EmptySet
    <3>3. HasTableRef(i) /\ item[i].key \in Keys
      BY <3>1, <3>2 DEF LiveOK, TableRef
    <3>4. item[i].fill = "none"
      BY <2>1 DEF ItemOK, FillOK, ItemType
    <3> QED BY <1>5, <3>3, <3>4, CacheAssumption DEF HasTableRef
  <2> QED BY <2>1, <2>3, <2>4
<1> HIDE DEF In
<1>6. \A i \in Items : /\ item'[i] \in ItemType /\ ItemOK(i)'
                       /\ "DONE" \in item'[i].flags => item'[i].state = "freed"
  BY <1>4, <1>5
<1>7. TypeOK'
  <2>1. item' \in [Items -> ItemType]
    BY <1>1, <1>6
  <2> QED BY <1>1, <2>1 DEF TypeOK
<1>8. Listed' /\ DoneKeys' = {}
  BY <1>1 DEF Listed, DoneKeys
<1>9. IsFiniteSet(DoneKeys')
  BY <1>8, FS_EmptySet
<1>10. StoreExact'
  BY <1>1, <1>6 DEF StoreExact, SizeExact, CleanFreesAll
<1>11. \A r \in Requests : RequestOK(r)'
  BY <1>1 DEF RequestOK
<1> QED BY <1>6, <1>7, <1>8, <1>9, <1>10, <1>11

(* Every step preserves the invariant. *)
LEMMA NextInv ==
  ASSUME Faults = {}
  PROVE  IInv /\ [Next]_vars => IInv'
<1> SUFFICES ASSUME IInv, [Next]_vars PROVE IInv'
  OBVIOUS
<1>1. CASE UNCHANGED vars
  <2> USE <1>1 DEF vars
  <2>1. \A i \in Items : Sent(i)' = Sent(i)
    BY DEF Sent
  <2>2. \A i \in Items : ItemOK(i)'
    BY <2>1, Frame DEF IInv
  <2>3. TypeOK' /\ Listed' /\ \A r \in Requests : RequestOK(r)'
    BY DEF IInv, TypeOK, Listed, RequestOK
  <2>4. IsFiniteSet(DoneKeys)' /\ StoreExact'
    BY DEF IInv, DoneKeys, StoreExact, SizeExact, CleanFreesAll
  <2> QED BY <2>2, <2>3, <2>4 DEF IInv
<1>2. CASE Next
  BY <1>2, CheckInv, SaveFullInv, SaveJoinInv, SaveNewInv, SendDoneInv, FillEndInv,
     ReadErrorInv, WriteErrorInv, ExpireInv, CleanInv DEF Next
<1> QED BY <1>1, <1>2

(* The invariant holds in every state. *)
LEMMA AlwaysInv ==
  ASSUME Faults = {}
  PROVE  Spec => []IInv
BY InitInv, NextInv, PTL DEF Spec

----------------------------------------------------------------------------
(* No reference count and no store size falls below zero, through every    *)
(* order of hits, joins, errors, expiry of unused objects and the final    *)
(* clean. *)
THEOREM TypeCorrect ==
  ASSUME Faults = {}
  PROVE  Spec => []TypeOK
<1>1. IInv => TypeOK
  BY DEF IInv
<1> QED BY <1>1, AlwaysInv, PTL

(* hin_cache_ref and hin_cache_unref are balanced: the count of an object  *)
(* is the number of references that exist. *)
THEOREM RefcountCorrect ==
  ASSUME Faults = {}
  PROVE  Spec => []RefcountExact
<1>1. IInv => RefcountExact
  BY DEF IInv, ItemOK, LiveOK, RefcountExact, TableRef
<1> QED BY <1>1, AlwaysInv, PTL

(* Neither the table, nor a client, nor the filling pipe refers to an      *)
(* object that hin_cache_unref has freed. *)
THEOREM NoDanglingCorrect ==
  ASSUME Faults = {}
  PROVE  Spec => []NoDanglingItem
<1>1. IInv => NoDanglingItem
  BY DEF IInv, ItemOK, FreedOK, Listed, NoDanglingItem
<1> QED BY <1>1, AlwaysInv, PTL

(* store->size is what the table holds, and hin_cache_clean frees every    *)
(* complete object. *)
THEOREM StoreCorrect ==
  ASSUME Faults = {}
  PROVE  Spec => []StoreExact
<1>1. IInv => StoreExact
  BY DEF IInv
<1> QED BY <1>1, AlwaysInv, PTL
=============================================================================
