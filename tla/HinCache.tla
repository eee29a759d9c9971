------------------------------ MODULE HinCache ------------------------------
(***************************************************************************)
(* The local cache of generated responses (http/cache/cache.c) with the    *)
(* callers that drive it: httpd requests that look an object up, CGI       *)
(* headers that offer an output for saving, the pipe that fills an object, *)
(* the pipes that send it, and its max-age timer.                          *)
(*                                                                         *)
(* An object is reference counted: one reference for the hash table, one   *)
(* for each client that waits for it or is being sent it.  A freed object  *)
(* keeps its record, so that a late hin_cache_unref is seen.               *)
(***************************************************************************)
EXTENDS Integers, FiniteSets

CONSTANTS Keys,      \* cache keys
          Requests,  \* client requests, each answered once
          Items,     \* the objects calloc can return, each used once
          None,
          MaxSize,   \* store->max_size
          ObjSize,   \* bytes an output holds
          Faults     \* what the environment may do besides the normal case

(* "expire_in_use": max-age passes while clients wait for the object or are *)
(* sent it;  "newer_object": while a filling pipe that failed reading is   *)
(* still writing, another request begins an object of the same key;        *)
(* "out_of_range": a request asks for a Range the object does not have. *)
ASSUME CacheAssumption ==
  /\ Faults \subseteq {"expire_in_use", "newer_object", "out_of_range"}
  /\ None \notin Items \cup Keys
  /\ MaxSize \in Nat /\ ObjSize \in Nat
  /\ IsFiniteSet(Requests)

VARIABLES store, \* default_store exists: hin_cache_clean has not run
          ht,    \* the hash table
          item,  \* hin_cache_item_t
          size,  \* store->size
          req,   \* where each request stands
          of     \* the key a request is for and the object it refers to

vars == <<store, ht, item, size, req, of>>

(* fill: the pipe that generates the object is "running", "drains" after a *)
(* read error, or is over. *)
ItemType == [state : {"unused", "live", "freed"}, key : Keys \cup {None},
             ref : Nat, queue : SUBSET Requests, flags : SUBSET {"DONE", "ERROR"},
             size : Nat, timer : BOOLEAN, fill : {"none", "running", "drains"}]

Unused == [state |-> "unused", key |-> None, ref |-> 0, queue |-> {},
           flags |-> {}, size |-> 0, timer |-> FALSE, fill |-> "none"]

----------------------------------------------------------------------------
(* n calls of hin_cache_unref; the one that reaches zero frees the object  *)
(* with its timer and its queue (hin_cache_item_clean). *)
MutUnrefLeaks(o, n) == [o EXCEPT !.ref = @ - n]

MutUnrefEarly(o, n) ==
  [o EXCEPT !.ref = @ - n,
            !.state = IF o.ref - n <= 1 THEN "freed" ELSE @,
            !.timer = IF o.ref - n <= 1 THEN FALSE ELSE @]

hin_cache_unref(o, n) ==
  LET zero == n > 0 /\ o.ref - n <= 0 /\ o.ref > 0
  IN [o EXCEPT !.ref = @ - n,
               !.state = IF zero THEN "freed" ELSE @,
               !.timer = IF zero THEN FALSE ELSE @,
               !.queue = IF zero THEN {} ELSE @]

(* basic_ht_delete_pair: whatever object the key has. *)
Delete(k) == [ht EXCEPT ![k] = None]

(* hin_cache_pipe_error_callback on object o: every waiting client gets a  *)
(* 500 and gives its reference back. *)
ErrorCallback(o) ==
  [hin_cache_unref(o, Cardinality(o.queue)) EXCEPT !.queue = {},
                                                   !.flags = @ \cup {"ERROR"}]

(* hin_cache_finish, the finish_callback of the filling pipe: the waiting  *)
(* clients keep their reference while they are sent the object. *)
FinishCallback(o) ==
  IF "ERROR" \in o.flags
  THEN [hin_cache_unref(o, 1) EXCEPT !.fill = "none"]
  ELSE [o EXCEPT !.fill = "none", !.size = ObjSize,
                 !.flags = @ \cup {"DONE"}, !.queue = {}]

----------------------------------------------------------------------------
Init == /\ store = TRUE
        /\ ht = [k \in Keys |-> None]
        /\ item = [i \in Items |-> Unused]
        /\ size = 0
        /\ req = [r \in Requests |-> "idle"]
        /\ of = [r \in Requests |-> [key |-> None, item |-> None]]

(* While the store exists. *)
Serving == store /\ UNCHANGED store

(* hin_cache_serve_client: httpd_send_file starts a pipe, or answers 416   *)
(* and keeps the reference it was given. *)
Served == {"sent"} \cup IF "out_of_range" \in Faults THEN {"refused"} ELSE {}

(* hin_cache_check: a present object is sent at once, otherwise the CGI    *)
(* program is started. *)
MutCheckNoRef(r, k) ==
  /\ Serving
  /\ req[r] = "idle"
  /\ req' = [req EXCEPT ![r] = IF ht[k] = None THEN "miss" ELSE "sent"]
  /\ of' = [of EXCEPT ![r] = [key |-> k, item |-> ht[k]]]
  /\ UNCHANGED <<ht, item, size>>

hin_cache_check(r, k) ==
  /\ Serving
  /\ req[r] = "idle"
  /\ of' = [of EXCEPT ![r] = [key |-> k, item |-> ht[k]]]
  /\ IF ht[k] = None
     THEN req' = [req EXCEPT ![r] = "miss"] /\ UNCHANGED item
     ELSE /\ \E how \in Served : req' = [req EXCEPT ![r] = how]
          /\ item' = [item EXCEPT ![ht[k]].ref = @ + 1]
  /\ UNCHANGED <<ht, size>>

(* hin_cache_save, when the headers of the CGI output arrive. *)
SaveFull(r) ==
  /\ Serving
  /\ req[r] = "miss"
  /\ size >= MaxSize
  /\ req' = [req EXCEPT ![r] = "direct"]
  /\ UNCHANGED <<ht, item, size, of>>

SaveJoin(r) ==
  /\ Serving
  /\ req[r] = "miss"
  /\ size < MaxSize
  /\ ht[of[r].key] # None
  /\ LET i == ht[of[r].key]
     IN /\ item' = [item EXCEPT ![i].queue = @ \cup {r}, ![i].ref = @ + 1]
        /\ of' = [of EXCEPT ![r].item = i]
  /\ req' = [req EXCEPT ![r] = "queued"]
  /\ UNCHANGED <<ht, size>>

SaveNew(r, i) ==
  /\ Serving
  /\ req[r] = "miss"
  /\ size < MaxSize
  /\ ht[of[r].key] = None
  /\ item[i].state = "unused"
  /\ ht' = [ht EXCEPT ![of[r].key] = i]
  /\ item' = [item EXCEPT ![i] = [Unused EXCEPT
       !.state = "live", !.key = of[r].key, !.ref = 2, !.queue = {r},
       !.timer = TRUE, !.fill = "running"]]
  /\ req' = [req EXCEPT ![r] = "queued"]
  /\ of' = [of EXCEPT ![r].item = i]
  /\ UNCHANGED size

(* openat fails: the object stays in the table, unfilled, and the output   *)
(* goes to the client directly. *)
SaveOpenFails(r, i) ==
  /\ Serving
  /\ req[r] = "miss"
  /\ size < MaxSize
  /\ ht[of[r].key] = None
  /\ item[i].state = "unused"
  /\ ht' = [ht EXCEPT ![of[r].key] = i]
  /\ item' = [item EXCEPT ![i] = [Unused EXCEPT
       !.state = "live", !.key = of[r].key, !.ref = 2, !.queue = {r}]]
  /\ req' = [req EXCEPT ![r] = "direct"]
  /\ UNCHANGED <<size, of>>

(* The filling pipe ends well, or after draining what it had read. *)
MutFillEndKeepsSize(i) ==
  /\ Serving
  /\ item[i].fill # "none"
  /\ item' = [item EXCEPT ![i] = FinishCallback(@)]
  /\ req' = [r \in Requests |-> IF r \in item[i].queue THEN "sent" ELSE req[r]]
  /\ UNCHANGED <<ht, size, of>>

MutFillEndForgets(i) ==
  /\ Serving
  /\ item[i].fill # "none"
  /\ item' = [item EXCEPT ![i] = [FinishCallback(@) EXCEPT !.queue = item[i].queue]]
  /\ size' = size + item'[i].size
  /\ UNCHANGED <<ht, req, of>>

FillEnd(i) ==
  /\ Serving
  /\ item[i].fill # "none"
  /\ item' = [item EXCEPT ![i] = FinishCallback(@)]
  /\ size' = IF "ERROR" \in item[i].flags THEN size ELSE size + ObjSize
  /\ \E how \in [item[i].queue -> Served] :
       req' = IF "ERROR" \in item[i].flags THEN req
              ELSE [r \in Requests |-> IF r \in item[i].queue THEN how[r] ELSE req[r]]
  /\ UNCHANGED <<ht, of>>

(* Reading the CGI output fails: hin_pipe_read_callback reports it and     *)
(* goes on writing what it has. *)
FillReadError(i) ==
  /\ Serving
  /\ item[i].fill = "running"
  /\ item' = [item EXCEPT ![i] = [ErrorCallback(@) EXCEPT !.fill = "drains"]]
  /\ req' = [r \in Requests |-> IF r \in item[i].queue THEN "failed" ELSE req[r]]
  /\ ht' = Delete(item[i].key)
  /\ UNCHANGED <<size, of>>

(* Writing the cache file fails: the error callback and finish_callback    *)
(* run one after the other. *)
FillWriteError(i) ==
  /\ Serving
  /\ \/ item[i].fill = "running"
     \/ /\ item[i].fill = "drains"
        /\ ht[item[i].key] # None => "newer_object" \in Faults
  /\ item' = [item EXCEPT ![i] = FinishCallback(ErrorCallback(@))]
  /\ req' = [r \in Requests |-> IF r \in item[i].queue THEN "failed" ELSE req[r]]
  /\ ht' = Delete(item[i].key)
  /\ UNCHANGED <<size, of>>

(* done_file: the pipe that sends the object (or the direct output) ends. *)
SendDone(r) ==
  /\ Serving
  /\ req[r] \in {"sent", "direct"}
  /\ req' = [req EXCEPT ![r] = "answered"]
  /\ item' = IF req[r] = "sent"
             THEN [item EXCEPT ![of[r].item] = hin_cache_unref(@, 1)] ELSE item
  /\ UNCHANGED <<ht, size, of>>

Sent(i) == {r \in Requests : req[r] = "sent" /\ of[r].item = i}

InUse(i) == item[i].fill # "none" \/ item[i].queue # {} \/ Sent(i) # {}

(* hin_cache_timeout_callback and hin_cache_remove. It returns 1, so only  *)
(* freeing the object takes its timer off the list. *)
Expire(i) ==
  /\ Serving
  /\ item[i].timer
  /\ InUse(i) => "expire_in_use" \in Faults
  /\ ht' = Delete(item[i].key)
  /\ size' = size - item[i].size
  /\ item' = [item EXCEPT ![i] = hin_cache_unref(@, 1)]
  /\ UNCHANGED <<req, of>>

(* hin_cache_clean, when the event loop has ended: every connection is     *)
(* closed, so no request is under way. *)
hin_cache_clean ==
  /\ store
  /\ \A r \in Requests : req[r] \in {"idle", "failed", "refused", "answered"}
  /\ store' = FALSE
  /\ ht' = [k \in Keys |-> None]
  /\ item' = [i \in Items |-> IF item[i].key # None /\ ht[item[i].key] = i
                              THEN hin_cache_unref(item[i], 1) ELSE item[i]]
  /\ UNCHANGED <<size, req, of>>

Next == \/ \E r \in Requests, k \in Keys : hin_cache_check(r, k)
        \/ \E r \in Requests : SaveFull(r) \/ SaveJoin(r) \/ SendDone(r)
        \/ \E r \in Requests, i \in Items : SaveNew(r, i) \/ SaveOpenFails(r, i)
        \/ \E i \in Items : \/ FillEnd(i) \/ FillReadError(i)
                            \/ FillWriteError(i) \/ Expire(i)
        \/ hin_cache_clean

(* The filling pipe and the sending pipes complete. *)
Fairness == /\ \A i \in Items : WF_vars(FillEnd(i) \/ FillWriteError(i))
            /\ \A r \in Requests : WF_vars(SendDone(r))

Spec == Init /\ [][Next]_vars

FairSpec == Spec /\ Fairness

----------------------------------------------------------------------------
(* Type invariant: no reference count and no store size falls below zero. *)
TypeOK ==
  /\ store \in BOOLEAN
  /\ ht \in [Keys -> Items \cup {None}]
  /\ item \in [Items -> ItemType]
  /\ size \in Nat
  /\ req \in [Requests ->
       {"idle", "miss", "direct", "queued", "sent", "refused", "failed",
        "answered"}]
  /\ of \in [Requests -> [key : Keys \cup {None}, item : Items \cup {None}]]

HasTableRef(i) ==
  \/ ht[item[i].key] = i
  \/ "ERROR" \in item[i].flags /\ item[i].fill # "none"

(* The count of every object is exactly the references that exist: the     *)
(* table's (kept for hin_cache_finish after an error), the waiting clients'*)
(* and the clients' being sent it.  Nothing is leaked and nothing is given *)
(* back twice, through every order of hits, joins, errors and expiry. *)
RefcountExact ==
  \A i \in Items : item[i].state = "live" =>
    item[i].ref = (IF HasTableRef(i) THEN 1 ELSE 0)
                  + Cardinality(item[i].queue) + Cardinality(Sent(i))

(* No reference leads to a freed object. *)
NoDanglingItem ==
  /\ \A k \in Keys : ht[k] # None => item[ht[k]].state = "live"
  /\ \A i \in Items : item[i].state = "freed" =>
       Sent(i) = {} /\ item[i].queue = {} /\ item[i].fill = "none"

(* hin_cache_clean frees every object that was completed: no timer is left *)
(* on the list to fire into the freed store. *)
CleanFreesAll ==
  ~store => \A i \in Items : "DONE" \in item[i].flags => item[i].state = "freed"

(* store->size, which decides whether the cache is full, is what the       *)
(* objects in the table hold. *)
SizeExact ==
  store => size = ObjSize * Cardinality({k \in Keys : ht[k] # None /\ "DONE" \in item[ht[k]].flags})

(* The store is exact while it serves, and empty when it is gone. *)
StoreExact == SizeExact /\ CleanFreesAll

(* A client that waits for an object being generated gets an answer. *)
WaiterAnswered ==
  \A r \in Requests :
    (req[r] = "queued" /\ item[of[r].item].fill # "none") ~>
      req[r] \in {"answered", "refused", "failed"}

(* cache.c's own check in hin_cache_unref: no reference count falls below  *)
(* zero. *)
RefcountNotNegative == \A i \in Items : item[i].ref >= 0
=============================================================================
