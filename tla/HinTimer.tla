------------------------------ MODULE HinTimer ------------------------------
(***************************************************************************)
(* The timer list of system/timing.c with the timers that are put on it:   *)
(* the idle timeout of every httpd client and the max-age of every cached  *)
(* object.                                                                 *)
(*                                                                         *)
(* hin_timer_check walks the list with a saved successor while callbacks   *)
(* re-arm, remove and free timers, so it is modelled one callback at a     *)
(* time.  No handler runs in between; the clock may move.                  *)
(***************************************************************************)
EXTENDS Integers, FiniteSets, FiniteSetsExt, SequencesExt

CONSTANTS Clients,   \* timers of httpd clients
          Objects,   \* timers of cached objects
          None,      \* the end of the list
          Rearm,     \* seconds a busy client is given (5 in the code)
          DelaySets, \* configurations: the timeouts and max-ages in use
          MaxDelay,  \* the longest of them
          MaxTime    \* bound on the clock

Timers == Clients \cup Objects

ASSUME TimerAssumption ==
  /\ MaxTime \in Nat \ {0} /\ MaxDelay \in Nat
  /\ Rearm \in 1 .. MaxDelay
  /\ \A D \in DelaySets : D \subseteq 1 .. MaxDelay
  /\ Clients \cap Objects = {}
  /\ None \notin Timers

VARIABLES delays,  \* the configuration
          now,     \* time (NULL)
          list,    \* timers
          time,    \* timer->time, 0 when not armed
          owner,   \* the client or object that holds the timer
          phase,   \* inside hin_timer_check, or inside the one of a flush
          elem,    \* hin_timer_check's saved successor
          tm       \* hin_timer_check's time

vars == <<delays, now, list, time, owner, phase, elem, tm>>

(* "waits": an httpd client that may be closed (HIN_REQ_HEADERS, POST or   *)
(* END), an object only the hash table refers to;  "busy": a client being  *)
(* answered, an object clients refer to;  "closing": a client whose close  *)
(* was requested;  "gone": freed, or not created yet. *)
OwnerState == {"gone", "waits", "busy", "closing"}

----------------------------------------------------------------------------
(* Operations on [list, time]. *)
L == [list |-> list, time |-> time]

Listed(q, t) == t \in ToSet(q.list)

Index(l, t) == CHOOSE i \in 1 .. Len(l) : l[i] = t

Next1(l, t) == LET i == Index(l, t) IN IF i < Len(l) THEN l[i + 1] ELSE None

(* basic_dlist_remove, which does nothing to a timer that is not listed. *)
Unlinked(l, t) == IF t \in ToSet(l) THEN RemoveAt(l, Index(l, t)) ELSE l

hin_timer_remove(q, t) == [list |-> Unlinked(q.list, t),
                           time |-> [q.time EXCEPT ![t] = 0]]

(* hin_timer_update, the new time being later: walk forward from the       *)
(* timer's own place (an unlisted timer has no successor). *)
MutUpdateLaterStays(q, t, new) ==
  [list |-> IF Listed(q, t) THEN q.list ELSE Append(q.list, t),
   time |-> [q.time EXCEPT ![t] = new]]

UpdateLater(q, t, new) ==
  LET rest == Unlinked(q.list, t)
      ahead == {j \in 1 .. Len(q.list) : /\ Listed(q, t) /\ j > Index(q.list, t)
                                         /\ q.time[q.list[j]] >= new}
      place == IF ahead = {} THEN Len(rest) + 1 ELSE Min(ahead) - 1
  IN [list |-> InsertAt(rest, place, t), time |-> [q.time EXCEPT ![t] = new]]

(* ... or earlier: walk backward from it. *)
UpdateEarlier(q, t, new) ==
  LET rest == Unlinked(q.list, t)
      behind == {j \in 1 .. Len(q.list) : /\ Listed(q, t) /\ j < Index(q.list, t)
                                          /\ q.time[q.list[j]] <= new}
      place == IF behind = {} THEN 1 ELSE Max(behind) + 1
  IN [list |-> InsertAt(rest, place, t), time |-> [q.time EXCEPT ![t] = new]]

MutUpdateExtends(q, t, new) ==
  IF q.time[t] = new THEN q
  ELSE UpdateLater(q, t, q.time[t] + new)

hin_timer_update(q, t, new) ==
  IF q.time[t] = new THEN q
  ELSE IF q.time[t] < new THEN UpdateLater(q, t, new) ELSE UpdateEarlier(q, t, new)

----------------------------------------------------------------------------
Init == /\ delays \in DelaySets
        /\ now = 1
        /\ list = <<>>
        /\ time = [t \in Timers |-> 0]
        /\ owner = [t \in Timers |-> "gone"]
        /\ phase = "none"
        /\ elem = None
        /\ tm = 0

Tick == /\ now < MaxTime
        /\ now' = now + 1
        /\ UNCHANGED <<delays, list, time, owner, phase, elem, tm>>

(* A handler of the event loop, between two walks. *)
Handler == phase = "none" /\ UNCHANGED <<delays, now, phase, elem, tm>>

Become(q) == list' = q.list /\ time' = q.time

(* httpd_client_accept, httpd_client_start_request and every               *)
(* httpd_vhost_switch ping the client with the timeout of the vhost. *)
httpd_client_ping(c, d) ==
  /\ Handler
  /\ owner[c] # "busy"
  /\ owner' = [owner EXCEPT ![c] = IF @ = "gone" THEN "waits" ELSE @]
  /\ Become(hin_timer_update(L, c, now + d))

(* A request is complete and is being answered. *)
Answer(c) == /\ Handler
             /\ owner[c] = "waits"
             /\ owner' = [owner EXCEPT ![c] = "busy"]
             /\ UNCHANGED <<list, time>>

(* httpd_client_finish_request on a kept connection: httpd_client_clean    *)
(* drops the timer, httpd_client_start_request arms it again. *)
NextRequest(c, d) ==
  /\ Handler
  /\ owner[c] = "busy"
  /\ owner' = [owner EXCEPT ![c] = "waits"]
  /\ Become(hin_timer_update(hin_timer_remove(L, c), c, now + d))

(* httpd_client_shutdown, by either end of the connection. *)
Shutdown(c) == /\ Handler
               /\ owner[c] \in {"waits", "busy"}
               /\ owner' = [owner EXCEPT ![c] = "closing"]
               /\ UNCHANGED <<list, time>>

(* httpd_client_close_callback: httpd_client_clean, then the client is freed. *)
Closed(c) == /\ Handler
             /\ owner[c] = "closing"
             /\ owner' = [owner EXCEPT ![c] = "gone"]
             /\ Become(hin_timer_remove(L, c))

(* hin_cache_save arms the object's max-age. *)
Save(o, d) == /\ Handler
              /\ owner[o] = "gone"
              /\ owner' = [owner EXCEPT ![o] = "busy"]
              /\ Become(hin_timer_update(L, o, now + d))

(* Clients come and go; the last reference frees the object. *)
Use(o) == /\ Handler
          /\ owner[o] \in {"busy", "waits"}
          /\ \/ /\ owner' = [owner EXCEPT ![o] = IF @ = "busy" THEN "waits" ELSE "busy"]
                /\ UNCHANGED <<list, time>>
             \/ /\ owner' = [owner EXCEPT ![o] = "gone"]
                /\ Become(hin_timer_remove(L, o))

(* hin_timer_check begins, from the timer or at the end of a flush. *)
hin_timer_check == /\ phase = "none"
                   /\ phase' = "check"
                   /\ elem' = IF list = <<>> THEN None ELSE list[1]
                   /\ tm' = now
                   /\ UNCHANGED <<delays, now, list, time, owner>>

hin_timer_flush == /\ phase = "none"
                   /\ phase' = "flush"
                   /\ time' = [t \in Timers |-> 0]
                   /\ elem' = IF list = <<>> THEN None ELSE list[1]
                   /\ tm' = now
                   /\ UNCHANGED <<delays, now, list, owner>>

(* httpd_timeout_callback closes a client that waits and re-arms a busy    *)
(* one (one that is closing may be in either state); hin_timer_check then  *)
(* drops what is still due. *)
httpd_timeout_callback(c) ==
  \/ /\ owner[c] # "busy"
     /\ owner' = [owner EXCEPT ![c] = "closing"]
     /\ Become(hin_timer_remove(L, c))
  \/ /\ owner[c] # "waits"
     /\ UNCHANGED owner
     /\ LET q == hin_timer_update(L, c, now + Rearm)
        IN Become(IF q.time[c] <= tm THEN hin_timer_remove(q, c) ELSE q)

(* hin_cache_timeout_callback frees the object unless clients refer to it; *)
(* it returns 1, so the timer of one that stays is still listed. *)
hin_cache_timeout_callback(o) ==
  \/ /\ owner' = [owner EXCEPT ![o] = "gone"]
     /\ Become(hin_timer_remove(L, o))
  \/ /\ owner[o] = "busy"
     /\ UNCHANGED <<list, time, owner>>

MutFireKeepsCursor(t) ==
  /\ phase # "none" /\ elem = t
  /\ time[t] <= tm
  /\ elem' = t
  /\ t \in Clients => httpd_timeout_callback(t)
  /\ t \in Objects => hin_cache_timeout_callback(t)
  /\ UNCHANGED <<delays, now, phase, tm>>

MutFireSuccessorLate(t) ==
  /\ phase # "none" /\ elem = t
  /\ time[t] <= tm
  /\ t \in Clients => httpd_timeout_callback(t)
  /\ t \in Objects => hin_cache_timeout_callback(t)
  /\ elem' = IF t \in ToSet(list') THEN Next1(list', t) ELSE None
  /\ UNCHANGED <<delays, now, phase, tm>>

(* One turn of hin_timer_check's loop. *)
Fire(t) ==
  /\ phase # "none" /\ elem = t
  /\ time[t] <= tm
  /\ elem' = Next1(list, t)
  /\ t \in Clients => httpd_timeout_callback(t)
  /\ t \in Objects => hin_cache_timeout_callback(t)
  /\ UNCHANGED <<delays, now, phase, tm>>

(* ... which ends at the first timer that is not due. *)
Stop == /\ phase # "none"
        /\ elem # None => time[elem] > tm
        /\ phase' = "none" /\ elem' = None /\ tm' = 0
        /\ UNCHANGED <<delays, now, list, time, owner>>

Next == \/ Tick \/ hin_timer_check \/ hin_timer_flush \/ Stop
        \/ \E c \in Clients : \/ Answer(c) \/ Shutdown(c) \/ Closed(c)
                              \/ \E d \in delays : \/ httpd_client_ping(c, d)
                                                   \/ NextRequest(c, d)
        \/ \E o \in Objects : Use(o) \/ \E d \in delays : Save(o, d)
        \/ \E t \in Timers : Fire(t)

Spec == Init /\ [][Next]_vars

----------------------------------------------------------------------------
(* Type invariant.  No timer is ever armed further ahead than the longest  *)
(* timeout in use, however often it was re-armed. *)
TypeOK == /\ delays \in DelaySets
          /\ now \in 1 .. MaxTime
          /\ list \in Seq(Timers)
          /\ time \in [Timers -> 0 .. now + MaxDelay]
          /\ owner \in [Timers -> OwnerState]
          /\ phase \in {"none", "check", "flush"}
          /\ elem \in Timers \cup {None}
          /\ tm \in 0 .. MaxTime

(* The list holds each armed timer exactly once, and no timer of a freed   *)
(* client or object: the next walk never calls into freed memory.  The     *)
(* successor hin_timer_check saved before a callback is still on the list  *)
(* after it, whatever the callback re-armed or freed. *)
ListExact ==
  /\ \A i, j \in 1 .. Len(list) : list[i] = list[j] => i = j
  /\ \A t \in Timers : time[t] # 0 => t \in ToSet(list)
  /\ \A t \in ToSet(list) : owner[t] # "gone"
  /\ elem # None => elem \in ToSet(list)

(* hin_timer_flush, on quit or restart, ends the idle clients: every timer *)
(* it found is visited although busy clients move to later places while    *)
(* it runs, so no waiting client is left to hold the process. *)
FlushVisitsAll ==
  [][phase = "flush" /\ phase' = "none" =>
       \A c \in Clients : owner[c] = "waits" => c \notin ToSet(list)]_vars

InOrder(l, at) == \A i, j \in 1 .. Len(l) : i < j => at[l[i]] <= at[l[j]]

(* With one timeout for every timer, not shorter than Rearm, the list is   *)
(* in the order of time, so stopping at the first timer not due misses     *)
(* none.  (With several timeouts it is not: hin_timer_update appends.) *)
SortedWhenUniform ==
  Cardinality(delays) = 1 /\ (\A d \in delays : d >= Rearm) => InOrder(list, time)
=============================================================================
