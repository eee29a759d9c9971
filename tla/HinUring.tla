------------------------------ MODULE HinUring ------------------------------
(***************************************************************************)
(* The event loop: requests put on the io_uring submission ring or, when   *)
(* it is full, on a list of their own (netcode/uring.c); the tick that     *)
(* keeps the loop turning (netcode/timer.c); the descriptors the ring      *)
(* cannot serve, which are polled from that tick (netcode/epoll.c).        *)
(*                                                                         *)
(* The rest of the program is the owner of the buffers: while a callback   *)
(* runs it asks for reads, writes, accepts and so on, each on a buffer of  *)
(* its own.  What a request transfers, its result and TLS are left out.    *)
(***************************************************************************)
EXTENDS Integers, Sequences, FiniteSets

CONSTANTS Timer,      \* timeout_buffer
          Ring,       \* buffers whose requests go to the ring
          Poll,       \* buffers with HIN_EPOLL: the console and the signals
          Files,      \* buffers of httpd_handle_file_request, for a path
          Patient,    \* of Ring: an accept, or the read of a quiet peer
          Depth,      \* HIN_URING_QUEUE_DEPTH
          MaxRequests \* bound on the requests made for one buffer

ASSUME UringAssumption ==
  /\ Timer \notin Ring /\ Timer \notin Poll /\ Timer \notin Files
  /\ Ring \cap Poll = {} /\ Ring \cap Files = {} /\ Poll \cap Files = {}
  /\ Patient \subseteq Ring
  /\ Depth \in Nat /\ Depth >= 2
  /\ MaxRequests \in Nat

None == "none"

Buffers == {Timer} \cup Ring \cup Poll \cup Files

(* The buffers whose requests the ring carries. *)
OnRing == {Timer} \cup Ring

VARIABLES
  active,  \* buffers with HIN_ACTIVE
  freed,   \* buffers given to hin_buffer_clean
  sq,      \* entries of the submission ring the kernel has not taken yet
  queue,   \* the overflow list, newest first
  kernel,  \* requests the kernel works on, per buffer
  cq,      \* completions not processed yet
  polled,  \* buffers registered with epoll
  left,    \* requests that may still be made, per buffer
  pc,      \* where the main loop is
  cur      \* the buffer whose callback runs

vars == <<active, freed, sq, queue, kernel, cq, polled, left, pc, cur>>

----------------------------------------------------------------------------
MutActiveUnchecked(b) == active' = active \cup {b}

(* hin_request_active: one request per buffer at a time. *)
hin_request_active(b) == b \notin active /\ active' = active \cup {b}

(* hin_request_sqe: an entry of the ring r or, when it is full, of the     *)
(* overflow list q. *)
hin_request_sqe(b, r, q) ==
  IF Len(r) < Depth
  THEN sq' = Append(r, b) /\ queue' = q
  ELSE sq' = r /\ queue' = <<b>> \o q

MutDrainAll ==
  LET n == IF Len(queue) < Depth - Len(sq) THEN Len(queue) ELSE Depth - Len(sq)
  IN [sq |-> sq \o SubSeq(queue, 1, n), queue |-> SubSeq(queue, n + 1, Len(queue))]

MutDrainNever == [sq |-> sq, queue |-> queue]

(* What hin_process_sqe_queue leaves: of the overflow list the newest is   *)
(* moved, when the ring has room. *)
hin_process_sqe_queue ==
  IF queue = <<>> \/ Len(sq) >= Depth
  THEN [sq |-> sq, queue |-> queue]
  ELSE [sq |-> Append(sq, Head(queue)), queue |-> Tail(queue)]

(* hin_event_init and hin_timer_init; then the configuration is loaded,    *)
(* which makes the first requests. *)
Init ==
  /\ active = {Timer} /\ freed = {}
  /\ sq = <<Timer>> /\ queue = <<>> /\ cq = <<>>
  /\ kernel = [b \in OnRing |-> 0]
  /\ polled = {}
  /\ left = [b \in Buffers \ {Timer} |-> MaxRequests]
  /\ pc = "callback" /\ cur = None

(* The owner of b makes its next request. *)
Asks(b) ==
  /\ pc = "callback" /\ b \notin freed
  /\ left[b] > 0
  /\ left' = [left EXCEPT ![b] = @ - 1]

(* hin_request_write, _read, _accept, _connect and _close of a buffer with *)
(* neither HIN_SYNC nor HIN_EPOLL.  (On a buffer that is active they       *)
(* return -1.) *)
hin_request(b) ==
  /\ Asks(b)
  /\ hin_request_active(b)
  /\ hin_request_sqe(b, sq, queue)
  /\ UNCHANGED <<freed, kernel, cq, polled, pc, cur>>

(* hin_epoll_request_read, from hin_request_read. *)
hin_epoll_request(b) ==
  /\ Asks(b)
  /\ hin_request_active(b)
  /\ polled' = polled \cup {b}
  /\ UNCHANGED <<freed, sq, queue, kernel, cq, pc, cur>>

(* httpd_handle_file_request: hin_request_openat with HIN_SYNC calls back  *)
(* at once and leaves HIN_ACTIVE set; hin_request_statx of the same buffer *)
(* then returns -1, which httpd_open_filefd_callback ignores. *)
httpd_handle_file_request(b) ==
  /\ Asks(b)
  /\ hin_request_active(b)
  /\ UNCHANGED <<freed, sq, queue, kernel, cq, polled, pc, cur>>

(* hin_event_wait: what is on the ring goes to the kernel. *)
hin_event_wait ==
  /\ pc = "wait"
  /\ kernel' = [b \in OnRing |-> kernel[b] + Cardinality({i \in DOMAIN sq : sq[i] = b})]
  /\ sq' = <<>>
  /\ pc' = "blocked"
  /\ UNCHANGED <<active, freed, queue, cq, polled, left, cur>>

(* The kernel completes a request, at any time and in any order. *)
Complete(b) ==
  /\ kernel[b] > 0
  /\ kernel' = [kernel EXCEPT ![b] = @ - 1]
  /\ cq' = Append(cq, b)
  /\ UNCHANGED <<active, freed, sq, queue, polled, left, pc, cur>>

(* hin_event_process up to the callback.  The bound of its loop is         *)
(* overwritten by the result of the callback, at most 1, so a turn         *)
(* processes one completion. *)
Turn(b) ==
  /\ pc = "blocked" /\ cq # <<>> /\ b = Head(cq)
  /\ cq' = Tail(cq)
  /\ pc' = "callback" /\ cur' = b
  /\ UNCHANGED <<freed, kernel, polled, left>>

(* ... the callback of a request. *)
hin_event_process(b) ==
  /\ Turn(b) /\ b # Timer
  /\ active' = active \ {b}
  /\ sq' = hin_process_sqe_queue.sq /\ queue' = hin_process_sqe_queue.queue

(* ... hin_timer_callback, which asks for the next tick before anything    *)
(* else. *)
hin_timer_callback ==
  /\ Turn(Timer)
  /\ active' = active
  /\ hin_request_sqe(Timer, hin_process_sqe_queue.sq, hin_process_sqe_queue.queue)

(* hin_epoll_check, from hin_timer_callback: the callback of a descriptor  *)
(* that is ready runs. *)
hin_epoll_check(b) ==
  /\ pc = "callback" /\ cur = Timer
  /\ b \in polled
  /\ polled' = polled \ {b}
  /\ active' = active \ {b}
  /\ UNCHANGED <<freed, sq, queue, kernel, cq, left, pc, cur>>

(* The callback returns; for a result other than 0 hin_event_process gives *)
(* the buffer to hin_buffer_clean. *)
Return(err) ==
  /\ pc = "callback"
  /\ err => cur \in Ring \ active
  /\ freed' = IF err THEN freed \cup {cur} ELSE freed
  /\ pc' = "wait" /\ cur' = None
  /\ UNCHANGED <<active, sq, queue, kernel, cq, polled, left>>

Next ==
  \/ \E b \in Ring : hin_request(b) \/ hin_event_process(b)
  \/ \E b \in Poll : hin_epoll_request(b) \/ hin_epoll_check(b)
  \/ \E b \in Files : httpd_handle_file_request(b)
  \/ \E b \in OnRing : Complete(b)
  \/ \E err \in BOOLEAN : Return(err)
  \/ hin_event_wait \/ hin_timer_callback

Spec == Init /\ [][Next]_vars

(* The process runs, the kernel completes what it can, ticks included; a   *)
(* descriptor that is ready again and again is found ready by some tick. *)
Fairness ==
  /\ WF_vars(hin_event_wait \/ Return(FALSE))
  /\ WF_vars(hin_timer_callback \/ \E b \in Ring : hin_event_process(b))
  /\ \A b \in OnRing \ Patient : WF_vars(Complete(b))
  /\ \A b \in Poll : SF_vars(hin_epoll_check(b))

FairSpec == Spec /\ Fairness

----------------------------------------------------------------------------
(* Type invariant of the loop. *)
TypeOK ==
  /\ active \subseteq Buffers /\ freed \subseteq Ring
  /\ sq \in Seq(OnRing) /\ queue \in Seq(OnRing) /\ cq \in Seq(OnRing)
  /\ kernel \in [OnRing -> Nat]
  /\ polled \subseteq Poll
  /\ left \in [Buffers \ {Timer} -> 0 .. MaxRequests]
  /\ pc \in {"wait", "blocked", "callback"}
  /\ cur \in OnRing \cup {None}

Count(s, b) == Cardinality({i \in DOMAIN s : s[i] = b})

(* The places where requests of b are. *)
Requests(b) == Count(sq, b) + Count(queue, b) + kernel[b] + Count(cq, b)

(* HIN_ACTIVE is exact: an active buffer has one request, on the ring, on  *)
(* the overflow list, with the kernel or completed, and a buffer that is   *)
(* not active, or was freed, has none.  So no request is lost or submitted *)
(* twice when the ring overflows, the list is drained and callbacks ask    *)
(* again, and no completion reaches a freed buffer. *)
RequestsExact ==
  /\ TypeOK
  /\ Len(sq) <= Depth
  /\ \A b \in OnRing : Requests(b) = IF b \in active THEN 1 ELSE 0
  /\ polled = active \cap Poll
  /\ freed \cap active = {}

(* The tick never goes to the overflow list: hin_timer_callback asks for   *)
(* the next one when the turn has put at most one other request on the     *)
(* ring.  Were it queued behind requests that wait for a peer,             *)
(* hin_event_wait could sleep for ever with work left in the list. *)
TickNeverQueued == Count(queue, Timer) = 0

(* Every request ends up with the kernel and completes, the overflow list  *)
(* notwithstanding and whatever accepts and reads wait for, as long as the *)
(* overload ends: the list is last in, first out, so requests that keep    *)
(* coming could hold the oldest there for ever. *)
RequestCompletes ==
  \A b \in (Ring \cup Poll) \ Patient : b \in active ~> b \notin active
=============================================================================
