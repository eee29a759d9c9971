------------------------------- MODULE HinFcgi -------------------------------
(***************************************************************************)
(* FastCGI: a group of backend connections, the workers (request slots)    *)
(* multiplexed over each connection, the requests that wait for a busy     *)
(* connection, uploads, and the records that come back (http/cgi/fcgi*.c   *)
(* and the FastCGI half of cgi_parse.c).                                   *)
(*                                                                         *)
(* A worker is shared by three parties that end in any order: the upload   *)
(* (HIN_REQ_POST), the answer (HIN_REQ_DATA) and the connection.  A worker *)
(* goes back to the idle list when both flags are clear, and the next      *)
(* request takes it from there without asking anyone.                      *)
(*                                                                         *)
(* A write of the request, an upload and a response pipe are single        *)
(* operations (HinPipe has the pipe).  Several records in one read are     *)
(* delivered one by one.  Left out: the response cache (HinCache), the     *)
(* contents of the parameters, and records that only get printed.  What C  *)
(* leaves undefined is recorded in `bad`, and ends the behaviour.          *)
(***************************************************************************)
EXTENDS Integers, SequencesExt

CONSTANTS Requests,  \* clients, each with one request for this group
          MaxSocket, \* fcgi->max_socket
          Mixes,     \* the kinds the requests may have: a set of functions
          Faults     \* what may go wrong, a subset of Fault

(* connect: a connection is refused;  resolve: the name of the backend     *)
(* does not resolve;  socket: no socket can be made;  close: the backend   *)
(* drops a connection;  abort: the client goes away while its answer is    *)
(* written;  bare: a request is ended without a response head;  stop: the  *)
(* program is asked to stop. *)
Fault == {"connect", "resolve", "socket", "close", "abort", "bare", "stop"}

(* What hin_connect does: start the connection; return at once, without a  *)
(* callback, when the name does not resolve; or call back with an error    *)
(* before it returns, when there is no socket. *)
Connecting == {"started", "unresolved", "failed"}

(* A POST whose body came with the head is "buffered"; the rest of an      *)
(* "upload" is still in the socket. *)
Kind == {"get", "buffered", "upload"}

None == 0   \* a NULL socket, worker or slot; both are numbered from 1

NoRequest == "none"

ASSUME FcgiAssumption ==
  /\ Requests # {} /\ NoRequest \notin Requests
  /\ MaxSocket \in Nat
  /\ Mixes \subseteq [Requests -> Kind]
  /\ Faults \subseteq Fault

VARIABLES g,      \* the group and everything reachable from it
          faults  \* what went wrong so far

vars == <<g, faults>>

(* httpd_client_t: begun counts response heads, ended the ends of the      *)
(* request; raw is an error response being written. *)
RequestType == [kind : Kind, flags : SUBSET {"DATA", "POST", "FCGI", "ERROR"},
                begun : Nat, raw : BOOLEAN, ended : Nat]

(* hin_fcgi_socket_t: reading is the read with the kernel;  peer tells     *)
(* whether the backend still has the connection open;  resolved, whether   *)
(* hin_connect will call back. *)
SocketType == [state : {"connecting", "open", "closed"}, busy : BOOLEAN,
               que : Seq(Nat), slots : Seq(Nat), numWorker : Nat,
               reading : BOOLEAN, peer : BOOLEAN, resolved : BOOLEAN, id : Nat]

(* hin_fcgi_worker_t and what points at it: the write of the request, the  *)
(* upload, and the response pipe (pipeFor is its parent; pending: bytes    *)
(* not written yet).  back: the requests the backend has for this slot. *)
WorkerType == [socket : Nat, freed : BOOLEAN, io : SUBSET {"DATA", "POST", "END"},
               http : Requests \cup {NoRequest}, header : BOOLEAN,
               out : {"none", "open", "freed"},
               writing : BOOLEAN, upload : Requests \cup {NoRequest},
               pipe : BOOLEAN, pipeFor : Requests \cup {NoRequest},
               pending : BOOLEAN, back : Seq(Requests)]

GroupType == [slots : [1 .. MaxSocket -> Nat], cur : Nat, idle : Seq(Nat),
              sock : Seq(SocketType), work : Seq(WorkerType),
              req : [Requests -> RequestType], stopped : BOOLEAN,
              bad : SUBSET {"null", "freed", "mixed"}]

----------------------------------------------------------------------------
(* The functions of the code, from a group to a group. *)

Bad(st, what) == [st EXCEPT !.bad = @ \cup {what}]

(* httpd_client_finish_request: nothing while the body is uploaded. *)
httpd_client_finish_request(st, r) ==
  IF st.req[r].ended > 0 THEN Bad(st, "freed")
  ELSE IF "POST" \in st.req[r].flags
  THEN [st EXCEPT !.req[r].flags = @ \ {"DATA"}]
  ELSE [st EXCEPT !.req[r].flags = {}, !.req[r].ended = @ + 1]

(* httpd_error with status 500. *)
httpd_error(st, r) ==
  IF st.req[r].ended > 0 THEN Bad(st, "freed")
  ELSE IF "ERROR" \in st.req[r].flags THEN st
  ELSE [st EXCEPT !.req[r].flags = (@ \ {"POST"}) \cup {"ERROR", "DATA"},
                  !.req[r].begun = @ + 1, !.req[r].raw = TRUE]

(* The body of the loop of hin_fcgi_socket_close: an error for the client, *)
(* and hin_fcgi_worker_reset with a NULL socket, which frees the worker    *)
(* unless an operation, or the idle list, still has it. *)
Abandon(st, w) ==
  LET r == st.work[w].http
      p == IF r = NoRequest THEN st ELSE httpd_error(st, r)
      q == [p EXCEPT !.work[w].http = NoRequest, !.work[w].socket = None]
  IN IF q.work[w].io # {} THEN q
     ELSE [q EXCEPT !.work[w].io = {"END"}, !.work[w].freed = TRUE]

(* hin_fcgi_socket_close.  hin_buffer_stop_clean frees the read buffer     *)
(* even when the kernel has it. *)
hin_fcgi_socket_close(st, s) ==
  LET list == st.sock[s].slots
      after[i \in 0 .. Len(list)] ==
        IF i = 0 THEN st
        ELSE IF list[i] = None THEN after[i - 1] ELSE Abandon(after[i - 1], list[i])
      q == after[Len(list)]
  IN IF st.stopped THEN Bad(st, "freed")
     ELSE [q EXCEPT !.sock[s].state = "closed", !.sock[s].slots = <<>>,
                    !.sock[s].que = <<>>,
                    !.slots = [i \in DOMAIN @ |-> IF i = st.sock[s].id THEN None ELSE @[i]]]

(* hin_fcgi_worker_free *)
hin_fcgi_worker_free(st, w) ==
  LET s == st.work[w].socket
      q == [st EXCEPT !.work[w].freed = TRUE, !.sock[s].numWorker = @ - 1,
                      !.sock[s].slots = [i \in DOMAIN @ |-> IF @[i] = w THEN None ELSE @[i]]]
  IN IF s = None THEN [st EXCEPT !.work[w].freed = TRUE]
     ELSE IF q.sock[s].numWorker <= 0 THEN hin_fcgi_socket_close(q, s) ELSE q

MutResetIgnoresPost(st, w) ==
  LET r == st.work[w].http
      q == IF r = NoRequest THEN st ELSE httpd_client_finish_request(st, r)
  IN IF st.work[w].io \cap {"DATA", "END"} # {} THEN st
     ELSE [q EXCEPT !.work[w].io = @ \cup {"END"}, !.work[w].http = NoRequest,
                    !.idle = Append(@, w)]

(* hin_fcgi_worker_reset of a worker that has a socket. *)
hin_fcgi_worker_reset(st, w) ==
  LET r == st.work[w].http
      p == [st EXCEPT !.work[w].io = @ \cup {"END"}, !.work[w].http = NoRequest]
      q == IF r = NoRequest THEN p ELSE httpd_client_finish_request(p, r)
  IN IF st.work[w].io # {} THEN st
     ELSE IF st.stopped THEN Bad(st, "freed")
     ELSE IF MaxSocket > 0 THEN [q EXCEPT !.idle = Append(@, w)]
     ELSE hin_fcgi_socket_close(q, st.work[w].socket)

(* The worker behind w on the list of waiting workers, or NULL. *)
NextQueued(st, s, w) ==
  LET q == st.sock[s].que
      later == {i \in 2 .. Len(q) : q[i - 1] = w}
  IN IF later = {} THEN None ELSE q[CHOOSE i \in later : TRUE]

(* basic_dlist_remove *)
basic_dlist_remove(l, w) ==
  IF w \in ToSet(l) THEN RemoveAt(l, CHOOSE i \in DOMAIN l : l[i] = w) ELSE l

MutContinueForgets(loop, st, s) == [st EXCEPT !.sock[s].busy = FALSE]

(* hin_fcgi_socket_continue; `loop` is its loop, which hin_fcgi_worker_run *)
(* below enters again. *)
hin_fcgi_socket_continue(loop, st, s) ==
  LET q == st.sock[s].que
  IN loop[<<[st EXCEPT !.sock[s].busy = FALSE], s,
            IF q = <<>> THEN None ELSE Head(q)>>]

(* hin_fcgi_stdin_done *)
hin_fcgi_stdin_done(loop, st, w) == hin_fcgi_socket_continue(loop, st, st.work[w].socket)

MutPostDoneFinishes(loop, st, w, r) ==
  LET p == hin_fcgi_stdin_done(loop, st, w)
      q == hin_fcgi_worker_reset([p EXCEPT !.work[w].io = @ \ {"POST"}], w)
  IN IF st.work[w].socket = None THEN Bad(st, "null")
     ELSE httpd_client_finish_request([q EXCEPT !.req[r].flags = @ \ {"POST"}], r)

(* hin_fcgi_post_done_callback of an upload of request r. *)
hin_fcgi_post_done_callback(loop, st, w, r) ==
  LET p == hin_fcgi_stdin_done(loop, st, w)
      q == hin_fcgi_worker_reset([p EXCEPT !.work[w].io = @ \ {"POST"}], w)
      done == [q EXCEPT !.req[r].flags = @ \ {"POST"}]
  IN IF st.work[w].socket = None THEN Bad(st, "null")
     ELSE IF "DATA" \in done.req[r].flags THEN done
     ELSE httpd_client_finish_request(done, r)

(* hin_fcgi_write_post, which starts the upload: when nothing of the body  *)
(* is left to read, hin_pipe_start ends it at once. *)
hin_fcgi_write_post(loop, st, w) ==
  LET r == st.work[w].http
      q == [st EXCEPT !.work[w].io = @ \cup {"POST"}, !.req[r].flags = @ \cup {"POST"}]
  IN CASE st.req[r].kind = "get" -> hin_fcgi_stdin_done(loop, st, w)
       [] st.req[r].kind = "buffered" -> hin_fcgi_post_done_callback(loop, q, w, r)
       [] st.req[r].kind = "upload" -> [q EXCEPT !.work[w].upload = r]

(* hin_fcgi_worker_run: wait while the connection is busy, else write the  *)
(* request (hin_fcgi_headers) and prepare for the answer                   *)
(* (hin_fcgi_pipe_init, hin_fcgi_send).  A second write of the same        *)
(* request, or one without a request, reads a NULL client. *)
hin_fcgi_worker_run(loop, st, w) ==
  LET s == st.work[w].socket
      p == [st EXCEPT !.sock[s].busy = TRUE, !.work[w].io = @ \cup {"DATA"}]
      q == hin_fcgi_write_post(loop, p, w)
  IN IF s = None \/ st.work[w].http = NoRequest THEN Bad(st, "null")
     ELSE IF st.sock[s].busy THEN [st EXCEPT !.sock[s].que = Append(@, w)]
     ELSE IF st.work[w].writing THEN Bad(st, "mixed")
     ELSE [q EXCEPT !.work[w].writing = TRUE, !.work[w].header = TRUE]

MutRunQueuedAgain(loop, st, s, next) ==
  IF next = None \/ st.sock[s].busy THEN st
  ELSE LET q == [st EXCEPT !.sock[s].que = basic_dlist_remove(@, next)]
       IN loop[<<hin_fcgi_worker_run(loop, q, next), s, NextQueued(st, s, next)>>]

(* One turn of the loop of hin_fcgi_socket_continue, and the rest of it.   *)
(* The next worker is remembered before this one runs, and running it      *)
(* enters the loop again: the worker remembered may have run by then. *)
RunQueued(loop, st, s, next) ==
  IF next = None \/ st.sock[s].busy THEN st
  ELSE IF "DATA" \in st.work[next].io THEN loop[<<st, s, NextQueued(st, s, next)>>]
  ELSE LET q == [st EXCEPT !.sock[s].que = basic_dlist_remove(@, next)]
       IN loop[<<hin_fcgi_worker_run(loop, q, next), s, NextQueued(st, s, next)>>]

(* The arguments of the loop: the group, the connection and the worker it  *)
(* starts from. *)
Calls == GroupType \X Nat \X Nat

(* The loop, for as many turns, one inside or after the other, as there    *)
(* can be workers waiting. *)
Loop(st) ==
  LET turns[n \in 0 .. Len(st.work) + 1] ==
        IF n = 0 THEN [a \in Calls |-> a[1]]
        ELSE [a \in Calls |-> RunQueued(turns[n - 1], a[1], a[2], a[3])]
  IN turns[Len(st.work) + 1]

NewSocket(pos, how) ==
  [state |-> IF how = "failed" THEN "closed" ELSE "connecting", busy |-> TRUE,
   que |-> <<>>, slots |-> <<>>, numWorker |-> 0, reading |-> FALSE, peer |-> TRUE,
   resolved |-> how # "unresolved", id |-> pos]

(* hin_fcgi_get_socket: the connections of the group in turn, made when    *)
(* they are missing.  The result of hin_connect is ignored: the connection *)
(* is stored, and used, although hin_fcgi_connect_callback has freed it    *)
(* when there was no socket, and although nobody will ever call back when  *)
(* its name did not resolve. *)
hin_fcgi_get_socket(st, how) ==
  LET pos == IF MaxSocket > 0 THEN (st.cur % MaxSocket) + 1 ELSE None
      p == [st EXCEPT !.cur = IF MaxSocket > 0 THEN pos % MaxSocket ELSE 0]
      n == Len(st.sock) + 1
      q == [p EXCEPT !.sock = Append(@, NewSocket(pos, how)),
                     !.slots = [i \in DOMAIN @ |-> IF i = pos THEN n ELSE @[i]]]
  IN IF pos # None /\ st.slots[pos] # None
     THEN [group |-> p, socket |-> st.slots[pos]]
     ELSE [group |-> IF how = "failed" THEN Bad(q, "freed") ELSE q, socket |-> n]

(* hin_fcgi_get_worker: an idle worker, or a new one with the next         *)
(* identifier of its connection. *)
hin_fcgi_get_worker(st, how) ==
  LET a == hin_fcgi_get_socket(st, how)
      n == Len(st.work) + 1
      new == [socket |-> a.socket, freed |-> FALSE, io |-> {}, http |-> NoRequest,
              header |-> FALSE, out |-> "none", writing |-> FALSE,
              upload |-> NoRequest, pipe |-> FALSE, pipeFor |-> NoRequest,
              pending |-> FALSE, back |-> <<>>]
  IN IF st.idle # <<>>
     THEN [group |-> [st EXCEPT !.idle = Tail(@), !.work[Head(st.idle)].io = @ \ {"END"}],
           worker |-> Head(st.idle)]
     ELSE [group |-> [a.group EXCEPT !.work = Append(@, new),
                                     !.sock[a.socket].numWorker = @ + 1,
                                     !.sock[a.socket].slots = Append(@, n)],
           worker |-> n]

(* hin_fastcgi, for a request that is not answered from the cache. *)
hin_fastcgi(st, r, how) ==
  LET q == [st EXCEPT !.req[r].flags = @ \cup {"DATA", "FCGI"}]
      a == hin_fcgi_get_worker(q, how)
      run == [a.group EXCEPT !.work[a.worker].http = r]
  IN IF st.stopped THEN Bad(st, "freed")
     ELSE hin_fcgi_worker_run(Loop(run), run, a.worker)

(* hin_fcgi_pipe_finish_callback: the response of the pipe of w ends. *)
hin_fcgi_pipe_finish_callback(st, w) ==
  LET r == st.work[w].http
      p == [st EXCEPT !.req[r].flags = @ \ {"FCGI"},
                      !.work[w].http = NoRequest, !.work[w].io = @ \ {"DATA"},
                      !.work[w].pipe = FALSE, !.work[w].pipeFor = NoRequest]
  IN IF r = NoRequest THEN Bad(st, "null")
     ELSE httpd_client_finish_request(hin_fcgi_worker_reset(p, w), st.work[w].pipeFor)

(* hin_fcgi_pipe_write, of a record of request r: the first one completes  *)
(* the head, and hin_cgi_headers_read_callback starts the response pipe. *)
hin_fcgi_pipe_write(st, w, r) ==
  LET k == st.work[w]
  IN IF k.http # NoRequest /\ k.http # r THEN Bad(st, "mixed")
     ELSE IF k.header
     THEN [st EXCEPT !.work[w].header = FALSE, !.work[w].out = "open",
                     !.work[w].pipe = TRUE, !.work[w].pipeFor = k.http,
                     !.work[w].pending = TRUE, !.req[r].begun = @ + 1]
     ELSE IF k.out = "none" THEN Bad(st, "null")
     ELSE IF k.out = "freed" THEN Bad(st, "freed")
     ELSE [st EXCEPT !.work[w].pending = TRUE]

(* hin_fcgi_pipe_end: the pipe ends now, or with its last write. *)
hin_fcgi_pipe_end(st, w, r) ==
  LET k == st.work[w]
      q == [st EXCEPT !.work[w].out = "none"]
  IN IF k.http = NoRequest \/ k.out = "none" THEN Bad(st, "null")
     ELSE IF k.http # r THEN Bad(st, "mixed")
     ELSE IF k.out = "freed" THEN Bad(st, "freed")
     ELSE IF k.pending THEN q
     ELSE hin_fcgi_pipe_finish_callback(q, w)

(* hin_fcgi_clean: the idle workers go, and with them the connections that *)
(* have no others; then the group itself. *)
hin_fcgi_clean(st) ==
  LET after[i \in 0 .. Len(st.idle)] ==
        IF i = 0 THEN st ELSE hin_fcgi_worker_free(after[i - 1], st.idle[i])
  IN [after[Len(st.idle)] EXCEPT !.idle = <<>>, !.stopped = TRUE]

----------------------------------------------------------------------------
(* hin_fcgi_start, and the requests of this run. *)
Init ==
  \E kind \in Mixes :
    /\ faults = {}
    /\ g = [slots |-> [i \in 1 .. MaxSocket |-> None], cur |-> 0, idle |-> <<>>,
            sock |-> <<>>, work |-> <<>>,
            req |-> [r \in Requests |-> [kind |-> kind[r], flags |-> {}, begun |-> 0,
                                         raw |-> FALSE, ended |-> 0]],
            stopped |-> FALSE, bad |-> {}]

(* A process that went wrong takes no more steps. *)
Alive == g.bad = {}

Sockets == DOMAIN g.sock

Workers == DOMAIN g.work

Untouched(r) == g.req[r].flags = {} /\ g.req[r].ended = 0

(* A worker serves a request, or waits to. *)
InFlight == \E w \in Workers : ~g.work[w].freed /\ "END" \notin g.work[w].io

(* May fault f happen?  At most one fault per behaviour. *)
MayFail(f) == f \in Faults /\ faults = {}

Note(f) == faults' = faults \cup {f}

(* A request makes a connection: no worker is idle and the next position   *)
(* of the group is empty. *)
MakesSocket ==
  /\ ~g.stopped /\ g.idle = <<>>
  /\ MaxSocket > 0 => g.slots[(g.cur % MaxSocket) + 1] = None

(* A script calls hin_fastcgi.  A name that does not resolve is no excuse  *)
(* for what follows, so it is not noted. *)
Start(r) ==
  /\ Alive /\ Untouched(r)
  /\ \E how \in Connecting :
       /\ how # "started" => MakesSocket
       /\ how = "unresolved" => "resolve" \in Faults
       /\ how = "failed" => MayFail("socket")
       /\ g' = hin_fastcgi(g, r, how)
       /\ CASE g.stopped -> Note("stop")
            [] how = "failed" -> Note("socket")
            [] OTHER -> UNCHANGED faults

(* hin_fcgi_connect_callback: those who waited run, the read starts. *)
Connected(s) ==
  /\ Alive /\ g.sock[s].state = "connecting" /\ g.sock[s].resolved
  /\ g' = hin_fcgi_socket_continue(
            Loop(g), [g EXCEPT !.sock[s].state = "open", !.sock[s].reading = TRUE], s)
  /\ UNCHANGED faults

ConnectFails(s) ==
  /\ Alive /\ g.sock[s].state = "connecting" /\ g.sock[s].resolved
  /\ "connect" \in Faults
  /\ g' = hin_fcgi_socket_close(g, s)
  /\ UNCHANGED faults

(* hin_fcgi_write_callback: the backend has the request. *)
WriteDone(w) ==
  /\ Alive /\ g.work[w].writing
  /\ g.work[w].socket # None => g.sock[g.work[w].socket].peer
  /\ g' = [g EXCEPT !.work[w].writing = FALSE,
                    !.work[w].back = IF g.work[w].http = NoRequest THEN @
                                     ELSE Append(@, g.work[w].http)]
  /\ UNCHANGED faults

(* ... or the connection is gone. *)
WriteFails(w) ==
  /\ Alive /\ g.work[w].writing
  /\ LET s == g.work[w].socket
         q == [g EXCEPT !.work[w].writing = FALSE]
     IN IF s = None THEN g' = Bad(q, "null")
        ELSE ~g.sock[s].peer /\ g' = hin_fcgi_socket_close(q, s)
  /\ UNCHANGED faults

(* The upload pipe ends: all sent, the client gone, or the backend. *)
UploadDone(w) ==
  /\ Alive /\ g.work[w].upload # NoRequest
  /\ g' = hin_fcgi_post_done_callback(
            Loop(g), [g EXCEPT !.work[w].upload = NoRequest], w, g.work[w].upload)
  /\ UNCHANGED faults

(* A record of the request the backend has for this worker is read. *)
Record(w) ==
  /\ Alive /\ g.work[w].back # <<>>
  /\ g.work[w].socket # None
  /\ g.sock[g.work[w].socket].reading /\ g.sock[g.work[w].socket].peer

Stdout(w) ==
  /\ Record(w)
  /\ ~g.work[w].pending
  /\ g' = hin_fcgi_pipe_write(g, w, Head(g.work[w].back))
  /\ UNCHANGED faults

EndRequest(w) ==
  /\ Record(w)
  /\ ~g.work[w].header
  /\ g' = hin_fcgi_pipe_end([g EXCEPT !.work[w].back = Tail(@)], w, Head(g.work[w].back))
  /\ UNCHANGED faults

(* A backend that is overloaded, or fails, ends a request without a head. *)
BareEnd(w) ==
  /\ Record(w)
  /\ g.work[w].header
  /\ MayFail("bare") /\ Note("bare")
  /\ g' = hin_fcgi_pipe_end([g EXCEPT !.work[w].back = Tail(@)], w, Head(g.work[w].back))

(* The response pipe has written what it had. *)
PipeWritten(w) ==
  /\ Alive /\ g.work[w].pipe /\ g.work[w].pending
  /\ LET q == [g EXCEPT !.work[w].pending = FALSE]
     IN g' = IF g.work[w].out = "open" THEN q ELSE hin_fcgi_pipe_finish_callback(q, w)
  /\ UNCHANGED faults

(* The client is gone: httpd_pipe_error_callback, then the end of the      *)
(* pipe.  Harmless when the backend and the upload are done. *)
PipeFails(w) ==
  /\ Alive /\ g.work[w].pipe /\ g.work[w].pending
  /\ MayFail("abort")
  /\ g' = hin_fcgi_pipe_finish_callback(
            [g EXCEPT !.work[w].pending = FALSE,
                      !.work[w].out = IF @ = "open" THEN "freed" ELSE @], w)
  /\ IF g.work[w].out = "open" \/ "POST" \in g.work[w].io
     THEN Note("abort") ELSE UNCHANGED faults

(* http_raw_response_callback: the error response is written. *)
RawDone(r) ==
  /\ Alive /\ g.req[r].raw
  /\ g' = httpd_client_finish_request(
            [g EXCEPT !.req[r].raw = FALSE, !.req[r].flags = @ \ {"ERROR"}], r)
  /\ UNCHANGED faults

(* The backend closes a connection.  hin_fcgi_socket_close_callback takes  *)
(* the end of the stream for nothing; a read whose buffer was freed        *)
(* completes into freed memory. *)
BackendCloses(s) ==
  /\ Alive /\ g.sock[s].peer /\ g.sock[s].reading
  /\ MayFail("close") /\ Note("close")
  /\ LET q == [g EXCEPT !.sock[s].peer = FALSE, !.sock[s].reading = FALSE]
     IN g' = IF g.sock[s].state = "closed" THEN Bad(q, "freed") ELSE q

(* hin_stop cleans the groups, with requests in flight or not. *)
Stop ==
  /\ Alive /\ ~g.stopped
  /\ MayFail("stop")
  /\ g' = hin_fcgi_clean(g)
  /\ IF InFlight THEN Note("stop") ELSE UNCHANGED faults

(* Every request is over, or the process is. *)
Done ==
  /\ ~Alive \/ \A r \in Requests : g.req[r].ended > 0 \/ faults # {}
  /\ UNCHANGED vars

Next ==
  \/ \E r \in Requests : Start(r) \/ RawDone(r)
  \/ \E s \in Sockets : Connected(s) \/ ConnectFails(s) \/ BackendCloses(s)
  \/ \E w \in Workers : \/ WriteDone(w) \/ WriteFails(w) \/ UploadDone(w)
                        \/ Stdout(w) \/ EndRequest(w) \/ BareEnd(w)
                        \/ PipeWritten(w) \/ PipeFails(w)
  \/ Stop \/ Done

Spec == Init /\ [][Next]_vars

----------------------------------------------------------------------------
(* The group has the fields of hin_fcgi_group_t, within their bounds. *)
TypeOK == g \in GroupType /\ faults \subseteq Fault

(* A group of reusable connections never reads a NULL or freed pointer,    *)
(* writes a request twice or gives a record to another client, in whatever *)
(* order uploads, answers, queued requests and refused or unresolved       *)
(* connections come, unless a backend closed or ended early, a client left *)
(* or the program stopped while a request was in flight, or there was no   *)
(* socket for a new connection. *)
SafeWithoutFaults == g.bad # {} /\ MaxSocket > 0 => faults # {}

(* Uploads over one connection are sequential (docs/changes.md:41): the    *)
(* busy flag is held from the start of an upload to its end, whatever runs *)
(* in hin_fcgi_socket_continue in between. *)
UploadsSequential ==
  \A s \in Sockets :
    LET up == {w \in Workers : g.work[w].socket = s /\ "POST" \in g.work[w].io}
    IN Cardinality(up) <= 1 /\ (up # {} => g.sock[s].busy)

(* A worker on the idle list is in its slot of an open connection, serves  *)
(* nobody and is listed once; a request in flight has exactly one worker.  *)
WorkersExact ==
  faults = {} /\ Alive =>
    /\ IsInjective(g.idle)
    /\ \A w \in ToSet(g.idle) :
         /\ g.work[w].socket # None /\ ~g.work[w].freed
         /\ w \in ToSet(g.sock[g.work[w].socket].slots)
         /\ g.work[w].http = NoRequest /\ g.work[w].back = <<>>
         /\ ~g.work[w].writing /\ g.work[w].upload = NoRequest
    /\ \A r \in Requests :
         Cardinality({w \in Workers : g.work[w].http = r}) =
           IF "FCGI" \in g.req[r].flags /\ "ERROR" \notin g.req[r].flags THEN 1 ELSE 0

(* hin_fcgi_clean on an idle group closes every connection: num_worker is  *)
(* the number of workers, so master.num_connection can reach 0 and the     *)
(* program can end. *)
CleanClosesAll ==
  g.stopped /\ faults = {} => \A s \in Sockets : g.sock[s].state = "closed"

(* The group agrees with its connections: uploads, workers and the count   *)
(* num_worker that closes a connection, in every order of the three ends   *)
(* of a worker. *)
GroupExact == TypeOK /\ UploadsSequential /\ WorkersExact /\ CleanClosesAll

(* A request ends once, after one response: the backend's, or the error of *)
(* hin_fcgi_socket_close when the connection could not be made. *)
AnsweredOnce ==
  faults = {} =>
    \A r \in Requests : /\ g.req[r].ended <= 1 /\ g.req[r].begun <= 1
                        /\ g.req[r].ended <= g.req[r].begun

(* hin_connect returned an error for this connection and nobody looked. *)
Unmade(s) == g.sock[s].state = "connecting" /\ ~g.sock[s].resolved

(* Whoever is served is waited for by an operation in flight or by the     *)
(* backend, and whoever is queued stands behind an upload or a connection  *)
(* being made on the same connection, whose end runs the queue.  The one   *)
(* place where a request waits for nobody is a connection whose name did   *)
(* not resolve; it holds up no other connection of the group. *)
StalledOnlyUnmade ==
  faults = {} /\ Alive =>
    \A r \in Requests : g.req[r].flags # {} =>
      \/ g.req[r].raw
      \/ \E w \in Workers :
           LET k == g.work[w]
               s == k.socket
           IN \/ k.upload = r
              \/ k.http = r /\ (k.writing \/ k.back # <<>> \/ k.pending)
              \/ /\ k.http = r /\ w \in ToSet(g.sock[s].que)
                 /\ \/ g.sock[s].state = "connecting" /\ g.sock[s].resolved
                    \/ \E v \in ToSet(g.sock[s].slots) : g.work[v].upload # NoRequest
                    \/ Unmade(s)

(* docs/changes.md:130 says the server no longer crashes when the backend  *)
(* closes the connection before expected. *)
SurvivesClose == g.bad = {}
=============================================================================
