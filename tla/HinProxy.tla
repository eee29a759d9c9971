------------------------------ MODULE HinProxy ------------------------------
(***************************************************************************)
(* The HTTP client as the reverse proxy uses it: connections to the        *)
(* proxied servers, their reuse through master.connection_idle, the retry  *)
(* of a request on a connection that turns out to be closed, uploads, and  *)
(* the release of a connection that several operations still point at      *)
(* (http/client/*.c).                                                      *)
(*                                                                         *)
(* The client of the server (HinHttpd) is the parent of a connection; here *)
(* it is only told that its request ended, and may leave while it is sent  *)
(* the answer.  Bytes are not modelled: a response head, a body pipe, an   *)
(* upload, and the rest of an answer nobody waits for are one thing each.  *)
(* TLS and answers from the cache are left out.  What C leaves undefined   *)
(* is recorded in `bad`, and ends the behaviour.                           *)
(***************************************************************************)
EXTENDS Integers, SequencesExt

CONSTANTS Requests, \* requests to be proxied, one parent each
          Host,     \* the host and port of the URL of each request
          Upload,   \* the requests with a body that is still in the socket
          MaxClose, \* bound on connections closed or refused by their
                    \* servers and on answers not taken by their parents
          Keep      \* HIN_HTTPD_PROXY_CONNECTION_REUSE

ASSUME ProxyAssumption ==
  /\ Requests # {} /\ "none" \notin Requests
  /\ DOMAIN Host = Requests
  /\ Upload \subseteq Requests
  /\ MaxClose \in Nat
  /\ Keep \in BOOLEAN

VARIABLE p  \* connections, the idle list and the requests

vars == <<p>>

NoRequest == "none"

Flag == {"HEADERS", "DATA", "POST", "END", "STOPPING", "IDLE"}

(* http_client_t and what points at it.  read: the state of read_buffer;   *)
(* told: state_callback is set;  answered: the server has answered, and so *)
(* has received, what was sent last;  open: the server has not closed;     *)
(* rest: part of the answer to a parent that left is still to come. *)
ConnType == [host : {Host[r] : r \in Requests}, io : SUBSET Flag, keep : BOOLEAN,
             parent : Requests \cup {NoRequest}, told : BOOLEAN,
             read : {"none", "inactive", "active"}, connecting : BOOLEAN,
             sending : BOOLEAN, answered : BOOLEAN, pipe : BOOLEAN,
             post : BOOLEAN, closing : BOOLEAN, open : BOOLEAN, rest : BOOLEAN,
             freed : BOOLEAN]

(* The parent: asked for, response heads begun, requests ended; gone: the  *)
(* client of the server was shut down, and freed when its close was done. *)
ParentType == [asked : BOOLEAN, begun : Nat, ended : Nat,
               gone : {"no", "closing", "freed"}]

ProxyType == [conn : Seq(ConnType), idle : Seq(Nat),
              req : [Requests -> ParentType], closes : 0 .. MaxClose,
              faults : SUBSET {"connect", "send", "resent", "left", "taken"},
              bad : SUBSET {"null", "freed"}]

----------------------------------------------------------------------------
(* The functions of the code, from a state to a state. *)

Bad(st, what) == [st EXCEPT !.bad = @ \cup {what}]

Fault(st, f) == [st EXCEPT !.faults = @ \cup {f}]

(* The parent is past its request, or freed. *)
Past(st, r) == st.req[r].ended > 0 \/ st.req[r].gone = "freed"

(* hin_rproxy_finish: httpd_client_finish_request of the parent. *)
hin_rproxy_finish(st, c) ==
  LET r == st.conn[c].parent
  IN IF r = NoRequest THEN Bad(st, "null")
     ELSE IF Past(st, r) THEN Bad(st, "freed")
     ELSE [st EXCEPT !.req[r].ended = @ + 1]

(* httpd_pipe_error_callback: httpd_client_shutdown of the parent. *)
httpd_pipe_error_callback(st, c) ==
  LET r == st.conn[c].parent
  IN IF r = NoRequest THEN Bad(st, "null")
     ELSE IF Past(st, r) THEN Bad(st, "freed")
     ELSE [st EXCEPT !.req[r].gone = "closing"]

(* A state that hin_rproxy_state_callback takes for the end. *)
Tell(st, c) == IF st.conn[c].told THEN hin_rproxy_finish(st, c) ELSE st

MutUnlinkWithRead(st, c) ==
  IF "END" \notin st.conn[c].io \/ st.conn[c].io \cap {"HEADERS", "POST"} # {}
  THEN st
  ELSE [st EXCEPT !.conn[c].freed = TRUE]

(* http_client_unlink frees the connection when it is closed and no        *)
(* operation the flags know of is in flight. *)
http_client_unlink(st, c) ==
  IF \/ "END" \notin st.conn[c].io
     \/ st.conn[c].io \cap {"HEADERS", "POST"} # {}
     \/ st.conn[c].read = "active"
  THEN st
  ELSE [st EXCEPT !.conn[c].freed = TRUE]

(* basic_dlist_remove of a listed connection. *)
basic_dlist_remove(l, c) == RemoveAt(l, CHOOSE i \in DOMAIN l : l[i] = c)

(* http_client_shutdown *)
http_client_shutdown(st, c) ==
  LET u == http_client_unlink(st, c)
  IN IF u.conn[c].freed THEN u
     ELSE IF "STOPPING" \in st.conn[c].io THEN st
     ELSE [st EXCEPT !.conn[c].io = @ \cup {"STOPPING"}, !.conn[c].closing = TRUE,
                     !.idle = IF "IDLE" \in st.conn[c].io
                              THEN basic_dlist_remove(@, c) ELSE @]

(* http_connection_release, with http_client_clean: HEADERS is the only    *)
(* flag that stays.  An idle connection is read, to see it closed. *)
http_connection_release(st, c) ==
  IF ~st.conn[c].keep THEN http_client_shutdown(st, c)
  ELSE [st EXCEPT !.idle = Append(@, c), !.conn[c].parent = NoRequest,
                  !.conn[c].keep = FALSE, !.conn[c].read = "active",
                  !.conn[c].io = (@ \cap {"HEADERS"}) \cup {"IDLE"}]

MutFinishBeforePost(st, c) ==
  IF "DATA" \in st.conn[c].io THEN st
  ELSE http_connection_release(Tell(st, c), c)

(* http_client_finish_request: the answer and the upload are both done. *)
http_client_finish_request(st, c) ==
  IF st.conn[c].io \cap {"DATA", "POST"} # {} THEN st
  ELSE http_connection_release(Tell(st, c), c)

(* http_client_start_headers, with hin_rproxy_send and                     *)
(* hin_rproxy_send_post for a request that has a body. *)
http_client_start_headers(st, c) ==
  LET body == st.conn[c].told /\ st.conn[c].parent \in Upload
  IN [st EXCEPT !.conn[c].io = @ \cup {"HEADERS", "DATA"}
                                 \cup (IF body THEN {"POST"} ELSE {}),
                !.conn[c].sending = TRUE, !.conn[c].answered = FALSE,
                !.conn[c].post = body]

NewConn(h) ==
  [host |-> h, io |-> {}, keep |-> FALSE, parent |-> NoRequest, told |-> FALSE,
   read |-> "none", connecting |-> FALSE, sending |-> FALSE, answered |-> FALSE,
   pipe |-> FALSE, post |-> FALSE, closing |-> FALSE, open |-> TRUE, rest |-> FALSE,
   freed |-> FALSE]

(* The places of the idle connections http_connection_get may take. *)
Reusable(st, h) ==
  {i \in DOMAIN st.idle : /\ "HEADERS" \notin st.conn[st.idle[i]].io
                          /\ st.conn[st.idle[i]].host = h}

(* http_connection_get takes the first of them, or makes a connection. *)
http_connection_get(st, h) ==
  LET found == Reusable(st, h)
      c == st.idle[Min(found)]
  IN IF found = {}
     THEN [state |-> [st EXCEPT !.conn = Append(@, NewConn(h))],
           conn |-> Len(st.conn) + 1]
     ELSE [state |-> [st EXCEPT !.idle = basic_dlist_remove(@, c),
                                !.conn[c].io = @ \ {"IDLE"}],
           conn |-> c]

(* http_connection_start: use the connection, or make it. *)
http_connection_start(st, c) ==
  IF st.conn[c].read # "none"
  THEN [http_client_start_headers(st, c) EXCEPT !.conn[c].read = "active"]
  ELSE [st EXCEPT !.conn[c].connecting = TRUE]

(* hin_proxy, and the request of http_client_restart: a connection for the *)
(* parent, and its start. *)
Ask(st, r) ==
  LET a == http_connection_get(st, Host[r])
  IN http_connection_start([a.state EXCEPT !.conn[a.conn].parent = r,
                                           !.conn[a.conn].told = TRUE,
                                           !.conn[a.conn].keep = Keep], a.conn)

(* http_client_restart: the request is asked again, on another connection; *)
(* the body of an upload is partly gone by then. *)
http_client_restart(st, c) ==
  LET r == st.conn[c].parent
      q == Ask(IF r \in Upload THEN Fault(st, "resent") ELSE st, r)
  IN IF r = NoRequest THEN st
     ELSE IF Past(st, r) THEN Bad(st, "freed")
     ELSE [q EXCEPT !.conn[c].parent = NoRequest, !.conn[c].told = FALSE]

MutCloseForgets(st, c) == http_client_shutdown(st, c)

(* http_client_headers_close_callback *)
http_client_headers_close_callback(st, c) ==
  LET io == st.conn[c].io
      lost == io \cap {"HEADERS", "DATA"} # {} /\ "IDLE" \notin io
  IN http_client_shutdown(IF lost THEN http_client_restart(st, c) ELSE st, c)

(* http_client_unlink_wrap *)
http_client_unlink_wrap(st, c) ==
  http_client_unlink([st EXCEPT !.conn[c].io = @ \cup {"END"}, !.conn[c].keep = FALSE], c)

(* http_connection_close_idle shuts the listed connections down one after  *)
(* the other; SHUT_RD ends their reads. *)
http_connection_close_idle(st) ==
  LET shut[n \in 0 .. Len(st.idle)] ==
        IF n = 0 THEN st
        ELSE http_client_shutdown([shut[n - 1] EXCEPT !.conn[st.idle[n]].open = FALSE],
                                  st.idle[n])
  IN shut[Len(st.idle)]

----------------------------------------------------------------------------
Init ==
  p = [conn |-> <<>>, idle |-> <<>>,
       req |-> [r \in Requests |->
                  [asked |-> FALSE, begun |-> 0, ended |-> 0, gone |-> "no"]],
       closes |-> 0, faults |-> {}, bad |-> {}]

(* A process that went wrong takes no more steps. *)
Alive == p.bad = {}

Conns == DOMAIN p.conn

With(c, field) == Alive /\ ~p.conn[c].freed /\ p.conn[c][field]

(* A server closes or refuses, or a parent leaves, within the bound. *)
Refusal(st) == [st EXCEPT !.closes = @ + 1]

(* A script calls hin_proxy. *)
Start(r) ==
  /\ Alive /\ ~p.req[r].asked
  /\ p' = Ask([p EXCEPT !.req[r].asked = TRUE], r)

(* connected *)
Connected(c) ==
  /\ With(c, "connecting")
  /\ p' = http_client_start_headers([p EXCEPT !.conn[c].connecting = FALSE,
                                              !.conn[c].read = "active"], c)

(* connected, with an error: HIN_HTTP_STATE_CONNECTION_FAILED. *)
ConnectFails(c) ==
  /\ With(c, "connecting") /\ p.closes < MaxClose
  /\ p' = http_client_unlink_wrap(
            Tell(Fault(Refusal([p EXCEPT !.conn[c].connecting = FALSE]), "connect"), c), c)

(* http_client_sent_callback *)
Sent(c) ==
  /\ With(c, "sending")
  /\ LET q == [p EXCEPT !.conn[c].sending = FALSE, !.conn[c].io = @ \ {"HEADERS"}]
     IN p' = IF "STOPPING" \in p.conn[c].io THEN http_client_shutdown(q, c) ELSE q

(* ... with an error: HIN_HTTP_STATE_HEADERS_FAILED. *)
SendFails(c) ==
  /\ With(c, "sending") /\ ~p.conn[c].open /\ ~p.conn[c].answered
  /\ LET q == [p EXCEPT !.conn[c].sending = FALSE, !.conn[c].io = @ \ {"HEADERS"}]
     IN p' = IF "STOPPING" \in p.conn[c].io THEN http_client_shutdown(q, c)
             ELSE http_client_shutdown(Tell(Fault(q, "send"), c), c)

(* A request of the connection waits for the head of its answer. *)
Expects(c) ==
  /\ Alive /\ ~p.conn[c].freed
  /\ p.conn[c].read = "active" /\ "DATA" \in p.conn[c].io /\ "IDLE" \notin p.conn[c].io

(* http_client_headers_read_callback, with a complete head:                *)
(* http_client_start_pipe and hin_rproxy_headers start the response. *)
Answer(c) ==
  /\ Expects(c) /\ p.conn[c].open /\ ~p.conn[c].rest
  /\ LET r == p.conn[c].parent
         q == [p EXCEPT !.conn[c].read = "inactive", !.conn[c].pipe = TRUE,
                        !.conn[c].answered = TRUE]
     IN p' = IF ~p.conn[c].told THEN q
             ELSE IF Past(p, r) THEN Bad(q, "freed")
             ELSE [q EXCEPT !.req[r].begun = @ + 1]

(* ... with the rest of an earlier answer before it: "http parsing error". *)
Garbled(c) ==
  /\ Expects(c) /\ p.conn[c].rest
  /\ p' = http_client_headers_close_callback([p EXCEPT !.conn[c].read = "inactive"], c)

(* hin_http_pipe_finish_callback *)
hin_http_pipe_finish_callback(st, c) ==
  http_client_finish_request([st EXCEPT !.conn[c].pipe = FALSE,
                                        !.conn[c].io = @ \ {"DATA"}], c)

PipeDone(c) ==
  /\ With(c, "pipe")
  /\ p' = hin_http_pipe_finish_callback(p, c)

(* A write to the parent fails: the pipe closes, and the rest of the       *)
(* answer stays in the socket, with the read the pipe may have there.  The *)
(* parent may be freed before its upload ends. *)
PipeFails(c) ==
  /\ With(c, "pipe") /\ p.closes < MaxClose
  /\ \E rest \in BOOLEAN :
       LET q == httpd_pipe_error_callback(Refusal([p EXCEPT !.conn[c].rest = rest]), c)
       IN p' = hin_http_pipe_finish_callback(
                 IF "POST" \in p.conn[c].io THEN Fault(q, "left") ELSE q, c)

(* httpd_client_close_callback frees the parent, whatever points at it. *)
ParentClosed(r) ==
  /\ Alive /\ p.req[r].gone = "closing"
  /\ p' = [p EXCEPT !.req[r].gone = "freed"]

(* hin_pipe_read_callback of a pipe that failed: it takes all of the rest  *)
(* ... *)
RestTaken(c) ==
  /\ With(c, "rest")
  /\ p' = [p EXCEPT !.conn[c].rest = FALSE]

(* ... or waits for more, and takes from the answer to the next request. *)
AnswerTaken(c) ==
  /\ Expects(c) /\ p.conn[c].rest
  /\ p' = Fault(p, "taken")

(* hin_rproxy_post_done_callback *)
PostDone(c) ==
  /\ With(c, "post")
  /\ p' = http_client_finish_request([p EXCEPT !.conn[c].post = FALSE,
                                               !.conn[c].io = @ \ {"POST"}], c)

(* A server closes a connection: an idle one, one it has a request on, or  *)
(* one it is answering on. *)
ServerCloses(c) ==
  /\ With(c, "open") /\ ~p.conn[c].connecting /\ p.closes < MaxClose
  /\ p' = Refusal([p EXCEPT !.conn[c].open = FALSE])

(* ... and the read for the next head ends. *)
ReadEnds(c) ==
  /\ Alive /\ ~p.conn[c].freed /\ p.conn[c].read = "active"
  /\ ~p.conn[c].open
  /\ p' = http_client_headers_close_callback([p EXCEPT !.conn[c].read = "inactive"], c)

(* http_client_close_callback *)
Closed(c) ==
  /\ With(c, "closing")
  /\ p' = http_client_unlink([p EXCEPT !.conn[c].closing = FALSE,
                                       !.conn[c].io = @ \cup {"END"}], c)

(* The program stops. *)
CloseIdle ==
  /\ Alive /\ p.idle # <<>> /\ \A r \in Requests : p.req[r].asked
  /\ p' = http_connection_close_idle(p)

Done ==
  /\ ~Alive \/ \A r \in Requests : p.req[r].asked
  /\ UNCHANGED p

(* An operation of connection c that is with the kernel, or a server that  *)
(* has a request to answer. *)
Progress(c) ==
  \/ Connected(c) \/ ConnectFails(c) \/ Sent(c) \/ SendFails(c) \/ Answer(c)
  \/ Garbled(c) \/ ReadEnds(c) \/ PipeDone(c) \/ PostDone(c) \/ Closed(c)

Next ==
  \/ \E r \in Requests : Start(r) \/ ParentClosed(r)
  \/ \E c \in Conns :
       Progress(c) \/ ServerCloses(c) \/ PipeFails(c) \/ RestTaken(c) \/ AnswerTaken(c)
  \/ CloseIdle \/ Done

Spec == Init /\ [][Next]_vars

(* Operations on the ring complete, and a server that accepted a           *)
(* connection answers on it or closes it. *)
Fairness == WF_vars(\E c \in Conns : Progress(c))

FairSpec == Spec /\ Fairness

----------------------------------------------------------------------------
(* Connections and requests have the fields of http_client_t, within their *)
(* bounds. *)
TypeOK == p \in ProxyType

(* The faults the code does not recover from: a failed send tells the      *)
(* parent and leaves the retry possible, an upload cannot be sent twice, a *)
(* parent that leaves during its upload is freed before the upload ends,   *)
(* and an answer taken by the read of a failed pipe is lost. *)
Unrecovered == {"send", "resent", "left", "taken"}

Undisturbed(st) == st.faults \cap Unrecovered = {}

(* The proxy answers its parent once, and touches neither a parent that    *)
(* was told its request ended, or that left in the middle of its answer,   *)
(* nor a freed connection, although a server may close a connection        *)
(* before, while and after it is reused: the retry hands the parent over,  *)
(* also off a connection that still has the rest of an answer nobody waits *)
(* for. *)
ParentAnsweredOnce ==
  Undisturbed(p) =>
    /\ Alive
    /\ \A r \in Requests :
         /\ p.req[r].begun <= 1 /\ p.req[r].ended <= 1
         /\ "connect" \notin p.faults => p.req[r].ended <= p.req[r].begun
         /\ p.req[r].gone # "no" => p.req[r].ended = 1

InUse(c) == ~p.conn[c].freed /\ (p.conn[c].connecting \/ "DATA" \in p.conn[c].io)

(* master.connection_idle and the connections agree: an idle connection is *)
(* listed once, belongs to nobody, has its read for a head with the kernel *)
(* and no operation of an answer or an upload of its own (what it may have *)
(* is the rest of an answer whose parent left, and the read of that pipe); *)
(* nothing freed or being closed is listed; two connections never serve    *)
(* one request; and http_client_unlink is reached by whoever ends last, so *)
(* a closed connection never stays behind. *)
ConnectionsExact ==
  /\ TypeOK
  /\ Undisturbed(p) =>
    /\ IsInjective(p.idle)
    /\ \A c \in ToSet(p.idle) :
         /\ ~p.conn[c].freed /\ ~p.conn[c].closing /\ p.conn[c].parent = NoRequest
         /\ p.conn[c].read = "active" /\ ~p.conn[c].pipe /\ ~p.conn[c].post
    /\ \A c, d \in Conns :
         InUse(c) /\ InUse(d) /\ p.conn[c].parent = p.conn[d].parent
           => c = d \/ p.conn[c].parent = NoRequest
    /\ \A c \in Conns :
         "END" \in p.conn[c].io /\ ~p.conn[c].freed =>
           p.conn[c].sending \/ p.conn[c].read = "active"
    /\ \A c \in Conns :
         p.conn[c].freed => ~p.conn[c].sending /\ ~p.conn[c].pipe /\ ~p.conn[c].post
                            /\ p.conn[c].read # "active"

(* Every proxied request ends, after as many retries as the servers close  *)
(* connections and as the rests of answers spoil them, unless a fault the  *)
(* code does not recover from happens. *)
EveryRequestEnds ==
  \A r \in Requests : p.req[r].asked ~> p.req[r].ended > 0 \/ ~Undisturbed(p)
=============================================================================
