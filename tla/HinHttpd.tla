------------------------------ MODULE HinHttpd ------------------------------
(***************************************************************************)
(* One connection of the HTTP server, from accept to the free of the       *)
(* client: reading pipelined requests, the Lua handlers that choose an     *)
(* answer, raw responses, response pipes, CGI workers, proxied answers,    *)
(* uploads, keep-alive, the idle timeout and the close                     *)
(* (http/server/*.c, http/utils/http_misc.c and the callbacks in http/cgi  *)
(* and http/client that end a request).                                    *)
(*                                                                         *)
(* Every operation in flight holds a pointer to the client, which          *)
(* httpd_client_close_callback frees without asking them: whether the      *)
(* state flags alone keep it alive long enough is the question here.       *)
(*                                                                         *)
(* Pipes, workers and proxied requests are single operations here (HinPipe *)
(* has the pipe); FastCGI and TLS are left out.  A request head that       *)
(* arrives in pieces only asks for more bytes and is not a step.  The      *)
(* temporary file of an upload opens, a proxied server answers, and a read *)
(* that SHUT_RD wakes completes before the close.                          *)
(***************************************************************************)
EXTENDS Integers, Sequences

CONSTANTS Requests, \* the kinds of requests the peer may send
          MaxReq,   \* bound on the requests of a connection
          Cut       \* may an answer fail, or the idle timeout come, while
                    \* another operation of the request is in flight?

(***************************************************************************)
(* A request: how its head parses ("ok"; "bad": refused with an error;     *)
(* "silent": refused without one; "chunked": refused after the head), its  *)
(* method, whether the connection may be kept, the calls the Lua handlers  *)
(* make, and where its body is: in the buffer behind the head, partly      *)
(* still in the socket, or empty.                                          *)
(***************************************************************************)
RequestType == [head : {"ok", "bad", "silent", "chunked"},
                method : {"GET", "POST"}, keep : BOOLEAN,
                calls : Seq({"text", "file", "missing", "cgi", "cgi_fails",
                             "cached", "proxy", "proxy_cached", "shutdown"}),
                body : {"buffered", "more", "empty"}]

ASSUME HttpdAssumption ==
  /\ Requests \subseteq RequestType
  /\ MaxReq \in Nat
  /\ Cut \in BOOLEAN

VARIABLES h,     \* httpd_client_t and what points at it
          peer   \* the other end: requests not sent yet, open or not

vars == <<h, peer>>

Flag == {"HEADERS", "DATA", "POST", "CGI", "PROXY", "END", "STOPPING", "ERROR"}

Operation == {"raw", "pipe", "worker", "upload", "proxy", "relay"}

(* cur: number of the last request read;  buffered: complete requests in   *)
(* read_buffer, the current one included;  bodyLeft: some of the body is   *)
(* still in the socket;  counted: post_sz is not 0;  framed: no head was   *)
(* read while body bytes were left in the socket;  begun: the requests     *)
(* whose response was submitted, in order;  closes: closes requested and   *)
(* not completed. *)
ClientType == [flags : SUBSET Flag, keep : BOOLEAN, method : {"GET", "POST"},
               cur : 0 .. MaxReq, buffered : 0 .. MaxReq, reading : BOOLEAN,
               bodyLeft : BOOLEAN, counted : BOOLEAN, framed : BOOLEAN,
               ops : SUBSET Operation, begun : Seq(1 .. MaxReq),
               closes : Nat, freed : Nat]

----------------------------------------------------------------------------
(* The functions of the code, from a client to a client. *)

Set(st, fs) == [st EXCEPT !.flags = @ \cup fs]

Clear(st, fs) == [st EXCEPT !.flags = @ \ fs]

(* httpd_client_shutdown requests the close, once. *)
httpd_client_shutdown(st) ==
  IF "STOPPING" \in st.flags THEN st
  ELSE [st EXCEPT !.flags = @ \cup {"STOPPING"}, !.closes = @ + 1]

(* The response head of the current request is written and submitted by    *)
(* operation o. *)
Submit(st, o) == [st EXCEPT !.ops = @ \cup {o}, !.begun = Append(@, st.cur)]

(* httpd_respond_fatal, and httpd_error with a status. *)
httpd_respond_fatal(st) ==
  IF "ERROR" \in st.flags THEN st
  ELSE Submit([st EXCEPT !.flags = (@ \ {"POST"}) \cup {"ERROR", "DATA"},
                         !.method = "GET",
                         !.keep = FALSE], "raw")

MutRespondTextTwice(st) ==
  IF st.method = "POST" THEN httpd_respond_fatal(Set(st, {"DATA"}))
  ELSE Submit(Set(st, {"DATA"}), "raw")

(* httpd_respond_text *)
httpd_respond_text(st) ==
  IF "DATA" \in st.flags THEN st
  ELSE IF st.method = "POST" THEN httpd_respond_fatal(Set(st, {"DATA"}))
  ELSE Submit(Set(st, {"DATA"}), "raw")

(* httpd_send_file: a pipe from a file or a cached object. *)
httpd_send_file(st) == Submit(st, "pipe")

(* httpd_handle_file_request on the file of set_path, which may be missing, *)
(* forbidden or shorter than the range asked for. *)
httpd_handle_file_request(st, found) ==
  IF "DATA" \in st.flags THEN st
  ELSE IF st.method = "POST" \/ ~found THEN httpd_respond_fatal(Set(st, {"DATA"}))
  ELSE httpd_send_file(Set(st, {"DATA"}))

(* hin_cgi: an answer from the cache, a worker, or an error. *)
hin_cgi(st, how) ==
  LET q == Set(st, {"DATA", "CGI"})
  IN IF "DATA" \in st.flags THEN st
     ELSE CASE how = "cached" -> httpd_send_file(q)
            [] how = "cgi_fails" -> httpd_respond_fatal(q)
            [] how = "cgi" -> [q EXCEPT !.ops = @ \cup {"worker"}]

(* hin_proxy: an answer from the cache or a proxied request, for which     *)
(* hin_rproxy_send_post relays the body from this connection's socket. *)
hin_proxy(st, how) ==
  LET q == Set(st, {"DATA", "PROXY"})
      relay == IF st.method = "POST" /\ st.counted THEN {"relay"} ELSE {}
  IN IF "DATA" \in st.flags THEN st
     ELSE IF how = "proxy_cached" THEN httpd_send_file(q)
     ELSE [q EXCEPT !.ops = @ \cup {"proxy"} \cup relay]

(* One call of a Lua handler that hin_server_callback runs. *)
Call(st, c) ==
  CASE c = "text" -> httpd_respond_text(st)
    [] c \in {"file", "missing"} -> httpd_handle_file_request(st, c = "file")
    [] c \in {"cgi", "cgi_fails", "cached"} -> hin_cgi(st, c)
    [] c \in {"proxy", "proxy_cached"} -> hin_proxy(st, c)
    [] c = "shutdown" -> Set(st, {"END"})

(* hin_server_callback: the calls of the handlers, in order (the redirect  *)
(* to https and the answer without a script are calls like the others). *)
hin_server_callback(st, calls) ==
  LET after[i \in 0 .. Len(calls)] ==
        IF i = 0 THEN st ELSE Call(after[i - 1], calls[i])
  IN after[Len(calls)]

(* httpd_client_start_post; the temporary file of a CGI upload opens. *)
httpd_client_start_post(st) ==
  IF st.method = "POST" THEN Set(st, {"POST"}) ELSE st

(* The end of httpd_client_read_callback, with httpd_client_handle_post. *)
Dispatch(st) ==
  IF "END" \in st.flags THEN st
  ELSE IF "DATA" \notin st.flags THEN httpd_respond_fatal(st)
  ELSE IF "ERROR" \notin st.flags /\ {"CGI", "POST"} \subseteq st.flags
  THEN [st EXCEPT !.ops = @ \cup {"upload"}]
  ELSE st

(* httpd_client_read_callback on request r, at the start of the buffer. *)
httpd_client_read_callback(st, r) ==
  LET q == [st EXCEPT !.cur = @ + 1, !.method = r.method, !.keep = r.keep,
                      !.framed = @ /\ ~st.bodyLeft, !.counted = r.body # "empty",
                      !.bodyLeft = r.method = "POST" /\ r.body = "more"]
      parsed == Clear(q, {"HEADERS"})
  IN CASE r.head = "bad" -> httpd_respond_fatal(q)
       [] r.head = "silent" -> q
       [] r.head = "chunked" -> httpd_respond_fatal(parsed)
       [] r.head = "ok" ->
            Dispatch(httpd_client_start_post(hin_server_callback(parsed, r.calls)))

(* hin_lines_request *)
hin_lines_request(st) == [st EXCEPT !.reading = TRUE]

MutRereadAsks(st) == {hin_lines_request(st)}

(* hin_lines_reread, and hin_lines_read_callback: the next request, if the *)
(* buffer has one, of any kind.  Nothing is buffered behind a body that is *)
(* not complete. *)
hin_lines_reread(st) ==
  IF st.buffered = 0 THEN {hin_lines_request(st)}
  ELSE {httpd_client_read_callback(st, r) :
          r \in {q \in Requests : q.body = "more" => st.buffered = 1}}

MutStartRequestEatsTwice(st) ==
  [st EXCEPT !.flags = {"HEADERS"} \cup (@ \cap {"STOPPING"}),
             !.buffered = @ - 2]

(* httpd_client_clean and httpd_client_start_request; the head is eaten. *)
httpd_client_start_request(st) ==
  [st EXCEPT !.flags = {"HEADERS"} \cup (@ \cap {"STOPPING"}),
             !.buffered = @ - 1]

MutFinishKeepsPost(st) ==
  LET q == Clear(st, {"DATA"})
  IN IF q.keep /\ "STOPPING" \notin q.flags
     THEN hin_lines_reread(httpd_client_start_request(q))
     ELSE {httpd_client_shutdown(Set(q, {"END"}))}

(* httpd_client_finish_request: the clients it can lead to.  It does       *)
(* nothing while the body is still being uploaded. *)
httpd_client_finish_request(st) ==
  LET q == Clear(st, {"DATA"})
  IN IF "POST" \in q.flags THEN {q}
     ELSE IF q.keep /\ "STOPPING" \notin q.flags
     THEN hin_lines_reread(httpd_client_start_request(q))
     ELSE {httpd_client_shutdown(Set(q, {"END"}))}

----------------------------------------------------------------------------
(* httpd_client_accept *)
Init ==
  /\ h = [flags |-> {"HEADERS"}, keep |-> FALSE, method |-> "GET", cur |-> 0,
          buffered |-> 0, reading |-> TRUE, bodyLeft |-> FALSE, counted |-> TRUE,
          framed |-> TRUE, ops |-> {}, begun |-> <<>>,
          closes |-> 0, freed |-> 0]
  /\ peer = [left |-> MaxReq, open |-> TRUE]

Stopping == "STOPPING" \in h.flags

(* An operation of this request ends. *)
Ends(o) == o \in h.ops /\ UNCHANGED peer

Without(o) == [h EXCEPT !.ops = @ \ {o}]

(* The answer fails. *)
MayFail == h.ops \cap {"upload", "relay"} # {} => Cut

(* The pipe of an upload without HIN_COUNT reads whatever comes: the       *)
(* requests behind it are lost. *)
Swallows == "upload" \in h.ops /\ ~h.counted

(* The peer sends n requests and a read completes with them: the one for   *)
(* request heads, or the one of an upload that has no count. *)
Arrive ==
  /\ IF h.reading THEN ~Stopping ELSE Swallows
  /\ \E n \in 1 .. peer.left :
       /\ h' \in IF h.reading
                 THEN hin_lines_reread([h EXCEPT !.reading = FALSE, !.buffered = @ + n])
                 ELSE {h}
       /\ peer' = [peer EXCEPT !.left = @ - n]

(* The peer closes its end. *)
PeerCloses == peer.open /\ peer' = [left |-> 0, open |-> FALSE] /\ UNCHANGED h

(* The read for request heads ends with nothing:                           *)
(* httpd_client_buffer_close_callback.  SHUT_RD wakes it too. *)
ReadClosed ==
  /\ h.reading
  /\ peer.open => Stopping
  /\ h' = httpd_client_shutdown([h EXCEPT !.reading = FALSE])
  /\ UNCHANGED peer

(* http_raw_response_callback, whether the write worked or not. *)
RawDone ==
  /\ Ends("raw")
  /\ h' \in httpd_client_finish_request(Clear(Without("raw"), {"ERROR"}))

(* done_file and hin_pipe_cgi_server_finish_callback. *)
PipeDone == Ends("pipe") /\ h' \in httpd_client_finish_request(Without("pipe"))

(* A failed write runs httpd_pipe_error_callback first. *)
PipeError ==
  /\ Ends("pipe")
  /\ MayFail
  /\ h' \in httpd_client_finish_request(httpd_client_shutdown(Without("pipe")))

(* hin_cgi_headers_read_callback: the program's head starts the pipe. *)
WorkerHeaders == Ends("worker") /\ h' = Submit(Without("worker"), "pipe")

(* hin_cgi_headers_close_callback: the program ends before its head. *)
WorkerFails ==
  /\ Ends("worker")
  /\ MayFail
  /\ h' = httpd_respond_fatal(Without("worker"))

(* post_done *)
post_done(st) ==
  LET q == Clear(st, {"POST"})
  IN IF "DATA" \in q.flags THEN {q} ELSE httpd_client_finish_request(q)

(* A counted upload ends with the body, another one only when nothing more *)
(* can be read. *)
UploadDone ==
  /\ Ends("upload")
  /\ ~h.counted /\ peer.open => Stopping
  /\ h' \in post_done([Without("upload") EXCEPT !.bodyLeft = FALSE])

(* hin_rproxy_finish, once the answer and the relay are both done. *)
hin_rproxy_finish(st) ==
  IF st.ops \cap {"proxy", "relay"} # {} THEN {st}
  ELSE httpd_client_finish_request(Clear(st, {"PROXY", "DATA"}))

(* The proxied answer has a head and is sent. *)
ProxyDone ==
  /\ Ends("proxy")
  /\ h' \in hin_rproxy_finish([Without("proxy") EXCEPT !.begun = Append(@, h.cur)])

(* ... or cannot be sent: httpd_pipe_error_callback of rproxy.c. *)
ProxyError ==
  /\ Ends("proxy")
  /\ MayFail
  /\ h' \in hin_rproxy_finish(httpd_client_shutdown(
              [Without("proxy") EXCEPT !.begun = Append(@, h.cur)]))

(* hin_rproxy_post_done_callback *)
RelayDone ==
  /\ Ends("relay")
  /\ h' \in hin_rproxy_finish([Without("relay") EXCEPT !.bodyLeft = FALSE])

MutTimeoutWaitsEnd == h.flags \cap {"HEADERS", "POST"} # {}

(* The states httpd_timeout_callback closes in; in the others the timer is *)
(* set again. *)
TimeoutCloses == h.flags \cap {"HEADERS", "POST", "END"} # {}

(* httpd_timeout_callback; a timer that finds the close requested already  *)
(* does nothing more.  It is all that ends an upload that has no count. *)
Timeout ==
  /\ TimeoutCloses /\ ~Stopping
  /\ h.ops # {} => Cut \/ (Swallows /\ h.ops = {"upload"})
  /\ h' = httpd_client_shutdown(h)
  /\ UNCHANGED peer

(* httpd_client_close_callback: the client is freed, whatever still points *)
(* at it.  A read woken by SHUT_RD completes before the close does. *)
Closed ==
  /\ h.closes > 0 /\ ~h.reading /\ ~Swallows
  /\ h' = [h EXCEPT !.closes = @ - 1, !.freed = @ + 1, !.flags = {"STOPPING"},
                    !.buffered = 0]
  /\ UNCHANGED peer

(* The client is gone, and so is everything that pointed at it. *)
Done == h.freed > 0 /\ h.ops = {} /\ h.closes = 0 /\ UNCHANGED vars

Next ==
  \/ Arrive \/ PeerCloses \/ ReadClosed
  \/ RawDone \/ PipeDone \/ PipeError \/ WorkerHeaders \/ WorkerFails
  \/ UploadDone \/ ProxyDone \/ ProxyError \/ RelayDone
  \/ Timeout \/ Closed \/ Done

Spec == Init /\ [][Next]_vars

(* Operations on the ring complete, programs and proxied servers answer,   *)
(* a peer that announced a body sends it, and the timer of an idle         *)
(* connection fires. *)
Fairness ==
  /\ WF_vars(ReadClosed) /\ WF_vars(RawDone) /\ WF_vars(PipeDone)
  /\ WF_vars(WorkerHeaders) /\ WF_vars(UploadDone) /\ WF_vars(ProxyDone)
  /\ WF_vars(RelayDone) /\ WF_vars(Timeout) /\ WF_vars(Closed)

FairSpec == Spec /\ Fairness

----------------------------------------------------------------------------
(* The client record has the fields of httpd_client_t, within their bounds. *)
TypeOK ==
  /\ h \in ClientType
  /\ peer \in [left : 0 .. MaxReq, open : BOOLEAN]

(* httpd_client_close_callback frees the client while nothing points at it *)
(* and no other close is under way: no read, no answer, no upload can      *)
(* touch freed memory, and no client is freed twice. *)
NoUseAfterFree ==
  /\ h.freed > 0 => h.ops = {} /\ ~h.reading
  /\ h.closes + h.freed <= 1

(* Responses go out in the order of the requests, one each: when request   *)
(* n + 1 is read the answer to request n was submitted, and nothing        *)
(* answers a request a second time. *)
AnswersInOrder ==
  /\ \A i \in 1 .. Len(h.begun) : h.begun[i] = i
  /\ Len(h.begun) \in {h.cur - 1, h.cur}

(* No request head is read while body bytes of the request before are      *)
(* still in the socket: httpd_client_finish_request waits for the upload. *)
RequestBoundary == h.framed

(* While the connection waits for the socket, no complete request sits     *)
(* unanswered in its buffer: hin_lines_reread takes the pipelined ones. *)
PipelineServed == h.reading /\ ~Stopping => h.buffered = 0

(* Every connection is closed and freed in the end, by its last answer, by *)
(* the peer or by the idle timeout. *)
ConnectionEnds == <>(h.freed = 1)

(* httpd.c:76 says that the end of a request waits for post data to finish. *)
FinishWaitsForPost == "upload" \in h.ops => "END" \notin h.flags
=============================================================================
