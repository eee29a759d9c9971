--------------------------- MODULE HinHttpdProofs ---------------------------
(***************************************************************************)
(* Proofs about HinHttpd, for any kinds of requests, any handlers and any  *)
(* number of pipelined requests, when no answer fails and no timeout comes *)
(* while another operation of the request is in flight (Cut = FALSE).      *)
(* Good is the inductive invariant, stated of a client record so that one  *)
(* lemma per function of the code carries it; `left` is the number of      *)
(* requests the peer has not sent yet.                                     *)
(***************************************************************************)
EXTENDS HinHttpd, SequenceTheorems, WellFoundedInduction, TLAPS

(* A response is submitted when the answer begins; a worker or a proxied   *)
(* request has not begun it yet. *)
Unbegun(st) == "worker" \in st.ops \/ "proxy" \in st.ops

Answering(st) == Unbegun(st) \/ "raw" \in st.ops \/ "pipe" \in st.ops

(* One operation answers; an upload may run beside a worker or a pipe, a   *)
(* relay beside a proxied request, and either may outlast it. *)
Together == {{"raw"}, {"pipe"}, {"worker"}, {"proxy"}, {"upload"}, {"relay"},
             {"pipe", "upload"}, {"worker", "upload"}, {"proxy", "relay"}}

InOrder(st) == \A i \in 1 .. Len(st.begun) : st.begun[i] = i

(* The close was requested exactly when STOPPING is set. *)
Stops(st) ==
  /\ st.closes + st.freed <= 1
  /\ "STOPPING" \in st.flags <=> st.closes + st.freed = 1

(* A request is in progress: what its flags say about its operations. *)
Busy(st, left) ==
  /\ st.ops \in Together
  /\ ~ st.reading
  /\ "STOPPING" \in st.flags => st.ops = {"upload"} /\ ~ st.counted
  /\ Len(st.begun) = IF Unbegun(st) THEN st.cur - 1 ELSE st.cur
  /\ Answering(st) => "DATA" \in st.flags
  /\ "upload" \in st.ops => "POST" \in st.flags
  /\ st.bodyLeft /\ st.keep => "POST" \in st.flags
  /\ st.buffered >= 1 /\ st.cur >= 1 /\ st.cur + st.buffered + left <= MaxReq + 1

(* The connection waits for the next request head. *)
Waits(st, left) ==
  /\ st.ops = {} /\ st.buffered = 0 /\ ~ st.bodyLeft
  /\ "HEADERS" \in st.flags /\ st.flags \subseteq {"HEADERS", "STOPPING"}
  /\ Len(st.begun) = st.cur /\ st.cur + left <= MaxReq

Good(st, left) ==
  /\ st \in ClientType
  /\ st.framed /\ InOrder(st) /\ Len(st.begun) \in {st.cur - 1, st.cur}
  /\ Stops(st)
  /\ st.freed > 0 => st.ops = {} /\ ~ st.reading /\ st.flags = {"STOPPING"}
  /\ st.reading => Waits(st, left)
  /\ st.ops # {} => Busy(st, left)
  /\ "ERROR" \in st.flags => "raw" \in st.ops

IInv == /\ Good(h, peer.left)
        /\ peer \in [left : 0 .. MaxReq, open : BOOLEAN]

(* The calls a handler may make. *)
Handlers == {"text", "file", "missing", "cgi", "cgi_fails", "cached", "proxy",
             "proxy_cached", "shutdown"}

(* What no function of the code that runs inside a request changes. *)
Same(q, st) ==
  /\ q.cur = st.cur /\ q.buffered = st.buffered /\ q.reading = st.reading
  /\ q.bodyLeft = st.bodyLeft /\ q.counted = st.counted /\ q.framed = st.framed
  /\ q.closes = st.closes /\ q.freed = st.freed

(* A request was read and its connection is not closing. *)
Core(st, left) ==
  /\ st \in ClientType /\ st.framed /\ InOrder(st) /\ ~ st.reading
  /\ st.closes = 0 /\ st.freed = 0 /\ "STOPPING" \notin st.flags
  /\ st.buffered >= 1 /\ st.cur >= 1 /\ st.cur + st.buffered + left <= MaxReq + 1

(* The handlers of a request run: nothing answers it yet, or one operation *)
(* does. *)
Handling(st, left) ==
  /\ Core(st, left)
  /\ "POST" \notin st.flags
  /\ st.bodyLeft /\ st.keep => st.method = "POST"
  /\ "ERROR" \in st.flags => st.ops = {"raw"}
  /\ "CGI" \in st.flags /\ "ERROR" \notin st.flags => st.ops \in {{"pipe"}, {"worker"}}
  /\ \/ "DATA" \notin st.flags /\ st.ops = {} /\ Len(st.begun) = st.cur - 1
     \/ /\ "DATA" \in st.flags
        /\ st.ops \in {{"raw"}, {"pipe"}, {"worker"}, {"proxy"}, {"proxy", "relay"}}
        /\ Len(st.begun) = IF Unbegun(st) THEN st.cur - 1 ELSE st.cur

----------------------------------------------------------------------------
(* The fields of a client. *)
LEMMA Fields ==
  ASSUME NEW st \in ClientType
  PROVE  /\ st.flags \in SUBSET Flag /\ st.keep \in BOOLEAN /\ st.method \in {"GET", "POST"}
         /\ st.cur \in Nat /\ st.cur <= MaxReq /\ st.buffered \in Nat /\ st.buffered <= MaxReq
         /\ st.reading \in BOOLEAN /\ st.bodyLeft \in BOOLEAN /\ st.counted \in BOOLEAN
         /\ st.framed \in BOOLEAN /\ st.ops \in SUBSET Operation
         /\ st.begun \in Seq(1 .. MaxReq) /\ Len(st.begun) \in Nat
         /\ st.closes \in Nat /\ st.freed \in Nat
<1>1. st.begun \in Seq(1 .. MaxReq)
  BY DEF ClientType
<1>2. Len(st.begun) \in Nat
  BY <1>1, LenProperties
<1> QED BY <1>1, <1>2, HttpdAssumption DEF ClientType

(* Set changes the flags and nothing else. *)
LEMMA SetFields ==
  ASSUME NEW st \in ClientType, NEW fs \in SUBSET Flag
  PROVE  LET q == Set(st, fs)
         IN  /\ q \in ClientType /\ Same(q, st) /\ q.flags = st.flags \cup fs
             /\ q.keep = st.keep /\ q.method = st.method
             /\ q.ops = st.ops /\ q.begun = st.begun
<1> DEFINE F == st.flags \cup fs
           q == [st EXCEPT !.flags = F]
<1>1. F \in SUBSET Flag
  BY DEF ClientType
<1> HIDE DEF F
<1>2. /\ q \in ClientType /\ Same(q, st) /\ q.flags = F
      /\ q.keep = st.keep /\ q.method = st.method
      /\ q.ops = st.ops /\ q.begun = st.begun
  BY <1>1 DEF ClientType, Same
<1> QED BY <1>2 DEF Set, F

(* Clear changes the flags and nothing else. *)
LEMMA ClearFields ==
  ASSUME NEW st \in ClientType, NEW fs \in SUBSET Flag
  PROVE  LET q == Clear(st, fs)
         IN  /\ q \in ClientType /\ Same(q, st) /\ q.flags = st.flags \ fs
             /\ q.keep = st.keep /\ q.method = st.method
             /\ q.ops = st.ops /\ q.begun = st.begun
<1> DEFINE F == st.flags \ fs
           q == [st EXCEPT !.flags = F]
<1>1. F \in SUBSET Flag
  BY DEF ClientType
<1> HIDE DEF F
<1>2. /\ q \in ClientType /\ Same(q, st) /\ q.flags = F
      /\ q.keep = st.keep /\ q.method = st.method
      /\ q.ops = st.ops /\ q.begun = st.begun
  BY <1>1 DEF ClientType, Same
<1> QED BY <1>2 DEF Clear, F

(* Appending the current request, the only one not answered, keeps the     *)
(* order of the answers. *)
LEMMA BeginNext ==
  ASSUME NEW st \in ClientType, st.cur >= 1
  PROVE  LET b == Append(st.begun, st.cur)
         IN  /\ b \in Seq(1 .. MaxReq) /\ Len(b) = Len(st.begun) + 1
             /\ InOrder(st) /\ Len(st.begun) = st.cur - 1 =>
                  \A i \in 1 .. Len(b) : b[i] = i
<1> DEFINE b == Append(st.begun, st.cur)
<1>1. st.begun \in Seq(1 .. MaxReq) /\ Len(st.begun) \in Nat /\ st.cur \in 1 .. MaxReq
      /\ st.cur \in Nat
  BY Fields, HttpdAssumption
<1>2. /\ b \in Seq(1 .. MaxReq) /\ Len(b) = Len(st.begun) + 1
      /\ \A i \in 1 .. Len(st.begun) : b[i] = st.begun[i]
      /\ b[Len(st.begun) + 1] = st.cur
  BY <1>1, AppendProperties
<1> HIDE DEF b
<1>3. ASSUME InOrder(st), Len(st.begun) = st.cur - 1, NEW i \in 1 .. Len(b)
      PROVE  b[i] = i
  <2>1. CASE i = Len(st.begun) + 1
    <3>1. Len(st.begun) + 1 = st.cur
      BY <1>1, <1>3
    <3> QED BY <1>2, <2>1, <3>1
  <2>2. CASE i # Len(st.begun) + 1
    <3>1. i \in 1 .. Len(st.begun)
      BY <1>1, <1>2, <2>2
    <3> QED BY <1>2, <1>3, <3>1 DEF InOrder
  <2> QED BY <2>1, <2>2
<1> QED BY <1>2, <1>3 DEF b

(* Submit adds an operation and a response. *)
LEMMA SubmitFields ==
  ASSUME NEW st \in ClientType, NEW o \in Operation, st.cur >= 1
  PROVE  LET q == Submit(st, o)
         IN  /\ q \in ClientType /\ Same(q, st) /\ q.flags = st.flags
             /\ q.keep = st.keep /\ q.method = st.method
             /\ q.ops = st.ops \cup {o} /\ Len(q.begun) = Len(st.begun) + 1
             /\ InOrder(st) /\ Len(st.begun) = st.cur - 1 => InOrder(q)
<1> DEFINE O == st.ops \cup {o}
           b == Append(st.begun, st.cur)
           q == [st EXCEPT !.ops = O, !.begun = b]
<1>1. O \in SUBSET Operation
  BY DEF ClientType
<1>2. /\ b \in Seq(1 .. MaxReq) /\ Len(b) = Len(st.begun) + 1
      /\ InOrder(st) /\ Len(st.begun) = st.cur - 1 =>
           \A i \in 1 .. Len(b) : b[i] = i
  BY BeginNext
<1>3. q = Submit(st, o)
  BY DEF Submit
<1>4. O = st.ops \cup {o}
  OBVIOUS
<1> HIDE DEF O, b
<1>5. /\ q \in ClientType /\ Same(q, st) /\ q.flags = st.flags
      /\ q.keep = st.keep /\ q.method = st.method /\ q.ops = O /\ q.begun = b
  BY <1>1, <1>2 DEF ClientType, Same
<1> HIDE DEF q
<1>6. InOrder(st) /\ Len(st.begun) = st.cur - 1 => InOrder(q)
  BY <1>2, <1>5 DEF InOrder
<1> QED BY <1>2, <1>3, <1>4, <1>5, <1>6

(* httpd_respond_fatal answers, drops the upload and the connection. *)
LEMMA FatalFields ==
  ASSUME NEW st \in ClientType, st.cur >= 1, "ERROR" \notin st.flags
  PROVE  LET q == httpd_respond_fatal(st)
         IN  /\ q \in ClientType /\ Same(q, st)
             /\ q.flags = (st.flags \ {"POST"}) \cup {"ERROR", "DATA"}
             /\ ~ q.keep /\ q.method = "GET"
             /\ q.ops = st.ops \cup {"raw"} /\ Len(q.begun) = Len(st.begun) + 1
             /\ InOrder(st) /\ Len(st.begun) = st.cur - 1 => InOrder(q)
<1> DEFINE F == (st.flags \ {"POST"}) \cup {"ERROR", "DATA"}
           p == [st EXCEPT !.flags = F, !.method = "GET", !.keep = FALSE]
           q == Submit(p, "raw")
<1>1. F \in SUBSET Flag
  BY DEF ClientType, Flag
<1>2. q = httpd_respond_fatal(st) /\ F = (st.flags \ {"POST"}) \cup {"ERROR", "DATA"}
  BY DEF httpd_respond_fatal
<1> HIDE DEF F
<1>3. /\ p \in ClientType /\ Same(p, st) /\ p.flags = F /\ ~ p.keep /\ p.method = "GET"
      /\ p.ops = st.ops /\ p.begun = st.begun
  BY <1>1 DEF ClientType, Same
<1> HIDE DEF p
<1>4. p.cur = st.cur /\ (InOrder(st) => InOrder(p))
  BY <1>3 DEF Same, InOrder
<1>5. /\ q \in ClientType /\ Same(q, p) /\ q.flags = p.flags
      /\ q.keep = p.keep /\ q.method = p.method
      /\ q.ops = p.ops \cup {"raw"} /\ Len(q.begun) = Len(p.begun) + 1
      /\ InOrder(p) /\ Len(p.begun) = p.cur - 1 => InOrder(q)
  BY <1>3, <1>4, SubmitFields DEF Operation
<1> HIDE DEF q
<1>6. Same(q, st)
  BY <1>3, <1>5 DEF Same
<1> QED BY <1>2, <1>3, <1>4, <1>5, <1>6

----------------------------------------------------------------------------
(* The handlers of a request. *)

(* Core only depends on the fields Same keeps, the order of the answers    *)
(* and STOPPING. *)
LEMMA CoreSame ==
  ASSUME NEW st, NEW q \in ClientType, NEW left \in Nat, Core(st, left),
         Same(q, st), InOrder(q), "STOPPING" \notin q.flags
  PROVE  Core(q, left)
BY DEF Core, Same

(* A handler submits a response to a request nothing answers yet. *)
LEMMA SubmitHandling ==
  ASSUME NEW st, NEW left \in Nat, Handling(st, left), "DATA" \notin st.flags,
         NEW fs \in SUBSET {"DATA", "CGI", "PROXY"}, "DATA" \in fs,
         NEW o \in {"raw", "pipe"}, "CGI" \in fs => o = "pipe"
  PROVE  Handling(Submit(Set(st, fs), o), left)
<1> DEFINE p == Set(st, fs)
           q == Submit(p, o)
<1>1. /\ st \in ClientType /\ Core(st, left) /\ st.ops = {} /\ Len(st.begun) = st.cur - 1
      /\ st.cur >= 1 /\ InOrder(st) /\ st.flags \cap {"POST", "STOPPING", "ERROR", "CGI"} = {}
      /\ (st.bodyLeft /\ st.keep => st.method = "POST")
  BY DEF Handling, Core
<1>2. fs \in SUBSET Flag
  BY DEF Flag
<1>3. /\ p \in ClientType /\ Same(p, st) /\ p.flags = st.flags \cup fs
      /\ p.keep = st.keep /\ p.method = st.method
      /\ p.ops = st.ops /\ p.begun = st.begun
  BY <1>1, <1>2, SetFields
<1> HIDE DEF p
<1>4. p.cur = st.cur /\ InOrder(p) /\ p.bodyLeft = st.bodyLeft
  BY <1>1, <1>3 DEF Same, InOrder
<1>5. /\ q \in ClientType /\ Same(q, p) /\ q.flags = p.flags
      /\ q.keep = p.keep /\ q.method = p.method
      /\ q.ops = p.ops \cup {o} /\ Len(q.begun) = Len(p.begun) + 1
      /\ InOrder(p) /\ Len(p.begun) = p.cur - 1 => InOrder(q)
  BY <1>1, <1>3, <1>4, SubmitFields, SMTT(30) DEF Operation
<1> HIDE DEF q
<1>6. Same(q, st) /\ InOrder(q) /\ q.cur = st.cur /\ q.bodyLeft = st.bodyLeft
  BY <1>1, <1>3, <1>4, <1>5 DEF Same
<1>7. Core(q, left)
  BY <1>1, <1>3, <1>5, <1>6, CoreSame
<1>8. q.ops = {o} /\ ~ Unbegun(q)
  BY <1>1, <1>3, <1>5 DEF Unbegun
<1>9. Len(q.begun) = q.cur
  BY <1>1, <1>3, <1>5, <1>6, Fields
<1>10. /\ "POST" \notin q.flags /\ "ERROR" \notin q.flags /\ "DATA" \in q.flags
       /\ "CGI" \in q.flags => o = "pipe"
  BY <1>1, <1>3, <1>5
<1>11. q.bodyLeft /\ q.keep => q.method = "POST"
  BY <1>1, <1>3, <1>5, <1>6
<1>12. Handling(q, left)
  BY <1>7, <1>8, <1>9, <1>10, <1>11 DEF Handling
<1> QED BY <1>12 DEF q, p

(* A handler refuses a request nothing answers yet. *)
LEMMA FatalHandling ==
  ASSUME NEW st, NEW left \in Nat, Handling(st, left), "DATA" \notin st.flags,
         NEW fs \in SUBSET {"DATA", "CGI"}
  PROVE  Handling(httpd_respond_fatal(Set(st, fs)), left)
<1> DEFINE p == Set(st, fs)
           q == httpd_respond_fatal(p)
<1>1. /\ st \in ClientType /\ Core(st, left) /\ st.ops = {} /\ Len(st.begun) = st.cur - 1
      /\ st.cur >= 1 /\ InOrder(st) /\ st.flags \cap {"POST", "STOPPING", "ERROR"} = {}
  BY DEF Handling, Core
<1>2. fs \in SUBSET Flag
  BY DEF Flag
<1>3. /\ p \in ClientType /\ Same(p, st) /\ p.flags = st.flags \cup fs
      /\ p.ops = st.ops /\ p.begun = st.begun
  BY <1>1, <1>2, SetFields
<1> HIDE DEF p
<1>4. p.cur = st.cur /\ InOrder(p) /\ "ERROR" \notin p.flags
  BY <1>1, <1>3 DEF Same, InOrder
<1>5. /\ q \in ClientType /\ Same(q, p) /\ q.flags = (p.flags \ {"POST"}) \cup {"ERROR", "DATA"}
      /\ ~ q.keep
      /\ q.ops = p.ops \cup {"raw"} /\ Len(q.begun) = Len(p.begun) + 1
      /\ InOrder(p) /\ Len(p.begun) = p.cur - 1 => InOrder(q)
  BY <1>1, <1>3, <1>4, FatalFields
<1> HIDE DEF q
<1>6. Same(q, st) /\ InOrder(q) /\ q.cur = st.cur
  BY <1>1, <1>3, <1>4, <1>5 DEF Same
<1>7. "STOPPING" \notin q.flags /\ "POST" \notin q.flags /\ "ERROR" \in q.flags /\ "DATA" \in q.flags
  BY <1>1, <1>3, <1>5
<1>8. Core(q, left)
  BY <1>1, <1>5, <1>6, <1>7, CoreSame
<1>9. q.ops = {"raw"} /\ ~ Unbegun(q)
  BY <1>1, <1>3, <1>5 DEF Unbegun
<1>10. Len(q.begun) = q.cur
  BY <1>1, <1>3, <1>5, <1>6, Fields
<1>11. Handling(q, left)
  BY <1>5, <1>7, <1>8, <1>9, <1>10 DEF Handling
<1> QED BY <1>11 DEF q, p

(* A handler starts a worker or a proxied request, whose response begins   *)
(* later. *)
LEMMA StartHandling ==
  ASSUME NEW st, NEW left \in Nat, Handling(st, left), "DATA" \notin st.flags,
         NEW fs \in SUBSET {"DATA", "CGI", "PROXY"}, "DATA" \in fs,
         NEW new \in {{"worker"}, {"proxy"}, {"proxy", "relay"}},
         "CGI" \in fs => new = {"worker"}
  PROVE  Handling([Set(st, fs) EXCEPT !.ops = Set(st, fs).ops \cup new], left)
<1> DEFINE p == Set(st, fs)
           O == p.ops \cup new
           q == [p EXCEPT !.ops = O]
<1>1. /\ st \in ClientType /\ Core(st, left) /\ st.ops = {} /\ Len(st.begun) = st.cur - 1
      /\ st.cur >= 1 /\ InOrder(st) /\ st.flags \cap {"POST", "STOPPING", "ERROR", "CGI"} = {}
      /\ (st.bodyLeft /\ st.keep => st.method = "POST")
  BY DEF Handling, Core
<1>2. fs \in SUBSET Flag
  BY DEF Flag
<1>3. /\ p \in ClientType /\ Same(p, st) /\ p.flags = st.flags \cup fs
      /\ p.keep = st.keep /\ p.method = st.method
      /\ p.ops = st.ops /\ p.begun = st.begun
  BY <1>1, <1>2, SetFields
<1> HIDE DEF p
<1>4. O = new /\ O \in SUBSET Operation
  BY <1>1, <1>3 DEF Operation
<1> HIDE DEF O
<1>5. /\ q \in ClientType /\ Same(q, p) /\ q.flags = p.flags
      /\ q.keep = p.keep /\ q.method = p.method /\ q.ops = O /\ q.begun = p.begun
  BY <1>3, <1>4 DEF ClientType, Same
<1> HIDE DEF q
<1>6. Same(q, st) /\ InOrder(q) /\ q.cur = st.cur /\ q.bodyLeft = st.bodyLeft
  BY <1>1, <1>3, <1>5 DEF Same, InOrder
<1>7. Core(q, left)
  BY <1>1, <1>3, <1>5, <1>6, CoreSame
<1>8. q.ops = new /\ Unbegun(q)
  BY <1>4, <1>5 DEF Unbegun
<1>9. Len(q.begun) = q.cur - 1
  BY <1>1, <1>3, <1>5, <1>6
<1>10. /\ "POST" \notin q.flags /\ "ERROR" \notin q.flags /\ "DATA" \in q.flags
       /\ "CGI" \in q.flags => new = {"worker"}
  BY <1>1, <1>3, <1>5
<1>11. q.bodyLeft /\ q.keep => q.method = "POST"
  BY <1>1, <1>3, <1>5, <1>6
<1>12. Handling(q, left)
  BY <1>7, <1>8, <1>9, <1>10, <1>11 DEF Handling
<1> QED BY <1>12 DEF q, p, O

(* A handler ends the connection: only END is set. *)
LEMMA EndHandling ==
  ASSUME NEW st, NEW left \in Nat, Handling(st, left)
  PROVE  Handling(Set(st, {"END"}), left)
<1> DEFINE q == Set(st, {"END"})
<1>1. st \in ClientType /\ Core(st, left) /\ InOrder(st) /\ "STOPPING" \notin st.flags
  BY DEF Handling, Core
<1>2. /\ q \in ClientType /\ Same(q, st) /\ q.flags = st.flags \cup {"END"}
      /\ q.keep = st.keep /\ q.method = st.method
      /\ q.ops = st.ops /\ q.begun = st.begun
  BY <1>1, SetFields DEF Flag
<1> HIDE DEF q
<1>3. InOrder(q) /\ q.cur = st.cur /\ q.bodyLeft = st.bodyLeft
  BY <1>1, <1>2 DEF InOrder, Same
<1>4. Core(q, left)
  BY <1>1, <1>2, <1>3, CoreSame
<1>5. \A f \in {"POST", "ERROR", "CGI", "DATA"} : f \in q.flags <=> f \in st.flags
  BY <1>2
<1>6. Handling(q, left)
  BY <1>2, <1>3, <1>4, <1>5 DEF Handling, Unbegun
<1> QED BY <1>6 DEF q

(* Whatever one call of a handler does, the request stays consistent: a    *)
(* call on a request that has its answer changes nothing but END. *)
LEMMA CallHandling ==
  ASSUME NEW st, NEW left \in Nat, Handling(st, left), NEW c \in Handlers
  PROVE  Handling(Call(st, c), left)
<1>1. CASE c = "shutdown"
  BY <1>1, EndHandling DEF Call
<1>2. CASE c = "text"
  <2>1. Call(st, c) = httpd_respond_text(st)
    BY <1>2 DEF Call
  <2>2. CASE "DATA" \in st.flags
    BY <2>1, <2>2 DEF httpd_respond_text
  <2>3. CASE "DATA" \notin st.flags /\ st.method = "POST"
    BY <2>1, <2>3, FatalHandling DEF httpd_respond_text
  <2>4. CASE "DATA" \notin st.flags /\ st.method # "POST"
    BY <2>1, <2>4, SubmitHandling DEF httpd_respond_text
  <2> QED BY <2>2, <2>3, <2>4
<1>3. CASE c \in {"file", "missing"}
  <2>1. Call(st, c) = httpd_handle_file_request(st, c = "file")
    BY <1>3 DEF Call
  <2>2. CASE "DATA" \in st.flags
    BY <2>1, <2>2 DEF httpd_handle_file_request
  <2>3. CASE "DATA" \notin st.flags /\ (st.method = "POST" \/ c # "file")
    BY <2>1, <2>3, FatalHandling DEF httpd_handle_file_request
  <2>4. CASE "DATA" \notin st.flags /\ ~ (st.method = "POST" \/ c # "file")
    BY <2>1, <2>4, SubmitHandling DEF httpd_handle_file_request, httpd_send_file
  <2> QED BY <2>2, <2>3, <2>4
<1>4. CASE c \in {"cgi", "cgi_fails", "cached"}
  <2>1. Call(st, c) = hin_cgi(st, c)
    BY <1>4 DEF Call
  <2>2. CASE "DATA" \in st.flags
    BY <2>1, <2>2 DEF hin_cgi
  <2>3. CASE "DATA" \notin st.flags /\ c = "cached"
    <3>1. Call(st, c) = Submit(Set(st, {"DATA", "CGI"}), "pipe")
      BY <2>1, <2>3 DEF hin_cgi, httpd_send_file
    <3> QED BY <2>3, <3>1, SubmitHandling
  <2>4. CASE "DATA" \notin st.flags /\ c = "cgi_fails"
    <3>1. Call(st, c) = httpd_respond_fatal(Set(st, {"DATA", "CGI"}))
      BY <2>1, <2>4 DEF hin_cgi
    <3> QED BY <2>4, <3>1, FatalHandling
  <2>5. CASE "DATA" \notin st.flags /\ c = "cgi"
    <3> DEFINE fs == {"DATA", "CGI"}
               new == {"worker"}
               p == Set(st, fs)
    <3>1. Call(st, c) = [p EXCEPT !.ops = p.ops \cup new]
      BY <2>1, <2>5 DEF hin_cgi
    <3>2. /\ fs \in SUBSET {"DATA", "CGI", "PROXY"} /\ "DATA" \in fs
          /\ new \in {{"worker"}, {"proxy"}, {"proxy", "relay"}} /\ new = {"worker"}
      OBVIOUS
    <3> HIDE DEF fs, new
    <3>3. Handling([Set(st, fs) EXCEPT !.ops = Set(st, fs).ops \cup new], left)
      BY <2>5, <3>2, StartHandling, Zenon
    <3> QED BY <3>1, <3>3, Zenon
  <2> QED BY <1>4, <2>2, <2>3, <2>4, <2>5
<1>5. CASE c \in {"proxy", "proxy_cached"}
  <2>1. Call(st, c) = hin_proxy(st, c)
    BY <1>5 DEF Call
  <2>2. CASE "DATA" \in st.flags
    BY <2>1, <2>2 DEF hin_proxy
  <2>3. CASE "DATA" \notin st.flags /\ c = "proxy_cached"
    <3>1. Call(st, c) = Submit(Set(st, {"DATA", "PROXY"}), "pipe")
      BY <2>1, <2>3 DEF hin_proxy, httpd_send_file
    <3> QED BY <2>3, <3>1, SubmitHandling
  <2>4. CASE "DATA" \notin st.flags /\ c = "proxy"
    <3> DEFINE fs == {"DATA", "PROXY"}
               relay == IF st.method = "POST" /\ st.counted THEN {"relay"} ELSE {}
               new == {"proxy"} \cup relay
               p == Set(st, fs)
    <3>1. Call(st, c) = [p EXCEPT !.ops = (p.ops \cup {"proxy"}) \cup relay]
      BY <2>1, <2>4 DEF hin_proxy
    <3>2. (p.ops \cup {"proxy"}) \cup relay = p.ops \cup new
      OBVIOUS
    <3>3. fs \in SUBSET {"DATA", "CGI", "PROXY"} /\ "DATA" \in fs /\ "CGI" \notin fs
      OBVIOUS
    <3>4. new \in {{"worker"}, {"proxy"}, {"proxy", "relay"}}
      OBVIOUS
    <3> HIDE DEF fs, new, relay
    <3>5. Call(st, c) = [p EXCEPT !.ops = p.ops \cup new]
      BY <3>1, <3>2
    <3>6. Handling([Set(st, fs) EXCEPT !.ops = Set(st, fs).ops \cup new], left)
      BY <2>4, <3>3, <3>4, StartHandling, Zenon
    <3> QED BY <3>5, <3>6, Zenon
  <2> QED BY <1>5, <2>2, <2>3, <2>4
<1> QED BY <1>1, <1>2, <1>3, <1>4, <1>5 DEF Handlers

(* A set of numbers that is not empty has a least element. *)
LEMMA LeastNat ==
  ASSUME NEW T \in SUBSET Nat, T # {}
  PROVE  \E n \in T : \A m \in T : n <= m
<1>1. \E n \in T : \A m \in T : ~ (<<m, n>> \in OpToRel(<, Nat))
  BY NatLessThanWellFounded, WFMin
<1>2. PICK n \in T : \A m \in T : ~ (<<m, n>> \in OpToRel(<, Nat))
  BY <1>1
<1>3. \A m \in T : ~ (m < n)
  BY <1>2 DEF OpToRel
<1> QED BY <1>3

(* The run of the first m calls, as hin_server_callback defines it. *)
IsRun(g, st, calls, m) ==
  g = [i \in 0 .. m |-> IF i = 0 THEN st ELSE Call(g[i - 1], calls[i])]

(* The recursive definition of hin_server_callback has a solution. *)
LEMMA RunExists ==
  ASSUME NEW st, NEW calls, NEW n \in Nat
  PROVE  \E g : IsRun(g, st, calls, n)
<1> DEFINE T == {m \in Nat : ~ \E g : IsRun(g, st, calls, m)}
<1> SUFFICES ASSUME T # {} PROVE FALSE
  OBVIOUS
<1>1. PICK m \in T : \A k \in T : m <= k
  <2>1. T \in SUBSET Nat
    OBVIOUS
  <2> HIDE DEF T
  <2> QED BY <2>1, LeastNat
<1>2. m \in Nat /\ ~ \E g : IsRun(g, st, calls, m)
  OBVIOUS
<1>3. CASE m = 0
  <2> DEFINE g == [i \in 0 .. m |-> st]
  <2>1. \A i \in 0 .. m : i = 0
    BY <1>3
  <2>2. IsRun(g, st, calls, m)
    BY <2>1 DEF IsRun
  <2> QED BY <1>2, <2>2
<1>4. CASE m # 0
  <2>1. m - 1 \in Nat /\ ~ (m <= m - 1)
    BY <1>2, <1>4
  <2>2. m - 1 \notin T
    BY <1>1, <2>1
  <2>3. PICK g : IsRun(g, st, calls, m - 1)
    BY <2>1, <2>2
  <2> DEFINE f == [i \in 0 .. m |-> IF i = m THEN Call(g[m - 1], calls[m]) ELSE g[i]]
  <2>4. \A i \in 0 .. (m - 1) : g[i] = IF i = 0 THEN st ELSE Call(g[i - 1], calls[i])
    BY <2>3 DEF IsRun
  <2>5. \A i \in 0 .. m : i # m => i \in 0 .. (m - 1) /\ f[i] = g[i]
    BY <1>2
  <2>6. ASSUME NEW i \in 0 .. m
        PROVE  f[i] = IF i = 0 THEN st ELSE Call(f[i - 1], calls[i])
    <3>1. CASE i = m
      <4>1. f[i] = Call(g[m - 1], calls[m])
        BY <3>1
      <4>2. m - 1 \in 0 .. m /\ m - 1 # m
        BY <1>2, <1>4
      <4>3. f[m - 1] = g[m - 1]
        BY <2>5, <4>2
      <4> QED BY <1>4, <3>1, <4>1, <4>3
    <3>2. CASE i # m /\ i = 0
      BY <2>4, <2>5, <3>2
    <3>3. CASE i # m /\ i # 0
      <4>1. f[i] = Call(g[i - 1], calls[i])
        BY <2>4, <2>5, <3>3
      <4>2. i - 1 \in 0 .. m /\ i - 1 # m
        BY <1>2, <3>3
      <4>3. f[i - 1] = g[i - 1]
        BY <2>5, <4>2
      <4> QED BY <3>3, <4>1, <4>3
    <3> QED BY <3>1, <3>2, <3>3
  <2>7. f = [i \in 0 .. m |-> f[i]]
    OBVIOUS
  <2> HIDE DEF f
  <2>8. f = [i \in 0 .. m |-> IF i = 0 THEN st ELSE Call(f[i - 1], calls[i])]
    BY <2>6, <2>7
  <2> QED BY <1>2, <2>8 DEF IsRun
<1> QED BY <1>3, <1>4

(* The handlers of a request, however many calls they make, leave it       *)
(* consistent. *)
LEMMA HandlersHandling ==
  ASSUME NEW st, NEW left \in Nat, Handling(st, left), NEW calls \in Seq(Handlers)
  PROVE  Handling(hin_server_callback(st, calls), left)
<1> DEFINE n == Len(calls)
           g == CHOOSE f : f = [i \in 0 .. n |-> IF i = 0 THEN st ELSE Call(f[i - 1], calls[i])]
<1>1. hin_server_callback(st, calls) = g[n]
  BY Zenon DEF hin_server_callback
<1>2. n \in Nat /\ \A i \in 1 .. n : calls[i] \in Handlers
  BY LenProperties, ElementOfSeq
<1>3. g = [i \in 0 .. n |-> IF i = 0 THEN st ELSE Call(g[i - 1], calls[i])]
  <2> HIDE DEF n
  <2>1. \E f : IsRun(f, st, calls, n)
    BY <1>2, RunExists
  <2>2. \E f : f = [i \in 0 .. n |-> IF i = 0 THEN st ELSE Call(f[i - 1], calls[i])]
    BY <2>1, Zenon DEF IsRun
  <2> QED BY <2>2, Zenon
<1> HIDE DEF g, n
<1>4. \A i \in 0 .. n : g[i] = IF i = 0 THEN st ELSE Call(g[i - 1], calls[i])
  BY <1>3
<1> DEFINE T == {i \in 0 .. n : ~ Handling(g[i], left)}
<1>5. CASE T # {}
  <2>1. PICK i \in T : \A k \in T : i <= k
    <3>1. T \in SUBSET Nat
      OBVIOUS
    <3> HIDE DEF T
    <3> QED BY <1>5, <3>1, LeastNat
  <2>2. i \in 0 .. n /\ ~ Handling(g[i], left)
    OBVIOUS
  <2>3. i # 0
    BY <1>4, <2>2
  <2>4. i - 1 \in 0 .. n /\ ~ (i <= i - 1) /\ i \in 1 .. n
    BY <1>2, <2>2, <2>3
  <2>5. Handling(g[i - 1], left)
    BY <2>1, <2>4
  <2>6. g[i] = Call(g[i - 1], calls[i]) /\ calls[i] \in Handlers
    BY <1>2, <1>4, <2>2, <2>3, <2>4
  <2> QED BY <2>2, <2>5, <2>6, CallHandling
<1>6. CASE T = {}
  BY <1>1, <1>2, <1>6
<1> QED BY <1>5, <1>6

----------------------------------------------------------------------------
(* The functions that end the reading of a request, and those that end a   *)
(* request. *)

(* A request that was read, whose operations agree with its flags. *)
LEMMA CoreGood ==
  ASSUME NEW st, NEW left \in Nat, Core(st, left),
         Len(st.begun) \in {st.cur - 1, st.cur},
         "ERROR" \in st.flags => "raw" \in st.ops,
         st.ops # {} =>
           /\ st.ops \in Together
           /\ Len(st.begun) = IF Unbegun(st) THEN st.cur - 1 ELSE st.cur
           /\ Answering(st) => "DATA" \in st.flags
           /\ "upload" \in st.ops => "POST" \in st.flags
           /\ st.bodyLeft /\ st.keep => "POST" \in st.flags
  PROVE  Good(st, left)
<1>1. Stops(st)
  BY DEF Core, Stops
<1>2. st.ops # {} => Busy(st, left)
  BY DEF Core, Busy
<1> QED BY <1>1, <1>2 DEF Core, Good

(* httpd_respond_fatal on a request that has no answer yet. *)
LEMMA FatalGood ==
  ASSUME NEW st, NEW left \in Nat, Core(st, left), st.ops = {},
         Len(st.begun) = st.cur - 1, "ERROR" \notin st.flags
  PROVE  Good(httpd_respond_fatal(st), left)
<1> DEFINE q == httpd_respond_fatal(st)
<1>1. st \in ClientType /\ st.cur >= 1 /\ InOrder(st) /\ "STOPPING" \notin st.flags
  BY DEF Core
<1>2. /\ q \in ClientType /\ Same(q, st)
      /\ q.flags = (st.flags \ {"POST"}) \cup {"ERROR", "DATA"}
      /\ ~ q.keep
      /\ q.ops = st.ops \cup {"raw"} /\ Len(q.begun) = Len(st.begun) + 1
      /\ InOrder(q)
  BY <1>1, FatalFields
<1> HIDE DEF q
<1>3. Core(q, left)
  BY <1>1, <1>2, CoreSame
<1>4. Len(q.begun) = q.cur
  BY <1>1, <1>2, Fields DEF Same
<1>5. q.ops = {"raw"} /\ ~ Unbegun(q) /\ "DATA" \in q.flags /\ q.ops \in Together
  BY <1>2 DEF Unbegun, Together
<1>6. Good(q, left)
  BY <1>2, <1>3, <1>4, <1>5, CoreGood
<1> QED BY <1>6 DEF q

(* The end of httpd_client_read_callback: a request the handlers left      *)
(* unanswered is refused, an upload is started beside the worker or pipe   *)
(* that answers. *)
LEMMA DispatchGood ==
  ASSUME NEW st, NEW left \in Nat, Handling(st, left)
  PROVE  Good(Dispatch(httpd_client_start_post(st)), left)
<1> DEFINE p == httpd_client_start_post(st)
<1>1. /\ st \in ClientType /\ Core(st, left) /\ InOrder(st) /\ "STOPPING" \notin st.flags
      /\ st.bodyLeft /\ st.keep => st.method = "POST"
      /\ "ERROR" \in st.flags => st.ops = {"raw"}
      /\ "POST" \notin st.flags
  BY DEF Handling, Core
<1>2. \/ "DATA" \notin st.flags /\ st.ops = {} /\ Len(st.begun) = st.cur - 1
      \/ /\ "DATA" \in st.flags
         /\ st.ops \in {{"raw"}, {"pipe"}, {"worker"}, {"proxy"}, {"proxy", "relay"}}
         /\ Len(st.begun) = IF Unbegun(st) THEN st.cur - 1 ELSE st.cur
  BY DEF Handling
<1>3. "CGI" \in st.flags /\ "ERROR" \notin st.flags => st.ops \in {{"pipe"}, {"worker"}}
  BY DEF Handling
<1>4. /\ p \in ClientType /\ Same(p, st) /\ p.ops = st.ops /\ p.begun = st.begun
      /\ p.keep = st.keep
      /\ p.flags = IF st.method = "POST" THEN st.flags \cup {"POST"} ELSE st.flags
  <2>1. CASE st.method = "POST"
    BY <1>1, <2>1, SetFields DEF httpd_client_start_post, Flag
  <2>2. CASE st.method # "POST"
    BY <1>1, <2>2 DEF httpd_client_start_post, Same
  <2> QED BY <2>1, <2>2
<1> HIDE DEF p
<1>5. /\ \A f \in {"DATA", "ERROR", "CGI", "STOPPING"} : f \in p.flags <=> f \in st.flags
      /\ "POST" \in p.flags <=> st.method = "POST"
      /\ p.cur = st.cur /\ p.bodyLeft = st.bodyLeft /\ InOrder(p)
  BY <1>1, <1>4 DEF Same, InOrder
<1>6. Core(p, left)
  BY <1>1, <1>4, <1>5, CoreSame
<1>7. CASE "DATA" \notin st.flags
  <2>1. p.ops = {} /\ Len(p.begun) = p.cur - 1 /\ "ERROR" \notin p.flags
    BY <1>1, <1>2, <1>4, <1>5, <1>7
  <2>2. Good(p, left)
    BY <1>6, <2>1, CoreGood
  <2>3. Good(httpd_respond_fatal(p), left)
    BY <1>6, <2>1, FatalGood
  <2>4. Dispatch(p) \in {p, httpd_respond_fatal(p)}
    BY <1>5, <1>7 DEF Dispatch
  <2> QED BY <2>2, <2>3, <2>4 DEF p
<1>8. CASE "DATA" \in st.flags
  <2>1. /\ p.ops \in {{"raw"}, {"pipe"}, {"worker"}, {"proxy"}, {"proxy", "relay"}}
        /\ p.ops \in Together /\ p.ops # {} /\ "upload" \notin p.ops
    <3>1. p.ops \in {{"raw"}, {"pipe"}, {"worker"}, {"proxy"}, {"proxy", "relay"}}
      BY <1>2, <1>4, <1>8
    <3>2. p.ops \in Together
      BY <3>1, Zenon DEF Together
    <3>3. p.ops # {} /\ "upload" \notin p.ops
      BY <3>1
    <3> QED BY <3>1, <3>2, <3>3
  <2>2. Len(p.begun) = IF Unbegun(p) THEN p.cur - 1 ELSE p.cur
    BY <1>2, <1>4, <1>5, <1>8 DEF Unbegun
  <2>3. "ERROR" \in p.flags => "raw" \in p.ops
    BY <1>1, <1>4, <1>5
  <2>4. p.bodyLeft /\ p.keep => "POST" \in p.flags
    BY <1>1, <1>4, <1>5
  <2>5. "DATA" \in p.flags
    BY <1>5, <1>8
  <2>6. Good(p, left)
    BY <1>6, <2>1, <2>2, <2>3, <2>4, <2>5, CoreGood
  <2>7. ASSUME "ERROR" \notin p.flags, {"CGI", "POST"} \subseteq p.flags
        PROVE  Good([p EXCEPT !.ops = p.ops \cup {"upload"}], left)
    <3> DEFINE O == p.ops \cup {"upload"}
               q == [p EXCEPT !.ops = O]
    <3>1. p.ops \in {{"pipe"}, {"worker"}}
      BY <1>3, <1>4, <1>5, <2>7
    <3>2. /\ O \in SUBSET Operation /\ O \in Together /\ "raw" \notin O
          /\ "worker" \in O <=> "worker" \in p.ops
          /\ "proxy" \in O <=> "proxy" \in p.ops
      BY <3>1 DEF Together, Operation
    <3> HIDE DEF O
    <3>3. /\ q \in ClientType /\ Same(q, p) /\ q.flags = p.flags
          /\ q.keep = p.keep /\ q.ops = O /\ q.begun = p.begun
      BY <1>4, <3>2 DEF ClientType, Same
    <3> HIDE DEF q
    <3>4. InOrder(q) /\ q.cur = p.cur /\ q.bodyLeft = p.bodyLeft
      BY <1>5, <3>3 DEF InOrder, Same
    <3>5. Core(q, left)
      BY <1>1, <1>5, <1>6, <3>3, <3>4, CoreSame
    <3>6. Len(q.begun) = IF Unbegun(q) THEN q.cur - 1 ELSE q.cur
      BY <2>2, <3>2, <3>3, <3>4 DEF Unbegun
    <3>7. Good(q, left)
      BY <2>4, <2>5, <2>7, <3>2, <3>3, <3>4, <3>5, <3>6, CoreGood
    <3> QED BY <3>7 DEF q, O
  <2>8. CASE "END" \notin p.flags /\ "ERROR" \notin p.flags /\ {"CGI", "POST"} \subseteq p.flags
    <3>1. Dispatch(p) = [p EXCEPT !.ops = p.ops \cup {"upload"}]
      BY <2>5, <2>8 DEF Dispatch
    <3> QED BY <2>7, <2>8, <3>1 DEF p
  <2>9. CASE ~ ("END" \notin p.flags /\ "ERROR" \notin p.flags /\ {"CGI", "POST"} \subseteq p.flags)
    <3>1. Dispatch(p) = p
      BY <2>5, <2>9 DEF Dispatch
    <3> QED BY <2>6, <3>1 DEF p
  <2> QED BY <2>8, <2>9
<1> QED BY <1>7, <1>8

(* The connection is between two requests: the last one is answered and    *)
(* its bytes, the body's included, were taken out of the buffer. *)
Ready(st, left) ==
  /\ st \in ClientType /\ st.framed /\ InOrder(st) /\ ~ st.reading /\ ~ st.bodyLeft
  /\ st.closes = 0 /\ st.freed = 0 /\ st.flags = {"HEADERS"} /\ st.ops = {}
  /\ Len(st.begun) = st.cur /\ st.cur + st.buffered + left <= MaxReq

(* httpd_client_shutdown, once, of a client nothing points at. *)
LEMMA ShutdownFields ==
  ASSUME NEW st \in ClientType, st.freed = 0, Stops(st)
  PROVE  LET q == httpd_client_shutdown(st)
         IN  /\ q \in ClientType /\ q.flags = st.flags \cup {"STOPPING"}
             /\ Stops(q) /\ q.freed = 0
             /\ q.keep = st.keep /\ q.method = st.method /\ q.cur = st.cur
             /\ q.buffered = st.buffered /\ q.reading = st.reading
             /\ q.bodyLeft = st.bodyLeft /\ q.counted = st.counted
             /\ q.framed = st.framed /\ q.ops = st.ops /\ q.begun = st.begun
<1> DEFINE q == httpd_client_shutdown(st)
<1>1. CASE "STOPPING" \in st.flags
  <2>1. q = st /\ st.flags = st.flags \cup {"STOPPING"}
    BY <1>1 DEF httpd_client_shutdown
  <2> QED BY <2>1
<1>2. CASE "STOPPING" \notin st.flags
  <2> DEFINE F == st.flags \cup {"STOPPING"}
             c == st.closes + 1
             s == [st EXCEPT !.flags = F, !.closes = c]
  <2>1. q = s
    BY <1>2 DEF httpd_client_shutdown
  <2>2. st.closes = 0
    BY <1>2, Fields DEF Stops
  <2>3. F \in SUBSET Flag /\ "STOPPING" \in F /\ c = 1 /\ c \in Nat
    BY <2>2, Fields DEF Flag
  <2>4. F = st.flags \cup {"STOPPING"}
    OBVIOUS
  <2> HIDE DEF F, c
  <2>5. /\ s \in ClientType /\ s.flags = F /\ s.closes = c /\ s.freed = st.freed
        /\ s.keep = st.keep /\ s.method = st.method /\ s.cur = st.cur
        /\ s.buffered = st.buffered /\ s.reading = st.reading
        /\ s.bodyLeft = st.bodyLeft /\ s.counted = st.counted
        /\ s.framed = st.framed /\ s.ops = st.ops /\ s.begun = st.begun
    BY <2>3 DEF ClientType
  <2> HIDE DEF s
  <2>6. Stops(s)
    BY <2>3, <2>5 DEF Stops
  <2> HIDE DEF q
  <2> QED BY <2>1, <2>4, <2>5, <2>6 DEF q
<1> QED BY <1>1, <1>2

(* The connection of a finished request is closed. *)
LEMMA ShutdownGood ==
  ASSUME NEW st \in ClientType, NEW left \in Nat, st.ops = {}, "ERROR" \notin st.flags,
         st.framed, ~ st.reading, st.freed = 0, InOrder(st), Stops(st),
         Len(st.begun) \in {st.cur - 1, st.cur}
  PROVE  Good(httpd_client_shutdown(st), left)
<1> DEFINE q == httpd_client_shutdown(st)
<1>1. /\ q \in ClientType /\ q.flags = st.flags \cup {"STOPPING"}
      /\ Stops(q) /\ q.freed = 0 /\ q.cur = st.cur /\ q.reading = st.reading
      /\ q.framed = st.framed /\ q.ops = st.ops /\ q.begun = st.begun
  BY ShutdownFields
<1> HIDE DEF q
<1>2. InOrder(q) /\ "ERROR" \notin q.flags
  BY <1>1 DEF InOrder
<1>3. Good(q, left)
  BY <1>1, <1>2 DEF Good
<1> QED BY <1>3 DEF q

(* httpd_client_read_callback, on any request. *)
LEMMA ReadCallbackGood ==
  ASSUME NEW st, NEW left \in Nat, Ready(st, left), st.buffered >= 1, NEW r \in Requests
  PROVE  Good(httpd_client_read_callback(st, r), left)
<1> DEFINE c == st.cur + 1
           fr == st.framed /\ ~ st.bodyLeft
           ct == r.body # "empty"
           bl == r.method = "POST" /\ r.body = "more"
           q == [st EXCEPT !.cur = c, !.method = r.method, !.keep = r.keep,
                           !.framed = fr, !.counted = ct, !.bodyLeft = bl]
           parsed == Clear(q, {"HEADERS"})
<1>1. /\ r.head \in {"ok", "bad", "silent", "chunked"} /\ r.method \in {"GET", "POST"}
      /\ r.keep \in BOOLEAN /\ r.calls \in Seq(Handlers)
  BY HttpdAssumption DEF RequestType, Handlers
<1>2. /\ st \in ClientType /\ st.framed /\ InOrder(st) /\ ~ st.reading /\ ~ st.bodyLeft
      /\ st.closes = 0 /\ st.freed = 0 /\ st.flags = {"HEADERS"} /\ st.ops = {}
      /\ Len(st.begun) = st.cur /\ st.cur + st.buffered + left <= MaxReq
      /\ st.cur \in Nat /\ st.buffered \in Nat /\ MaxReq \in Nat
  BY Fields, HttpdAssumption DEF Ready
<1>3. /\ c \in 0 .. MaxReq /\ c >= 1 /\ c + st.buffered + left <= MaxReq + 1
      /\ Len(st.begun) = c - 1
  <2>1. \A x, b, l, m \in Nat : b >= 1 /\ x + b + l <= m =>
          /\ x + 1 \in 0 .. m /\ x + 1 >= 1 /\ (x + 1) + b + l <= m + 1
          /\ x = (x + 1) - 1
    OBVIOUS
  <2> QED BY <1>2, <2>1
<1>4. fr /\ ct \in BOOLEAN /\ bl \in BOOLEAN /\ (bl => r.method = "POST")
  BY <1>2
<1>5. httpd_client_read_callback(st, r) =
        CASE r.head = "bad" -> httpd_respond_fatal(q)
          [] r.head = "silent" -> q
          [] r.head = "chunked" -> httpd_respond_fatal(parsed)
          [] r.head = "ok" ->
               Dispatch(httpd_client_start_post(hin_server_callback(parsed, r.calls)))
  BY Zenon DEF httpd_client_read_callback
<1> HIDE DEF c, fr, ct, bl
<1>6. /\ q \in ClientType /\ q.cur = c /\ q.method = r.method /\ q.framed = fr
      /\ q.bodyLeft = bl /\ q.flags = st.flags /\ q.ops = st.ops /\ q.begun = st.begun
      /\ q.reading = st.reading /\ q.closes = st.closes /\ q.freed = st.freed
      /\ q.buffered = st.buffered
  BY <1>1, <1>2, <1>3, <1>4 DEF ClientType
<1> HIDE DEF q
<1>7. /\ Core(q, left) /\ InOrder(q) /\ q.ops = {} /\ Len(q.begun) = q.cur - 1
      /\ q.flags = {"HEADERS"} /\ (q.bodyLeft => q.method = "POST")
  BY <1>2, <1>3, <1>4, <1>6 DEF Core, InOrder
<1>8. /\ parsed \in ClientType /\ Same(parsed, q) /\ parsed.flags = q.flags \ {"HEADERS"}
      /\ parsed.keep = q.keep /\ parsed.method = q.method
      /\ parsed.ops = q.ops /\ parsed.begun = q.begun
  BY <1>6, ClearFields DEF Flag
<1> HIDE DEF parsed
<1>9. /\ InOrder(parsed) /\ parsed.ops = {} /\ Len(parsed.begun) = parsed.cur - 1
      /\ parsed.flags = {} /\ (parsed.bodyLeft => parsed.method = "POST")
  BY <1>7, <1>8 DEF Same, InOrder
<1>10. Core(parsed, left)
  BY <1>7, <1>8, <1>9, CoreSame
<1>11. Handling(parsed, left)
  BY <1>9, <1>10 DEF Handling
<1>12. Good(httpd_respond_fatal(q), left)
  BY <1>7, FatalGood
<1>13. Good(q, left)
  BY <1>7, CoreGood
<1>14. Good(httpd_respond_fatal(parsed), left)
  BY <1>9, <1>10, FatalGood
<1>15. Good(Dispatch(httpd_client_start_post(hin_server_callback(parsed, r.calls))), left)
  BY <1>1, <1>11, HandlersHandling, DispatchGood
<1> QED BY <1>1, <1>5, <1>12, <1>13, <1>14, <1>15

(* hin_lines_reread takes the next request of the buffer, or asks for more *)
(* when there is none. *)
LEMMA RereadGood ==
  ASSUME NEW st, NEW left \in Nat, Ready(st, left), NEW q \in hin_lines_reread(st)
  PROVE  Good(q, left)
<1>1. st \in ClientType /\ st.buffered \in Nat
  BY Fields DEF Ready
<1>2. CASE st.buffered = 0
  <2>1. q = [st EXCEPT !.reading = TRUE]
    BY <1>2 DEF hin_lines_reread, hin_lines_request
  <2>2. /\ q \in ClientType /\ q.framed = st.framed /\ q.begun = st.begun
        /\ q.bodyLeft = st.bodyLeft /\ q.closes = st.closes /\ q.freed = st.freed
        /\ q.flags = st.flags /\ q.ops = st.ops /\ q.cur = st.cur /\ q.buffered = st.buffered
    BY <1>1, <2>1 DEF ClientType
  <2>3. Stops(q) /\ InOrder(q)
    BY <2>2 DEF Stops, Ready, InOrder
  <2>4. q.cur + left <= MaxReq
    BY <1>1, <1>2, <2>2, Fields DEF Ready
  <2>5. Waits(q, left)
    BY <1>2, <2>2, <2>4 DEF Waits, Ready
  <2> QED BY <2>2, <2>3, <2>5 DEF Good, Ready
<1>3. CASE st.buffered # 0
  <2>1. PICK r \in Requests : q = httpd_client_read_callback(st, r)
    BY <1>3 DEF hin_lines_reread
  <2>2. st.buffered >= 1
    BY <1>1, <1>3
  <2> QED BY <2>1, <2>2, ReadCallbackGood
<1> QED BY <1>2, <1>3

(* The state in which the code calls httpd_client_finish_request: the      *)
(* answer is complete, and at most an upload still runs. *)
Finishing(st, left) ==
  /\ st \in ClientType /\ st.framed /\ InOrder(st) /\ ~ st.reading /\ Stops(st)
  /\ st.freed = 0 /\ "ERROR" \notin st.flags /\ Len(st.begun) = st.cur
  /\ st.ops \in {{}, {"upload"}}
  /\ "upload" \in st.ops => "POST" \in st.flags
  /\ st.bodyLeft /\ st.keep => "POST" \in st.flags
  /\ "STOPPING" \in st.flags => st.ops = {} \/ ~ st.counted
  /\ st.buffered >= 1 /\ st.cur >= 1 /\ st.cur + st.buffered + left <= MaxReq + 1

(* httpd_client_finish_request waits for the upload, takes the next        *)
(* request or closes the connection. *)
LEMMA FinishGood ==
  ASSUME NEW st, NEW left \in Nat, Finishing(st, left),
         NEW q \in httpd_client_finish_request(st)
  PROVE  Good(q, left)
<1> DEFINE p == Clear(st, {"DATA"})
<1>1. st \in ClientType /\ st.freed = 0 /\ st.closes \in Nat
      /\ st.cur \in Nat /\ st.buffered \in Nat /\ MaxReq \in Nat
  BY Fields, HttpdAssumption DEF Finishing
<1>2. /\ p \in ClientType /\ Same(p, st) /\ p.flags = st.flags \ {"DATA"}
      /\ p.keep = st.keep /\ p.ops = st.ops /\ p.begun = st.begun
  BY <1>1, ClearFields DEF Flag
<1>3. httpd_client_finish_request(st) =
        IF "POST" \in p.flags THEN {p}
        ELSE IF p.keep /\ "STOPPING" \notin p.flags
        THEN hin_lines_reread(httpd_client_start_request(p))
        ELSE {httpd_client_shutdown(Set(p, {"END"}))}
  BY Zenon DEF httpd_client_finish_request
<1> HIDE DEF p
<1>4. \A f \in {"POST", "STOPPING", "ERROR"} : f \in p.flags <=> f \in st.flags
  BY <1>2
<1>5. Finishing(p, left) /\ "DATA" \notin p.flags
  <2>1. InOrder(p) /\ Stops(p)
    BY <1>2, <1>4 DEF Finishing, InOrder, Same, Stops
  <2> QED BY <1>2, <1>4, <2>1 DEF Finishing, Same
<1>6. CASE "POST" \in p.flags
  <2>1. q = p
    BY <1>3, <1>6
  <2>2. p.ops # {} => Busy(p, left)
    <3> SUFFICES ASSUME p.ops = {"upload"} PROVE Busy(p, left)
      BY <1>5 DEF Finishing
    <3>1. p.ops \in Together /\ ~ Unbegun(p) /\ ~ Answering(p)
      BY DEF Together, Unbegun, Answering
    <3>2. "STOPPING" \in p.flags => ~ p.counted
      BY <1>5 DEF Finishing
    <3> QED BY <1>5, <1>6, <3>1, <3>2 DEF Busy, Finishing
  <2> QED BY <1>5, <2>1, <2>2 DEF Good, Finishing
<1>7. CASE "POST" \notin p.flags /\ p.keep /\ "STOPPING" \notin p.flags
  <2> DEFINE F == {"HEADERS"} \cup (p.flags \cap {"STOPPING"})
             b == p.buffered - 1
             s == [p EXCEPT !.flags = F, !.buffered = b]
  <2>1. q \in hin_lines_reread(s)
    BY <1>3, <1>7 DEF httpd_client_start_request
  <2>2. F = {"HEADERS"} /\ F \in SUBSET Flag
    BY <1>7 DEF Flag
  <2>3. p.buffered \in Nat /\ p.buffered <= MaxReq /\ p.buffered >= 1 /\ p.cur \in Nat
        /\ p.cur + p.buffered + left <= MaxReq + 1 /\ p.closes \in Nat
    BY <1>5, Fields DEF Finishing
  <2>4. b \in 0 .. MaxReq /\ p.cur + b + left <= MaxReq
    BY <1>1, <2>3
  <2> HIDE DEF F, b
  <2>5. /\ s \in ClientType /\ s.flags = F /\ s.buffered = b /\ s.framed = p.framed
        /\ s.reading = p.reading /\ s.bodyLeft = p.bodyLeft /\ s.closes = p.closes
        /\ s.freed = p.freed /\ s.ops = p.ops /\ s.begun = p.begun /\ s.cur = p.cur
    BY <1>2, <2>2, <2>4 DEF ClientType
  <2> HIDE DEF s
  <2>6. p.closes = 0 /\ p.ops = {} /\ ~ p.bodyLeft
    BY <1>5, <1>7, <2>3 DEF Finishing, Stops
  <2>7. InOrder(s)
    BY <1>5, <2>5 DEF InOrder, Finishing
  <2>8. Ready(s, left)
    BY <1>5, <2>2, <2>4, <2>5, <2>6, <2>7 DEF Ready, Finishing
  <2> QED BY <2>1, <2>8, RereadGood
<1>8. CASE "POST" \notin p.flags /\ ~ (p.keep /\ "STOPPING" \notin p.flags)
  <2> DEFINE e == Set(p, {"END"})
  <2>1. q = httpd_client_shutdown(e)
    BY <1>3, <1>8
  <2>2. /\ e \in ClientType /\ Same(e, p) /\ e.flags = p.flags \cup {"END"}
        /\ e.ops = p.ops /\ e.begun = p.begun
    BY <1>2, SetFields DEF Flag
  <2> HIDE DEF e
  <2>3. /\ e.ops = {} /\ "ERROR" \notin e.flags /\ e.framed /\ ~ e.reading /\ e.freed = 0
        /\ InOrder(e) /\ Len(e.begun) = e.cur /\ Stops(e)
    BY <1>5, <1>8, <2>2 DEF Finishing, Same, InOrder, Stops
  <2> QED BY <2>1, <2>2, <2>3, ShutdownGood
<1> QED BY <1>6, <1>7, <1>8

----------------------------------------------------------------------------
(* The actions. *)

(* Which operations can be in flight beside each one. *)
LEMMA OpsCases ==
  ASSUME NEW ops \in Together
  PROVE  /\ "raw" \in ops => ops = {"raw"}
         /\ "pipe" \in ops => ops = {"pipe"} \/ ops = {"pipe", "upload"}
         /\ "worker" \in ops => ops = {"worker"} \/ ops = {"worker", "upload"}
         /\ "proxy" \in ops => ops = {"proxy"} \/ ops = {"proxy", "relay"}
         /\ "upload" \in ops => \/ ops = {"upload"} \/ ops = {"pipe", "upload"}
                               \/ ops = {"worker", "upload"}
         /\ "relay" \in ops => ops = {"relay"} \/ ops = {"proxy", "relay"}
<1>1. \/ ops = {"raw"} \/ ops = {"pipe"} \/ ops = {"worker"} \/ ops = {"proxy"}
      \/ ops = {"upload"} \/ ops = {"relay"} \/ ops = {"pipe", "upload"}
      \/ ops = {"worker", "upload"} \/ ops = {"proxy", "relay"}
  BY Zenon DEF Together
<1> QED BY <1>1

(* While an operation is in flight the request is in progress and the      *)
(* client is not freed. *)
LEMMA InFlight ==
  ASSUME IInv, NEW o, o \in h.ops
  PROVE  /\ Good(h, peer.left) /\ Busy(h, peer.left) /\ h \in ClientType
         /\ peer.left \in Nat /\ h.ops \in Together /\ h.freed = 0
         /\ ("ERROR" \in h.flags => h.ops = {"raw"})
         /\ h.cur \in Nat /\ h.cur >= 1 /\ Len(h.begun) \in Nat
<1>1. h \in ClientType /\ h.ops # {} /\ peer.left \in Nat
  BY DEF IInv, Good
<1>2. Busy(h, peer.left) /\ h.ops \in Together
  BY <1>1 DEF IInv, Good, Busy
<1>3. h.freed = 0
  BY <1>1, Fields DEF IInv, Good
<1>4. "ERROR" \in h.flags => h.ops = {"raw"}
  BY <1>2, OpsCases DEF IInv, Good
<1> QED BY <1>1, <1>2, <1>3, <1>4, Fields DEF IInv, Busy

(* An operation that ends leaves everything else alone. *)
LEMMA WithoutFields ==
  ASSUME h \in ClientType, NEW o
  PROVE  LET q == Without(o)
         IN  /\ q \in ClientType /\ Same(q, h) /\ q.flags = h.flags /\ q.keep = h.keep
             /\ q.method = h.method /\ q.ops = h.ops \ {o} /\ q.begun = h.begun
             /\ (InOrder(h) => InOrder(q)) /\ (Stops(h) => Stops(q))
<1> DEFINE O == h.ops \ {o}
           q == [h EXCEPT !.ops = O]
<1>1. O \in SUBSET Operation
  BY DEF ClientType
<1>2. q = Without(o) /\ O = h.ops \ {o}
  BY DEF Without
<1> HIDE DEF O
<1>3. /\ q \in ClientType /\ Same(q, h) /\ q.flags = h.flags /\ q.keep = h.keep
      /\ q.method = h.method /\ q.ops = O /\ q.begun = h.begun
  BY <1>1 DEF ClientType, Same
<1> HIDE DEF q
<1>4. (InOrder(h) => InOrder(q)) /\ (Stops(h) => Stops(q))
  BY <1>3 DEF InOrder, Stops, Same
<1> QED BY <1>2, <1>3, <1>4

(* The answer of an answering operation is complete: what is left of the   *)
(* request may be finished. *)
LEMMA RawDoneGood ==
  ASSUME IInv, RawDone
  PROVE  Good(h', peer.left)
<1> DEFINE q == Without("raw")
           p == Clear(q, {"ERROR"})
<1>1. "raw" \in h.ops /\ h' \in httpd_client_finish_request(p)
  BY DEF RawDone, Ends
<1>2. /\ Good(h, peer.left) /\ Busy(h, peer.left) /\ h \in ClientType
      /\ peer.left \in Nat /\ h.ops = {"raw"} /\ h.freed = 0
  BY <1>1, InFlight, OpsCases
<1>3. Stops(h) /\ InOrder(h)
  BY <1>2 DEF Good
<1>4. /\ q \in ClientType /\ Same(q, h) /\ q.flags = h.flags /\ q.keep = h.keep
      /\ q.ops = h.ops \ {"raw"} /\ q.begun = h.begun /\ InOrder(q) /\ Stops(q)
  BY <1>2, <1>3, WithoutFields
<1> HIDE DEF q
<1>5. /\ p \in ClientType /\ Same(p, q) /\ p.flags = q.flags \ {"ERROR"} /\ p.keep = q.keep
      /\ p.ops = q.ops /\ p.begun = q.begun
  BY <1>4, ClearFields DEF Flag
<1> HIDE DEF p
<1>6. /\ Same(p, h) /\ p.ops = {} /\ InOrder(p) /\ Stops(p) /\ "ERROR" \notin p.flags
      /\ "POST" \in p.flags <=> "POST" \in h.flags
  BY <1>2, <1>4, <1>5 DEF Same, InOrder, Stops
<1>7. Len(h.begun) = h.cur /\ (h.bodyLeft /\ h.keep => "POST" \in h.flags)
      /\ h.buffered >= 1 /\ h.cur >= 1 /\ h.cur + h.buffered + peer.left <= MaxReq + 1
      /\ h.framed /\ ~ h.reading
  BY <1>2 DEF Busy, Unbegun, Good
<1>8. Finishing(p, peer.left)
  BY <1>2, <1>4, <1>5, <1>6, <1>7 DEF Finishing, Same
<1> QED BY <1>1, <1>2, <1>8, FinishGood

(* The pipe of an answer ends; an upload may go on. *)
LEMMA PipeDoneGood ==
  ASSUME IInv, PipeDone
  PROVE  Good(h', peer.left)
<1> DEFINE p == Without("pipe")
<1>1. "pipe" \in h.ops /\ h' \in httpd_client_finish_request(p)
  BY DEF PipeDone, Ends
<1>2. /\ Good(h, peer.left) /\ Busy(h, peer.left) /\ h \in ClientType
      /\ peer.left \in Nat /\ h.ops \in {{"pipe"}, {"pipe", "upload"}} /\ h.freed = 0
      /\ "ERROR" \notin h.flags
  BY <1>1, InFlight, OpsCases
<1>3. Stops(h) /\ InOrder(h)
  BY <1>2 DEF Good
<1>4. /\ p \in ClientType /\ Same(p, h) /\ p.flags = h.flags /\ p.keep = h.keep
      /\ p.ops = h.ops \ {"pipe"} /\ p.begun = h.begun /\ InOrder(p) /\ Stops(p)
  BY <1>2, <1>3, WithoutFields
<1> HIDE DEF p
<1>5. p.ops \in {{}, {"upload"}} /\ ("upload" \in p.ops => "upload" \in h.ops)
  BY <1>2, <1>4
<1>6. /\ Len(h.begun) = h.cur /\ (h.bodyLeft /\ h.keep => "POST" \in h.flags)
      /\ h.buffered >= 1 /\ h.cur >= 1 /\ h.cur + h.buffered + peer.left <= MaxReq + 1
      /\ h.framed /\ ~ h.reading /\ ("upload" \in h.ops => "POST" \in h.flags)
      /\ "STOPPING" \notin h.flags
  <2>1. ~ Unbegun(h) /\ h.ops # {"upload"}
    BY <1>1, <1>2 DEF Unbegun
  <2> QED BY <1>2, <2>1 DEF Busy, Good
<1>7. Finishing(p, peer.left)
  BY <1>2, <1>4, <1>5, <1>6 DEF Finishing, Same
<1> QED BY <1>1, <1>2, <1>7, FinishGood

(* The pipe of an answer fails while nothing else runs: the connection is  *)
(* closed. *)
LEMMA PipeErrorGood ==
  ASSUME Cut = FALSE, IInv, PipeError
  PROVE  Good(h', peer.left)
<1> DEFINE q == Without("pipe")
           p == httpd_client_shutdown(q)
<1>1. "pipe" \in h.ops /\ h' \in httpd_client_finish_request(p)
      /\ "upload" \notin h.ops
  BY DEF PipeError, Ends, MayFail
<1>2. /\ Good(h, peer.left) /\ Busy(h, peer.left) /\ h \in ClientType
      /\ peer.left \in Nat /\ h.ops = {"pipe"} /\ h.freed = 0
      /\ "ERROR" \notin h.flags
  BY <1>1, InFlight, OpsCases
<1>3. Stops(h) /\ InOrder(h)
  BY <1>2 DEF Good
<1>4. /\ q \in ClientType /\ Same(q, h) /\ q.flags = h.flags /\ q.keep = h.keep
      /\ q.ops = h.ops \ {"pipe"} /\ q.begun = h.begun /\ InOrder(q) /\ Stops(q)
  BY <1>2, <1>3, WithoutFields
<1> HIDE DEF q
<1>5. q.freed = 0
  BY <1>2, <1>4 DEF Same
<1>6. /\ p \in ClientType /\ p.flags = q.flags \cup {"STOPPING"}
      /\ Stops(p) /\ p.freed = 0 /\ p.keep = q.keep /\ p.cur = q.cur
      /\ p.buffered = q.buffered /\ p.reading = q.reading
      /\ p.bodyLeft = q.bodyLeft /\ p.counted = q.counted
      /\ p.framed = q.framed /\ p.ops = q.ops /\ p.begun = q.begun
  BY <1>4, <1>5, ShutdownFields
<1> HIDE DEF p
<1>7. p.ops = {} /\ InOrder(p) /\ "ERROR" \notin p.flags /\ ("POST" \in h.flags => "POST" \in p.flags)
  BY <1>2, <1>4, <1>6 DEF InOrder
<1>8. /\ Len(h.begun) = h.cur /\ (h.bodyLeft /\ h.keep => "POST" \in h.flags)
      /\ h.buffered >= 1 /\ h.cur >= 1 /\ h.cur + h.buffered + peer.left <= MaxReq + 1
      /\ h.framed /\ ~ h.reading
  BY <1>2 DEF Busy, Unbegun, Good
<1>9. Finishing(p, peer.left)
  BY <1>2, <1>4, <1>6, <1>7, <1>8 DEF Finishing, Same
<1> QED BY <1>1, <1>2, <1>9, FinishGood

(* A program's head starts the pipe of its answer; the upload it may read  *)
(* goes on. *)
LEMMA WorkerHeadersGood ==
  ASSUME IInv, WorkerHeaders
  PROVE  Good(h', peer.left)
<1> DEFINE q == Without("worker")
           p == Submit(q, "pipe")
<1>1. "worker" \in h.ops /\ h' = p
  BY DEF WorkerHeaders, Ends
<1>2. /\ Good(h, peer.left) /\ Busy(h, peer.left) /\ h \in ClientType
      /\ peer.left \in Nat /\ h.ops \in {{"worker"}, {"worker", "upload"}} /\ h.freed = 0
      /\ "ERROR" \notin h.flags /\ h.cur \in Nat /\ h.cur >= 1
  BY <1>1, InFlight, OpsCases
<1>3. Stops(h) /\ InOrder(h)
  BY <1>2 DEF Good
<1>4. /\ q \in ClientType /\ Same(q, h) /\ q.flags = h.flags /\ q.keep = h.keep
      /\ q.ops = h.ops \ {"worker"} /\ q.begun = h.begun /\ InOrder(q) /\ Stops(q)
  BY <1>2, <1>3, WithoutFields
<1> HIDE DEF q
<1>5. q.cur = h.cur
  BY <1>4 DEF Same
<1>6. /\ Len(h.begun) = h.cur - 1 /\ (h.bodyLeft /\ h.keep => "POST" \in h.flags)
      /\ h.buffered >= 1 /\ h.cur + h.buffered + peer.left <= MaxReq + 1
      /\ h.framed /\ ~ h.reading /\ ("upload" \in h.ops => "POST" \in h.flags)
      /\ "STOPPING" \notin h.flags /\ "DATA" \in h.flags
  <2>1. Unbegun(h) /\ Answering(h) /\ h.ops # {"upload"}
    BY <1>1, <1>2 DEF Unbegun, Answering
  <2> QED BY <1>2, <2>1 DEF Busy, Good
<1>7. /\ p \in ClientType /\ Same(p, q) /\ p.flags = q.flags /\ p.keep = q.keep
      /\ p.ops = q.ops \cup {"pipe"} /\ Len(p.begun) = Len(q.begun) + 1
      /\ InOrder(p)
  BY <1>2, <1>4, <1>5, <1>6, SubmitFields DEF Operation
<1> HIDE DEF p
<1>8. Same(p, h) /\ p.flags = h.flags /\ p.keep = h.keep /\ Stops(p)
  BY <1>3, <1>4, <1>7 DEF Same, Stops
<1>9. Len(p.begun) = p.cur
  <2>1. p.cur = h.cur /\ Len(p.begun) = Len(h.begun) + 1
    BY <1>4, <1>7, <1>8 DEF Same
  <2> QED BY <1>2, <1>6, <2>1
<1>10. /\ p.ops \in {{"pipe"}, {"pipe", "upload"}}
       /\ "upload" \in p.ops => "upload" \in h.ops
  BY <1>2, <1>4, <1>7
<1>11. p.ops \in Together /\ ~ Unbegun(p)
  BY <1>10 DEF Together, Unbegun
<1>12. Busy(p, peer.left)
  BY <1>2, <1>6, <1>8, <1>9, <1>10, <1>11 DEF Busy, Same
<1>13. Good(p, peer.left)
  BY <1>2, <1>6, <1>7, <1>8, <1>9, <1>12 DEF Good, Same
<1> QED BY <1>1, <1>13

(* A program that ends before its head is answered with an error, while    *)
(* nothing else runs. *)
LEMMA WorkerFailsGood ==
  ASSUME Cut = FALSE, IInv, WorkerFails
  PROVE  Good(h', peer.left)
<1> DEFINE q == Without("worker")
<1>1. "worker" \in h.ops /\ h' = httpd_respond_fatal(q) /\ "upload" \notin h.ops
  BY DEF WorkerFails, Ends, MayFail
<1>2. /\ Good(h, peer.left) /\ Busy(h, peer.left) /\ h \in ClientType
      /\ peer.left \in Nat /\ h.ops = {"worker"} /\ h.freed = 0
      /\ "ERROR" \notin h.flags /\ h.cur \in Nat /\ h.cur >= 1
  BY <1>1, InFlight, OpsCases
<1>3. Stops(h) /\ InOrder(h)
  BY <1>2 DEF Good
<1>4. /\ q \in ClientType /\ Same(q, h) /\ q.flags = h.flags /\ q.keep = h.keep
      /\ q.ops = h.ops \ {"worker"} /\ q.begun = h.begun /\ InOrder(q) /\ Stops(q)
  BY <1>2, <1>3, WithoutFields
<1> HIDE DEF q
<1>5. /\ Len(h.begun) = h.cur - 1
      /\ h.buffered >= 1 /\ h.cur + h.buffered + peer.left <= MaxReq + 1
      /\ h.framed /\ ~ h.reading /\ "STOPPING" \notin h.flags
  <2>1. Unbegun(h) /\ h.ops # {"upload"}
    BY <1>1, <1>2 DEF Unbegun
  <2> QED BY <1>2, <2>1 DEF Busy, Good
<1>6. h.closes = 0
  BY <1>2, <1>3, <1>5, Fields DEF Stops
<1>7. Core(q, peer.left)
  BY <1>2, <1>4, <1>5, <1>6 DEF Core, Same
<1>8. q.ops = {} /\ Len(q.begun) = q.cur - 1 /\ "ERROR" \notin q.flags
  BY <1>2, <1>4, <1>5 DEF Same
<1> QED BY <1>1, <1>2, <1>7, <1>8, FatalGood

(* An upload ends: the request is finished if its answer was, and waits    *)
(* for it otherwise. *)
LEMMA UploadDoneGood ==
  ASSUME IInv, UploadDone
  PROVE  Good(h', peer.left)
<1> DEFINE w == Without("upload")
           q == [w EXCEPT !.bodyLeft = FALSE]
           p == Clear(q, {"POST"})
<1>1. "upload" \in h.ops /\ h' \in post_done(q)
  BY DEF UploadDone, Ends
<1>2. post_done(q) = IF "DATA" \in p.flags THEN {p} ELSE httpd_client_finish_request(p)
  BY Zenon DEF post_done
<1>3. /\ Good(h, peer.left) /\ Busy(h, peer.left) /\ h \in ClientType
      /\ peer.left \in Nat /\ h.freed = 0
      /\ h.ops \in {{"upload"}, {"pipe", "upload"}, {"worker", "upload"}}
      /\ "ERROR" \notin h.flags /\ h.cur \in Nat /\ h.cur >= 1
  BY <1>1, InFlight, OpsCases
<1>4. Stops(h) /\ InOrder(h)
  BY <1>3 DEF Good
<1>5. /\ w \in ClientType /\ Same(w, h) /\ w.flags = h.flags /\ w.keep = h.keep
      /\ w.ops = h.ops \ {"upload"} /\ w.begun = h.begun /\ InOrder(w) /\ Stops(w)
  BY <1>3, <1>4, WithoutFields
<1> HIDE DEF w
<1>6. /\ q \in ClientType /\ q.flags = w.flags /\ ~ q.bodyLeft /\ q.ops = w.ops
      /\ q.begun = w.begun /\ q.cur = w.cur /\ q.buffered = w.buffered
      /\ q.reading = w.reading /\ q.framed = w.framed
      /\ q.closes = w.closes /\ q.freed = w.freed
  BY <1>5 DEF ClientType
<1> HIDE DEF q
<1>7. /\ p \in ClientType /\ Same(p, q) /\ p.flags = q.flags \ {"POST"}
      /\ p.ops = q.ops /\ p.begun = q.begun
  BY <1>6, ClearFields DEF Flag
<1> HIDE DEF p
<1>8. /\ p.flags = h.flags \ {"POST"} /\ ~ p.bodyLeft /\ p.ops = h.ops \ {"upload"}
      /\ p.begun = h.begun /\ p.cur = h.cur /\ p.buffered = h.buffered
      /\ p.reading = h.reading /\ p.framed = h.framed
      /\ p.closes = h.closes /\ p.freed = h.freed
  BY <1>5, <1>6, <1>7 DEF Same
<1>9. InOrder(p) /\ Stops(p) /\ "ERROR" \notin p.flags
  BY <1>3, <1>4, <1>8 DEF InOrder, Stops
<1>10. /\ h.buffered >= 1 /\ h.cur + h.buffered + peer.left <= MaxReq + 1
       /\ h.framed /\ ~ h.reading /\ ("STOPPING" \in h.flags => h.ops = {"upload"})
       /\ Len(h.begun) = IF Unbegun(h) THEN h.cur - 1 ELSE h.cur
       /\ (Answering(h) => "DATA" \in h.flags)
  BY <1>3 DEF Busy, Good
<1>11. CASE h.ops = {"upload"}
  <2>1. p.ops = {} /\ Len(p.begun) = p.cur
    BY <1>8, <1>10, <1>11 DEF Unbegun
  <2>2. Finishing(p, peer.left)
    BY <1>3, <1>7, <1>8, <1>9, <1>10, <2>1 DEF Finishing
  <2>3. Good(p, peer.left)
    BY <1>3, <1>7, <1>8, <1>9, <1>10, <2>1 DEF Good
  <2>4. h' = p \/ h' \in httpd_client_finish_request(p)
    BY <1>1, <1>2
  <2> QED BY <1>3, <2>2, <2>3, <2>4, FinishGood
<1>12. CASE h.ops # {"upload"}
  <2>1. /\ p.ops \in {{"pipe"}, {"worker"}}
        /\ "worker" \in p.ops <=> "worker" \in h.ops
        /\ "proxy" \in p.ops <=> "proxy" \in h.ops
        /\ Answering(h)
    BY <1>3, <1>8, <1>12 DEF Answering, Unbegun
  <2>2. p.ops \in Together /\ "upload" \notin p.ops
    BY <2>1 DEF Together
  <2>3. "DATA" \in p.flags /\ "STOPPING" \notin p.flags
    BY <1>8, <1>10, <1>12, <2>1
  <2>4. Len(p.begun) = IF Unbegun(p) THEN p.cur - 1 ELSE p.cur
    BY <1>8, <1>10, <2>1 DEF Unbegun
  <2>5. Busy(p, peer.left)
    BY <1>3, <1>8, <1>10, <2>2, <2>3, <2>4 DEF Busy
  <2>6. Good(p, peer.left)
    BY <1>3, <1>7, <1>8, <1>9, <1>10, <2>4, <2>5 DEF Good
  <2> QED BY <1>1, <1>2, <2>3, <2>6
<1> QED BY <1>11, <1>12

(* hin_rproxy_finish waits for the answer and the relay, then finishes the *)
(* request. *)
LEMMA RproxyFinishGood ==
  ASSUME NEW st, NEW left \in Nat, NEW q \in hin_rproxy_finish(st),
         st.ops \cap {"proxy", "relay"} # {} => Good(st, left),
         st.ops \cap {"proxy", "relay"} = {} => Finishing(st, left)
  PROVE  Good(q, left)
<1>1. CASE st.ops \cap {"proxy", "relay"} # {}
  BY <1>1 DEF hin_rproxy_finish
<1>2. CASE st.ops \cap {"proxy", "relay"} = {}
  <2> DEFINE p == Clear(st, {"PROXY", "DATA"})
  <2>1. q \in httpd_client_finish_request(p)
    BY <1>2 DEF hin_rproxy_finish
  <2>2. Finishing(st, left) /\ st \in ClientType
    BY <1>2 DEF Finishing
  <2>3. /\ p \in ClientType /\ Same(p, st) /\ p.flags = st.flags \ {"PROXY", "DATA"}
        /\ p.keep = st.keep /\ p.ops = st.ops /\ p.begun = st.begun
    BY <2>2, ClearFields DEF Flag
  <2> HIDE DEF p
  <2>4. \A f \in {"POST", "STOPPING", "ERROR"} : f \in p.flags <=> f \in st.flags
    BY <2>3
  <2>5. InOrder(p) /\ Stops(p)
    BY <2>2, <2>3, <2>4 DEF Finishing, InOrder, Same, Stops
  <2>6. Finishing(p, left)
    BY <2>2, <2>3, <2>4, <2>5 DEF Finishing, Same
  <2> QED BY <2>1, <2>6, FinishGood
<1> QED BY <1>1, <1>2

(* What a proxied request leaves when its answer was sent. *)
LEMMA ProxyAnswered ==
  ASSUME IInv, "proxy" \in h.ops
  PROVE  LET p == [Without("proxy") EXCEPT !.begun = Append(h.begun, h.cur)]
         IN  /\ p \in ClientType /\ Same(p, h) /\ p.flags = h.flags /\ p.keep = h.keep
             /\ p.ops = h.ops \ {"proxy"} /\ InOrder(p) /\ Stops(p)
             /\ Len(p.begun) = p.cur
<1> DEFINE w == Without("proxy")
           b == Append(h.begun, h.cur)
           p == [w EXCEPT !.begun = b]
<1>1. /\ Good(h, peer.left) /\ Busy(h, peer.left) /\ h \in ClientType
      /\ h.cur \in Nat /\ h.cur >= 1 /\ Len(h.begun) \in Nat
  BY InFlight
<1>2. Stops(h) /\ InOrder(h) /\ Len(h.begun) = h.cur - 1
  BY <1>1 DEF Good, Busy, Unbegun
<1>3. /\ b \in Seq(1 .. MaxReq) /\ Len(b) = Len(h.begun) + 1
      /\ \A i \in 1 .. Len(b) : b[i] = i
  BY <1>1, <1>2, BeginNext
<1>4. Len(b) = h.cur
  BY <1>1, <1>2, <1>3
<1>5. /\ w \in ClientType /\ Same(w, h) /\ w.flags = h.flags /\ w.keep = h.keep
      /\ w.ops = h.ops \ {"proxy"} /\ Stops(w)
  BY <1>1, <1>2, WithoutFields
<1> HIDE DEF w, b
<1>6. /\ p \in ClientType /\ Same(p, w) /\ p.flags = w.flags /\ p.keep = w.keep
      /\ p.ops = w.ops /\ p.begun = b
  BY <1>3, <1>5 DEF ClientType, Same
<1> HIDE DEF p
<1>7. Same(p, h) /\ InOrder(p) /\ Stops(p) /\ p.cur = h.cur
  BY <1>2, <1>3, <1>5, <1>6 DEF Same, InOrder, Stops
<1>8. /\ p \in ClientType /\ Same(p, h) /\ p.flags = h.flags /\ p.keep = h.keep
      /\ p.ops = h.ops \ {"proxy"} /\ InOrder(p) /\ Stops(p)
      /\ Len(p.begun) = p.cur
  BY <1>4, <1>5, <1>6, <1>7
<1> QED BY <1>8 DEF p, b, w

(* A proxied answer was sent; the relay of the body may go on. *)
LEMMA ProxyDoneGood ==
  ASSUME IInv, ProxyDone
  PROVE  Good(h', peer.left)
<1> DEFINE p == [Without("proxy") EXCEPT !.begun = Append(h.begun, h.cur)]
<1>1. "proxy" \in h.ops
  BY DEF ProxyDone, Ends
<1>2. h' \in hin_rproxy_finish(p)
  <2>1. Without("proxy").begun = h.begun
    BY <1>1, InFlight, WithoutFields
  <2> QED BY <2>1 DEF ProxyDone
<1>3. /\ p \in ClientType /\ Same(p, h) /\ p.flags = h.flags /\ p.keep = h.keep
      /\ p.ops = h.ops \ {"proxy"} /\ InOrder(p) /\ Stops(p)
      /\ Len(p.begun) = p.cur
  BY <1>1, ProxyAnswered
<1> HIDE DEF p
<1>4. /\ Good(h, peer.left) /\ Busy(h, peer.left) /\ h \in ClientType
      /\ peer.left \in Nat /\ h.freed = 0 /\ h.ops \in {{"proxy"}, {"proxy", "relay"}}
      /\ "ERROR" \notin h.flags
  BY <1>1, InFlight, OpsCases
<1>5. /\ (h.bodyLeft /\ h.keep => "POST" \in h.flags) /\ "STOPPING" \notin h.flags
      /\ h.buffered >= 1 /\ h.cur >= 1 /\ h.cur + h.buffered + peer.left <= MaxReq + 1
      /\ h.framed /\ ~ h.reading
  <2>1. h.ops # {"upload"}
    BY <1>1
  <2> QED BY <1>4, <2>1 DEF Busy, Good
<1>6. CASE h.ops = {"proxy"}
  <2>1. p.ops = {} /\ p.ops \cap {"proxy", "relay"} = {}
    BY <1>3, <1>6
  <2>2. Finishing(p, peer.left)
    BY <1>3, <1>4, <1>5, <2>1 DEF Finishing, Same
  <2> QED BY <1>2, <1>4, <2>1, <2>2, RproxyFinishGood
<1>7. CASE h.ops = {"proxy", "relay"}
  <2>1. p.ops = {"relay"} /\ p.ops \cap {"proxy", "relay"} # {}
    BY <1>3, <1>7
  <2>2. p.ops \in Together /\ ~ Unbegun(p) /\ ~ Answering(p) /\ "upload" \notin p.ops
    BY <2>1 DEF Together, Unbegun, Answering
  <2>3. Busy(p, peer.left)
    BY <1>3, <1>5, <2>2 DEF Busy, Same
  <2>4. Good(p, peer.left)
    BY <1>3, <1>4, <1>5, <2>3 DEF Good, Same
  <2> QED BY <1>2, <1>4, <2>1, <2>4, RproxyFinishGood
<1> QED BY <1>4, <1>6, <1>7

(* A proxied answer cannot be sent, while nothing else runs: the           *)
(* connection is closed. *)
LEMMA ProxyErrorGood ==
  ASSUME Cut = FALSE, IInv, ProxyError
  PROVE  Good(h', peer.left)
<1> DEFINE q == [Without("proxy") EXCEPT !.begun = Append(h.begun, h.cur)]
           p == httpd_client_shutdown(q)
<1>1. "proxy" \in h.ops /\ "relay" \notin h.ops
  BY DEF ProxyError, Ends, MayFail
<1>2. h' \in hin_rproxy_finish(p)
  <2>1. Without("proxy").begun = h.begun
    BY <1>1, InFlight, WithoutFields
  <2> QED BY <2>1 DEF ProxyError
<1>3. /\ q \in ClientType /\ Same(q, h) /\ q.flags = h.flags /\ q.keep = h.keep
      /\ q.ops = h.ops \ {"proxy"} /\ InOrder(q) /\ Stops(q)
      /\ Len(q.begun) = q.cur
  BY <1>1, ProxyAnswered
<1> HIDE DEF q
<1>4. /\ Good(h, peer.left) /\ Busy(h, peer.left) /\ h \in ClientType
      /\ peer.left \in Nat /\ h.freed = 0 /\ h.ops = {"proxy"}
      /\ "ERROR" \notin h.flags
  BY <1>1, InFlight, OpsCases
<1>5. q.freed = 0
  BY <1>3, <1>4 DEF Same
<1>6. /\ p \in ClientType /\ p.flags = q.flags \cup {"STOPPING"}
      /\ Stops(p) /\ p.freed = 0 /\ p.keep = q.keep /\ p.cur = q.cur
      /\ p.buffered = q.buffered /\ p.reading = q.reading
      /\ p.bodyLeft = q.bodyLeft /\ p.counted = q.counted
      /\ p.framed = q.framed /\ p.ops = q.ops /\ p.begun = q.begun
  BY <1>3, <1>5, ShutdownFields
<1> HIDE DEF p
<1>7. /\ p.ops = {} /\ p.ops \cap {"proxy", "relay"} = {} /\ InOrder(p)
      /\ "ERROR" \notin p.flags /\ ("POST" \in h.flags => "POST" \in p.flags)
  BY <1>3, <1>4, <1>6 DEF InOrder
<1>8. /\ (h.bodyLeft /\ h.keep => "POST" \in h.flags)
      /\ h.buffered >= 1 /\ h.cur >= 1 /\ h.cur + h.buffered + peer.left <= MaxReq + 1
      /\ h.framed /\ ~ h.reading
  BY <1>4 DEF Busy, Good
<1>9. Finishing(p, peer.left)
  BY <1>3, <1>4, <1>6, <1>7, <1>8 DEF Finishing, Same
<1> QED BY <1>2, <1>4, <1>7, <1>9, RproxyFinishGood

(* The relay of a body ends; the proxied answer may still be on its way. *)
LEMMA RelayDoneGood ==
  ASSUME IInv, RelayDone
  PROVE  Good(h', peer.left)
<1> DEFINE w == Without("relay")
           p == [w EXCEPT !.bodyLeft = FALSE]
<1>1. "relay" \in h.ops /\ h' \in hin_rproxy_finish(p)
  BY DEF RelayDone, Ends
<1>2. /\ Good(h, peer.left) /\ Busy(h, peer.left) /\ h \in ClientType
      /\ peer.left \in Nat /\ h.freed = 0 /\ h.ops \in {{"relay"}, {"proxy", "relay"}}
      /\ "ERROR" \notin h.flags
  BY <1>1, InFlight, OpsCases
<1>3. Stops(h) /\ InOrder(h)
  BY <1>2 DEF Good
<1>4. /\ w \in ClientType /\ Same(w, h) /\ w.flags = h.flags /\ w.keep = h.keep
      /\ w.ops = h.ops \ {"relay"} /\ w.begun = h.begun /\ InOrder(w) /\ Stops(w)
  BY <1>2, <1>3, WithoutFields
<1> HIDE DEF w
<1>5. /\ p \in ClientType /\ p.flags = w.flags /\ ~ p.bodyLeft /\ p.ops = w.ops
      /\ p.begun = w.begun /\ p.cur = w.cur /\ p.buffered = w.buffered
      /\ p.reading = w.reading /\ p.framed = w.framed
      /\ p.closes = w.closes /\ p.freed = w.freed
  BY <1>4 DEF ClientType
<1> HIDE DEF p
<1>6. /\ p.flags = h.flags /\ p.ops = h.ops \ {"relay"}
      /\ p.begun = h.begun /\ p.cur = h.cur /\ p.buffered = h.buffered
      /\ p.reading = h.reading /\ p.framed = h.framed
      /\ p.closes = h.closes /\ p.freed = h.freed
  BY <1>4, <1>5 DEF Same
<1>7. InOrder(p) /\ Stops(p)
  BY <1>3, <1>6 DEF InOrder, Stops
<1>8. /\ "STOPPING" \notin h.flags /\ h.framed /\ ~ h.reading
      /\ h.buffered >= 1 /\ h.cur >= 1 /\ h.cur + h.buffered + peer.left <= MaxReq + 1
      /\ Len(h.begun) = (IF Unbegun(h) THEN h.cur - 1 ELSE h.cur)
      /\ (Answering(h) => "DATA" \in h.flags)
  <2>1. h.ops # {"upload"}
    BY <1>1
  <2> QED BY <1>2, <2>1 DEF Busy, Good
<1>9. CASE h.ops = {"relay"}
  <2>1. p.ops = {} /\ p.ops \cap {"proxy", "relay"} = {} /\ ~ Unbegun(h)
    BY <1>6, <1>9 DEF Unbegun
  <2>2. Finishing(p, peer.left)
    BY <1>2, <1>5, <1>6, <1>7, <1>8, <2>1 DEF Finishing
  <2> QED BY <1>1, <1>2, <2>1, <2>2, RproxyFinishGood
<1>10. CASE h.ops = {"proxy", "relay"}
  <2>1. p.ops = {"proxy"} /\ p.ops \cap {"proxy", "relay"} # {} /\ "upload" \notin p.ops
    BY <1>6, <1>10
  <2>2. p.ops \in Together /\ Unbegun(p) /\ Unbegun(h) /\ Answering(h)
    BY <1>10, <2>1 DEF Together, Unbegun, Answering
  <2>3. Busy(p, peer.left)
    BY <1>5, <1>6, <1>8, <2>1, <2>2 DEF Busy
  <2>4. Good(p, peer.left)
    BY <1>2, <1>5, <1>6, <1>7, <1>8, <2>2, <2>3 DEF Good
  <2> QED BY <1>1, <1>2, <2>1, <2>4, RproxyFinishGood
<1> QED BY <1>2, <1>9, <1>10

(* The close of a connection that is requested while at most an upload     *)
(* without a count runs. *)
LEMMA StopGood ==
  ASSUME NEW st, NEW left \in Nat, Good(st, left), "STOPPING" \notin st.flags,
         st.ops = {} \/ (st.ops = {"upload"} /\ ~ st.counted)
  PROVE  Good(httpd_client_shutdown(st), left)
<1> DEFINE q == httpd_client_shutdown(st)
<1>1. st \in ClientType /\ Stops(st) /\ st.freed = 0
  BY Fields DEF Good, Stops
<1>2. /\ q \in ClientType /\ q.flags = st.flags \cup {"STOPPING"}
      /\ Stops(q) /\ q.freed = 0
      /\ q.keep = st.keep /\ q.method = st.method /\ q.cur = st.cur
      /\ q.buffered = st.buffered /\ q.reading = st.reading
      /\ q.bodyLeft = st.bodyLeft /\ q.counted = st.counted
      /\ q.framed = st.framed /\ q.ops = st.ops /\ q.begun = st.begun
  BY <1>1, ShutdownFields
<1> HIDE DEF q
<1>3. InOrder(q) /\ ("ERROR" \in q.flags => "raw" \in q.ops)
  BY <1>2 DEF InOrder, Good
<1>4. q.reading => Waits(q, left)
  <2> SUFFICES ASSUME q.reading PROVE Waits(q, left)
    OBVIOUS
  <2>1. Waits(st, left)
    BY <1>2 DEF Good
  <2> QED BY <1>2, <2>1 DEF Waits
<1>5. q.ops # {} => Busy(q, left)
  <2> SUFFICES ASSUME q.ops # {} PROVE Busy(q, left)
    OBVIOUS
  <2>1. Busy(st, left) /\ st.ops = {"upload"} /\ ~ st.counted
    BY <1>2 DEF Good
  <2>2. (Unbegun(q) <=> Unbegun(st)) /\ ~ Answering(q)
    BY <1>2, <2>1 DEF Unbegun, Answering
  <2> QED BY <1>2, <2>1, <2>2 DEF Busy
<1>6. Good(q, left)
  BY <1>2, <1>3, <1>4, <1>5 DEF Good
<1> QED BY <1>6 DEF q

(* The idle timeout. *)
LEMMA TimeoutGood ==
  ASSUME Cut = FALSE, IInv, Timeout
  PROVE  Good(h', peer.left)
<1>1. /\ Good(h, peer.left) /\ peer.left \in Nat /\ "STOPPING" \notin h.flags
      /\ h.ops = {} \/ (h.ops = {"upload"} /\ ~ h.counted)
      /\ h' = httpd_client_shutdown(h)
  BY DEF IInv, Timeout, Stopping, Swallows
<1> QED BY <1>1, StopGood

(* The read for request heads ends with nothing. *)
LEMMA ReadClosedGood ==
  ASSUME IInv, ReadClosed
  PROVE  Good(h', peer.left)
<1> DEFINE p == [h EXCEPT !.reading = FALSE]
<1>1. /\ Good(h, peer.left) /\ h \in ClientType /\ peer.left \in Nat /\ h.reading
      /\ h' = httpd_client_shutdown(p) /\ Waits(h, peer.left)
  BY DEF IInv, ReadClosed, Good
<1>2. /\ p \in ClientType /\ p.flags = h.flags /\ p.ops = h.ops /\ p.begun = h.begun
      /\ p.cur = h.cur /\ p.framed = h.framed /\ ~ p.reading
      /\ p.closes = h.closes /\ p.freed = h.freed
  BY <1>1 DEF ClientType
<1> HIDE DEF p
<1>3. h.freed = 0
  BY <1>1, Fields DEF Good
<1>4. InOrder(p) /\ Stops(p)
  BY <1>1, <1>2 DEF Good, InOrder, Stops
<1>5. /\ p.ops = {} /\ "ERROR" \notin p.flags /\ p.framed /\ Len(p.begun) = p.cur
      /\ p.freed = 0
  BY <1>1, <1>2, <1>3 DEF Waits, Good
<1> QED BY <1>1, <1>2, <1>4, <1>5, ShutdownGood

(* httpd_client_close_callback frees a client nothing points at: while a   *)
(* close is requested the only operation is an upload without a count, and *)
(* its read ends before the close does. *)
LEMMA ClosedGood ==
  ASSUME IInv, Closed
  PROVE  Good(h', peer.left)
<1> DEFINE c == h.closes - 1
           f == h.freed + 1
           F == {"STOPPING"}
           q == [h EXCEPT !.closes = c, !.freed = f, !.flags = F, !.buffered = 0]
<1>1. /\ Good(h, peer.left) /\ h \in ClientType /\ h' = q /\ h.closes > 0
      /\ ~ h.reading /\ ~ Swallows
  BY DEF IInv, Good, Closed
<1>2. h.closes \in Nat /\ h.freed \in Nat /\ MaxReq \in Nat
  BY <1>1, Fields, HttpdAssumption
<1>3. h.closes + h.freed <= 1 /\ ("STOPPING" \in h.flags <=> h.closes + h.freed = 1)
  BY <1>1 DEF Good, Stops
<1>4. h.closes = 1 /\ h.freed = 0 /\ "STOPPING" \in h.flags
  BY <1>1, <1>2, <1>3
<1>5. c = 0 /\ f = 1 /\ c \in Nat /\ f \in Nat
  BY <1>4
<1>6. F \in SUBSET Flag /\ 0 \in 0 .. MaxReq /\ "ERROR" \notin F /\ "STOPPING" \in F
  BY <1>2 DEF Flag
<1>7. h.ops = {}
  <2>1. h.ops # {} => h.ops = {"upload"} /\ ~ h.counted
    BY <1>1, <1>4 DEF Good, Busy
  <2> QED BY <1>1, <2>1 DEF Swallows
<1>8. F = {"STOPPING"}
  OBVIOUS
<1> HIDE DEF c, f, F
<1>9. /\ q \in ClientType /\ q.closes = c /\ q.freed = f /\ q.flags = F /\ q.ops = h.ops
      /\ q.reading = h.reading /\ q.framed = h.framed /\ q.begun = h.begun /\ q.cur = h.cur
  BY <1>1, <1>5, <1>6 DEF ClientType
<1> HIDE DEF q
<1>10. InOrder(q) /\ Stops(q)
  BY <1>1, <1>5, <1>6, <1>9 DEF Good, InOrder, Stops
<1>11. Good(q, peer.left)
  BY <1>1, <1>6, <1>7, <1>8, <1>9, <1>10 DEF Good
<1> QED BY <1>1, <1>11

(* Good asks for no more than the requests the peer may still send. *)
LEMMA GoodFewer ==
  ASSUME NEW st, NEW left \in Nat, Good(st, left), NEW less \in Nat, less <= left
  PROVE  Good(st, less)
<1>1. st \in ClientType /\ st.cur \in Nat /\ st.buffered \in Nat /\ MaxReq \in Nat
  BY Fields, HttpdAssumption DEF Good
<1>2. st.reading => Waits(st, less)
  <2>1. st.cur + left <= MaxReq => st.cur + less <= MaxReq
    BY <1>1
  <2> QED BY <2>1 DEF Good, Waits
<1>3. st.ops # {} => Busy(st, less)
  <2>1. st.cur + st.buffered + left <= MaxReq + 1 => st.cur + st.buffered + less <= MaxReq + 1
    BY <1>1
  <2> QED BY <2>1 DEF Good, Busy
<1> QED BY <1>2, <1>3 DEF Good

(* Requests arrive, for the read of heads or for an upload that swallows   *)
(* them. *)
LEMMA ArriveGood ==
  ASSUME IInv, Arrive
  PROVE  IInv'
<1>1. PICK n \in 1 .. peer.left :
        /\ h' \in IF h.reading
                   THEN hin_lines_reread([h EXCEPT !.reading = FALSE, !.buffered = @ + n])
                   ELSE {h}
        /\ peer' = [peer EXCEPT !.left = @ - n]
  BY DEF Arrive
<1>2. peer \in [left : 0 .. MaxReq, open : BOOLEAN] /\ Good(h, peer.left)
  BY DEF IInv
<1>3. peer.left \in Nat /\ peer.left <= MaxReq /\ n \in Nat /\ n >= 1 /\ n <= peer.left
      /\ MaxReq \in Nat
  BY <1>1, <1>2, HttpdAssumption
<1> DEFINE l == peer.left - n
<1>4. l \in Nat /\ l <= peer.left /\ l \in 0 .. MaxReq /\ n + l = peer.left
  BY <1>3
<1>5. peer'.left = l /\ peer' \in [left : 0 .. MaxReq, open : BOOLEAN]
  BY <1>1, <1>2, <1>4
<1>6. Good(h', l)
  <2>1. CASE ~ h.reading
    <3>1. h' = h
      BY <1>1, <2>1
    <3>2. Good(h, l)
      BY <1>2, <1>3, <1>4, GoodFewer
    <3> QED BY <3>1, <3>2
  <2>2. CASE h.reading
    <3> DEFINE b == h.buffered + n
               p == [h EXCEPT !.reading = FALSE, !.buffered = b]
    <3>1. h' \in hin_lines_reread(p)
      BY <1>1, <2>2
    <3>2. Waits(h, peer.left) /\ h \in ClientType /\ Stops(h) /\ InOrder(h) /\ h.framed
      BY <1>2, <2>2 DEF Good
    <3>3. h.buffered = 0 /\ h.cur \in Nat /\ h.cur + peer.left <= MaxReq
      BY <3>2, Fields DEF Waits
    <3>4. b \in 0 .. MaxReq /\ h.cur + b + l <= MaxReq
      BY <1>3, <1>4, <3>3
    <3> HIDE DEF b
    <3>5. /\ p \in ClientType /\ p.buffered = b /\ ~ p.reading /\ p.flags = h.flags
          /\ p.ops = h.ops /\ p.framed = h.framed /\ p.bodyLeft = h.bodyLeft
          /\ p.closes = h.closes /\ p.freed = h.freed /\ p.begun = h.begun /\ p.cur = h.cur
      BY <3>2, <3>4 DEF ClientType
    <3> HIDE DEF p
    <3>6. "STOPPING" \notin h.flags
      BY <2>2 DEF Arrive, Stopping
    <3>7. h.closes = 0 /\ h.freed = 0
      BY <3>2, <3>6, Fields DEF Stops
    <3>8. h.flags = {"HEADERS"}
      BY <3>2, <3>6 DEF Waits
    <3>9. InOrder(p)
      BY <3>2, <3>5 DEF InOrder
    <3>10. Ready(p, l)
      BY <3>2, <3>4, <3>5, <3>7, <3>8, <3>9 DEF Ready, Waits
    <3> QED BY <1>4, <3>1, <3>10, RereadGood
  <2> QED BY <2>1, <2>2
<1> HIDE DEF l
<1>7. Good(h', peer'.left)
  BY <1>5, <1>6
<1> QED BY <1>5, <1>7 DEF IInv, Good, Stops, InOrder, Waits, Busy, Unbegun, Answering

(* The first state. *)
LEMMA InitGood ==
  ASSUME Init
  PROVE  IInv
<1>1. MaxReq \in Nat /\ MaxReq \in 0 .. MaxReq /\ 0 \in 0 .. MaxReq
  BY HttpdAssumption
<1>2. <<>> \in Seq(1 .. MaxReq) /\ Len(<<>>) = 0
  BY EmptySeq
<1>3. {"HEADERS"} \in SUBSET Flag
  BY DEF Flag
<1>4. h \in ClientType
  BY <1>1, <1>2, <1>3 DEF Init, ClientType
<1>5. /\ h.flags = {"HEADERS"} /\ h.cur = 0 /\ h.buffered = 0 /\ h.reading /\ ~ h.bodyLeft
      /\ h.framed /\ h.ops = {} /\ h.begun = <<>> /\ h.closes = 0 /\ h.freed = 0
      /\ peer.left = MaxReq /\ peer \in [left : 0 .. MaxReq, open : BOOLEAN]
  BY <1>1 DEF Init
<1>6. InOrder(h) /\ Stops(h)
  BY <1>2, <1>5 DEF InOrder, Stops
<1>7. Waits(h, peer.left)
  BY <1>1, <1>2, <1>5 DEF Waits
<1> QED BY <1>2, <1>4, <1>5, <1>6, <1>7 DEF IInv, Good

(* Every step keeps the invariant. *)
LEMMA NextInv ==
  ASSUME Cut = FALSE, IInv, [Next]_vars
  PROVE  IInv'
<1> USE DEF IInv
<1>1. peer \in [left : 0 .. MaxReq, open : BOOLEAN]
  OBVIOUS
<1> DEFINE Keeps == Good(h', peer.left) /\ peer' = peer
<1>2. ASSUME Keeps PROVE IInv'
  BY <1>1, <1>2 DEF Good, Stops, InOrder, Waits, Busy, Unbegun, Answering
<1> HIDE DEF IInv
<1>3. CASE Arrive
  BY <1>3, ArriveGood
<1>4. CASE PeerCloses
  <2>1. h' = h /\ peer'.left = 0 /\ peer' \in [left : 0 .. MaxReq, open : BOOLEAN]
    BY <1>4, HttpdAssumption DEF PeerCloses
  <2>2. peer.left \in Nat /\ peer'.left \in Nat /\ peer'.left <= peer.left
    BY <1>1, <2>1
  <2>3. Good(h, peer'.left)
    BY <2>2, GoodFewer DEF IInv
  <2>4. Good(h', peer'.left)
    BY <2>1, <2>3
  <2> QED BY <2>1, <2>4 DEF IInv, Good, Stops, InOrder, Waits, Busy, Unbegun, Answering
<1>5. CASE ReadClosed
  BY <1>2, <1>5, ReadClosedGood DEF ReadClosed
<1>6. CASE RawDone
  BY <1>2, <1>6, RawDoneGood DEF RawDone, Ends
<1>7. CASE PipeDone
  BY <1>2, <1>7, PipeDoneGood DEF PipeDone, Ends
<1>8. CASE PipeError
  BY <1>2, <1>8, PipeErrorGood DEF PipeError, Ends
<1>9. CASE WorkerHeaders
  BY <1>2, <1>9, WorkerHeadersGood DEF WorkerHeaders, Ends
<1>10. CASE WorkerFails
  BY <1>2, <1>10, WorkerFailsGood DEF WorkerFails, Ends
<1>11. CASE UploadDone
  BY <1>2, <1>11, UploadDoneGood DEF UploadDone, Ends
<1>12. CASE ProxyDone
  BY <1>2, <1>12, ProxyDoneGood DEF ProxyDone, Ends
<1>13. CASE ProxyError
  BY <1>2, <1>13, ProxyErrorGood DEF ProxyError, Ends
<1>14. CASE RelayDone
  BY <1>2, <1>14, RelayDoneGood DEF RelayDone, Ends
<1>15. CASE Timeout
  BY <1>2, <1>15, TimeoutGood DEF Timeout
<1>16. CASE Closed
  BY <1>2, <1>16, ClosedGood DEF Closed
<1>17. CASE Done \/ UNCHANGED vars
  <2>1. h' = h /\ peer' = peer /\ Good(h, peer.left)
    BY <1>17 DEF Done, vars, IInv
  <2> QED BY <1>2, <2>1
<1> QED BY <1>3, <1>4, <1>5, <1>6, <1>7, <1>8, <1>9, <1>10, <1>11, <1>12, <1>13,
           <1>14, <1>15, <1>16, <1>17 DEF Next

----------------------------------------------------------------------------
(* The invariant holds in every state of the specification. *)
LEMMA Inductive ==
  ASSUME Cut = FALSE
  PROVE  Spec => []IInv
<1>1. Init => IInv
  BY InitGood
<1>2. IInv /\ [Next]_vars => IInv'
  BY NextInv
<1> QED BY <1>1, <1>2, PTL DEF Spec

(* httpd_client_t keeps its type: every number stays within the bound on   *)
(* the requests of the connection. *)
THEOREM TypeCorrect ==
  ASSUME Cut = FALSE
  PROVE  Spec => []TypeOK
<1>1. IInv => TypeOK
  BY DEF IInv, Good, TypeOK
<1> QED BY <1>1, Inductive, PTL

(* httpd_client_close_callback never frees a client that an operation or a *)
(* read still points at, and frees it once. *)
THEOREM FreeCorrect ==
  ASSUME Cut = FALSE
  PROVE  Spec => []NoUseAfterFree
<1>1. IInv => NoUseAfterFree
  BY DEF IInv, Good, Stops, NoUseAfterFree
<1> QED BY <1>1, Inductive, PTL

(* Pipelined requests are answered in order and once each, whatever their  *)
(* handlers call. *)
THEOREM OrderCorrect ==
  ASSUME Cut = FALSE
  PROVE  Spec => []AnswersInOrder
<1>1. IInv => AnswersInOrder
  BY DEF IInv, Good, InOrder, AnswersInOrder
<1> QED BY <1>1, Inductive, PTL

(* No head is read while body bytes of the request before are left in the  *)
(* socket. *)
THEOREM BoundaryCorrect ==
  ASSUME Cut = FALSE
  PROVE  Spec => []RequestBoundary
<1>1. IInv => RequestBoundary
  BY DEF IInv, Good, RequestBoundary
<1> QED BY <1>1, Inductive, PTL

(* A connection that waits for the socket has no request in its buffer. *)
THEOREM PipelineCorrect ==
  ASSUME Cut = FALSE
  PROVE  Spec => []PipelineServed
<1>1. IInv => PipelineServed
  BY DEF IInv, Good, Waits, PipelineServed
<1> QED BY <1>1, Inductive, PTL
=============================================================================
