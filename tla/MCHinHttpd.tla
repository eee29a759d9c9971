---------------------------- MODULE MCHinHttpd ----------------------------
(* HinHttpd for TLC: the requests of each run. *)
EXTENDS HinHttpd

Ok(method, keep, calls, body) ==
  [head |-> "ok", method |-> method, keep |-> keep, calls |-> calls, body |-> body]

Refused(how) ==
  [head |-> how, method |-> "POST", keep |-> TRUE, calls |-> <<>>, body |-> "more"]

(* What the handlers of a virtual host may call for one request. *)
Handlers ==
  {<<>>, <<"text">>, <<"file">>, <<"missing">>, <<"cgi">>, <<"cgi_fails">>,
   <<"cached">>, <<"proxy">>, <<"proxy_cached">>, <<"shutdown">>,
   <<"text", "text">>, <<"text", "cgi">>, <<"cgi", "text">>,
   <<"file", "proxy">>, <<"cgi", "shutdown">>}

MCRequests ==
  {Ok("GET", k, c, "buffered") : k \in BOOLEAN, c \in Handlers}
  \cup {Ok("POST", k, c, b) : k \in BOOLEAN, c \in Handlers, b \in {"buffered", "more"}}
  \cup {Ok("POST", TRUE, <<c>>, "empty") : c \in {"text", "cgi", "proxy"}}
  \cup {Refused(f) : f \in {"bad", "silent", "chunked"}}

(* Uploads to a CGI program that may fail while they run. *)
MCUploads == {Ok("POST", TRUE, <<"cgi">>, "more")}
=============================================================================
