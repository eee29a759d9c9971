---------------------------- MODULE MCHinServer ----------------------------
(* Two listening sockets, so that one can drain while the other is freed;  *)
(* three clients, so that a server can hold several and refill; outgoing   *)
(* connections and restarts that outlive a stop. *)
EXTENDS HinServer
=============================================================================
