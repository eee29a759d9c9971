----------------------------- MODULE MCHinProxy -----------------------------
(* HinProxy for TLC: two requests to one server, the second an upload. *)
EXTENDS HinProxy

CONSTANTS r1, r2, h1

MCHost == [r \in Requests |-> h1]
=============================================================================
