----------------------------- MODULE MCHinTimer -----------------------------
(* Three clients, so that a walk can re-arm one timer past another that is *)
(* re-armed itself; one object, whose timer stays on the list; a single    *)
(* timeout and two different ones. *)
EXTENDS HinTimer

MCDelaySets == {{1}, {1, 3}}

Symmetry == Permutations(Clients)
=============================================================================
