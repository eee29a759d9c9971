------------------------------ MODULE MCHinFcgi ------------------------------
(* HinFcgi for TLC.  The requests are interchangeable, so one order of     *)
(* each mix of kinds is enough. *)
EXTENDS HinFcgi

CONSTANTS r1, r2, r3

Rank == [get |-> 1, buffered |-> 2, upload |-> 3]

MCMixes == {m \in [Requests -> Kind] :
              Rank[m[r1]] <= Rank[m[r2]] /\ Rank[m[r2]] <= Rank[m[r3]]}
=============================================================================
