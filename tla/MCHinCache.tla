----------------------------- MODULE MCHinCache -----------------------------
(* Two keys, so that the store can fill up; three requests, so that two can *)
(* miss together while another hits; three objects, so that a key can be     *)
(* generated again after an error or an expiry. *)
EXTENDS HinCache
=============================================================================
