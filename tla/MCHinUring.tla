---------------------------- MODULE MCHinUring ----------------------------
(* HinUring for TLC: an accept and two other buffers on a ring of two      *)
(* entries, the console, and a file opened by its path. *)
EXTENDS HinUring
=============================================================================
