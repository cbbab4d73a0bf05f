---------------------------- MODULE MCSystemSync ----------------------------
(* Two processors; counters modulo 2, so that they wrap. *)
EXTENDS SystemSync
=============================================================================
