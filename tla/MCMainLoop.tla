----------------------------- MODULE MCMainLoop -----------------------------
(* Instances of MainLoop for TLC; the .cfg files give the bytes and bounds. *)
EXTENDS MainLoop
=============================================================================
