---------------------------- MODULE MCEventQueue ----------------------------
(* Four slots, so the ring wraps with three events queued, and stamps that *)
(* wrap out of step with it.                                               *)
EXTENDS EventQueue
=============================================================================
