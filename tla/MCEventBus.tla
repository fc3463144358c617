----------------------------- MODULE MCEventBus -----------------------------
(***************************************************************************)
(* EventBus for TLC.  Two sockets share nothing but the log, and every     *)
(* property speaks of one socket: one is enough.  Four events over a ring  *)
(* of two make a socket lag by one and by two.                             *)
(***************************************************************************)
EXTENDS EventBus

=============================================================================
