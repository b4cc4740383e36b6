---------------------------- MODULE MCSupervisor ----------------------------
(* Supervisor for TLC; no reachable state fills its four places. *)
EXTENDS Supervisor
=============================================================================
