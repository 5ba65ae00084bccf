---------------------------- MODULE MCSupervisor ----------------------------
(* An instance of Supervisor for TLC: each stream can pass its limit by one *)
(* block while the pipe holds one more.                                     *)
EXTENDS Supervisor
=============================================================================
