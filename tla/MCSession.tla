------------------------------ MODULE MCSession ------------------------------
(* DeviceSession for TLC. *)
EXTENDS DeviceSession
=============================================================================
