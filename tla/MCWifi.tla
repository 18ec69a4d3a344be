------------------------------- MODULE MCWifi -------------------------------
(* WifiManager for TLC. *)
EXTENDS WifiManager
=============================================================================
