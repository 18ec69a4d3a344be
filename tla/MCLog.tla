-------------------------------- MODULE MCLog --------------------------------
(* LogForwarder for TLC. *)
EXTENDS LogForwarder
=============================================================================
