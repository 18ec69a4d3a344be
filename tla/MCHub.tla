-------------------------------- MODULE MCHub --------------------------------
(* HubClient for TLC. *)
EXTENDS HubClient
=============================================================================
