----------------------------- MODULE DaemonFlag -----------------------------
(* What hub_client_daemon_found() and hub_client_daemon_ip() (hub_client.h) *)
(* show a task that polls them: the flag comes before the address, and goes *)
(* before it, so that for a moment there is either without the other.       *)
CONSTANTS Hosts, NoAddr

VARIABLES flag, addr

FInit == ~flag /\ addr = NoAddr

Find == ~flag /\ addr = NoAddr /\ flag' = TRUE /\ UNCHANGED addr

Publish == flag /\ addr = NoAddr /\ addr' \in Hosts /\ UNCHANGED flag

Lose == flag /\ addr \in Hosts /\ flag' = FALSE /\ UNCHANGED addr

Withdraw == ~flag /\ addr \in Hosts /\ addr' = NoAddr /\ UNCHANGED flag

FNext == Find \/ Publish \/ Lose \/ Withdraw

FSpec == FInit /\ [][FNext]_<<flag, addr>>
=============================================================================
