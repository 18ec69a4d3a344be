----------------------------- MODULE DaemonLink -----------------------------
(* What hub_client promises the tasks that talk to the daemon: the two bits *)
(* of LinkBits, and an address that is there whenever FOUND is raised and   *)
(* gone whenever it is cleared.                                             *)
EXTENDS LinkBits

CONSTANTS Hosts, NoAddr

VARIABLE addr

DInit == Init /\ addr = NoAddr

Signal ==
    /\ Next
    /\ ~up /\ up' => addr \in Hosts
    /\ up /\ ~up' => addr = NoAddr
    /\ UNCHANGED addr

Publish == ~up /\ addr' \in Hosts /\ UNCHANGED <<up, down, owed>>

Withdraw == addr' = NoAddr /\ UNCHANGED <<up, down, owed>>

DNext == Signal \/ Publish \/ Withdraw

DSpec == DInit /\ [][DNext]_<<up, down, owed, addr>>
=============================================================================
