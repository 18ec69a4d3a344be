------------------------------ MODULE LinkBits ------------------------------
(* What a layer of the firmware promises the layer above it through a pair  *)
(* of event-group bits: WIFI_READY_BIT and WIFI_LOST_BIT (wifi_manager.h),  *)
(* DAEMON_FOUND_BIT and DAEMON_LOST_BIT (hub_client.h). The bits change in  *)
(* separate calls, so a task of the layer above may see neither of them set *)
(* but never both, and between two reports of the link being up there is    *)
(* always a report of its loss.                                             *)
VARIABLES
    up,   \* READY, FOUND
    down, \* LOST
    owed  \* the link was withdrawn and its loss is not reported yet

Init == ~up /\ ~down /\ ~owed

RaiseUp == ~down /\ ~owed /\ up' = TRUE /\ UNCHANGED <<down, owed>>

DropUp == up' = FALSE /\ owed' = TRUE /\ UNCHANGED down

RaiseDown == ~up /\ down' = TRUE /\ owed' = FALSE /\ UNCHANGED up

DropDown == ~up /\ ~owed /\ down' = FALSE /\ UNCHANGED <<up, owed>>

(* A restart of the board: the event groups are created afresh. *)
Reset == up' = FALSE /\ down' = FALSE /\ owed' = FALSE

Next == RaiseUp \/ DropUp \/ RaiseDown \/ DropDown \/ Reset

Spec == Init /\ [][Next]_<<up, down, owed>>
=============================================================================
