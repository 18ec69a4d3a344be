----------------------------- MODULE HubClient ------------------------------
(* esp-codes/main/hub_client.c: the task that finds a daemon by UDP         *)
(* broadcast whenever the WiFi is up, over the bits wifi_manager promises   *)
(* (LinkBits), a network that loses, repeats and reorders datagrams, and    *)
(* the daemon's answer (HubServer::onUdpReadable).                          *)
EXTENDS Naturals

CONSTANTS
    Hosts,    \* machines that may run a daemon
    NoAddr,   \* s_hub.ip = 0
    MaxDrops  \* bound: how often the WiFi goes away

ASSUME HubClientAssumption == NoAddr \notin Hosts /\ MaxDrops \in Nat

VARIABLES
    ready, lost, owed, \* the WiFi bits, and a loss that is due
    drops,
    dpc,      \* hub_discover_task
    sender,   \* the sender of the reply being handled
    found,    \* s_hub.found
    ip,       \* s_hub.ip and s_hub.port
    hubBits,  \* s_hub_event_group
    net       \* datagrams to and from the socket of this attempt

wifiVars == <<ready, lost, owed, drops>>
hubVars == <<dpc, sender, found, ip, hubBits, net>>

Requests == [kind : {"DISCOVER"}, host : Hosts]
Replies == [kind : {"DISCOVER_REPLY"}, host : Hosts]
Datagrams == Requests \cup Replies

Init ==
    /\ ready = FALSE /\ lost = FALSE /\ owed = FALSE /\ drops = 0
    /\ dpc = "wait_wifi"
    /\ sender = NoAddr
    /\ found = FALSE
    /\ ip = NoAddr
    /\ hubBits = {}
    /\ net = {}

-----------------------------------------------------------------------------
(* wifi_manager, as LinkBits specifies it (external to this module) *)

Wifi == INSTANCE LinkBits WITH up <- ready, down <- lost

WifiStep ==
    /\ \/ Wifi!RaiseUp /\ UNCHANGED drops
       \/ Wifi!DropUp /\ ~owed /\ drops < MaxDrops /\ drops' = drops + 1
       \/ Wifi!RaiseDown /\ UNCHANGED drops
       \/ Wifi!DropDown /\ UNCHANGED drops
    /\ UNCHANGED hubVars

-----------------------------------------------------------------------------
(* hub_discover_task *)

Go(from, to) == dpc = from /\ dpc' = to

(* xEventGroupWaitBits leaves the bit set. *)
WaitReady ==
    /\ ready
    /\ Go("wait_wifi", "open")
    /\ UNCHANGED <<wifiVars, sender, found, ip, hubBits, net>>

(* A fresh socket for every attempt: socket(), setsockopt() and sendto()    *)
(* may each fail; without WiFi no datagram gets out.                        *)
SendDiscover ==
    /\ \/ Go("open", "delay") /\ UNCHANGED net
       \/ Go("open", "recv") /\ net' \in SUBSET (IF ready THEN Requests ELSE {})
    /\ UNCHANGED <<wifiVars, sender, found, ip, hubBits>>

(* Mutant: the socket stays open. *)
NoReplyKeepsSocket ==
    /\ Go("recv", "delay")
    /\ UNCHANGED <<wifiVars, sender, found, ip, hubBits, net>>

(* recvfrom() times out after DISCOVER_TIMEOUT_SEC, or brings a datagram    *)
(* that is too short or no DISCOVER_REPLY. The socket is closed either way. *)
NoReply ==
    /\ Go("recv", "delay")
    /\ net' = {}
    /\ UNCHANGED <<wifiVars, sender, found, ip, hubBits>>

(* Mutant: one attempt is all there is. *)
RetryDelayGivesUp ==
    /\ Go("delay", "wait_lost")
    /\ UNCHANGED <<wifiVars, sender, found, ip, hubBits, net>>

RetryDelay ==
    /\ Go("delay", "open")
    /\ UNCHANGED <<wifiVars, sender, found, ip, hubBits, net>>

RecvReply(h) ==
    /\ [kind |-> "DISCOVER_REPLY", host |-> h] \in net
    /\ Go("recv", "publish")
    /\ net' = {}
    /\ sender' = h
    /\ found' = TRUE
    /\ UNCHANGED <<wifiVars, ip, hubBits>>

PublishAddress ==
    /\ Go("publish", "clear_lost")
    /\ ip' = sender
    /\ UNCHANGED <<wifiVars, sender, found, hubBits, net>>

(* Mutant: the last loss stays reported. *)
ClearDaemonLostForgotten ==
    /\ Go("clear_lost", "set_found")
    /\ UNCHANGED <<wifiVars, sender, found, ip, hubBits, net>>

ClearDaemonLost ==
    /\ Go("clear_lost", "set_found")
    /\ hubBits' = hubBits \ {"LOST"}
    /\ UNCHANGED <<wifiVars, sender, found, ip, net>>

SetDaemonFound ==
    /\ Go("set_found", "wait_lost")
    /\ hubBits' = hubBits \cup {"FOUND"}
    /\ UNCHANGED <<wifiVars, sender, found, ip, net>>

(* Mutant: it waits for the other bit. *)
WaitLostWrongBit ==
    /\ ready
    /\ Go("wait_lost", "withdraw")
    /\ found' = FALSE
    /\ UNCHANGED <<wifiVars, sender, ip, hubBits, net>>

(* Mutant: the flag stays. *)
WaitLostKeepsFlag ==
    /\ lost
    /\ Go("wait_lost", "withdraw")
    /\ UNCHANGED <<wifiVars, sender, found, ip, hubBits, net>>

WaitLost ==
    /\ lost
    /\ Go("wait_lost", "withdraw")
    /\ found' = FALSE
    /\ UNCHANGED <<wifiVars, sender, ip, hubBits, net>>

WithdrawAddress ==
    /\ Go("withdraw", "clear_found")
    /\ ip' = NoAddr
    /\ UNCHANGED <<wifiVars, sender, found, hubBits, net>>

ClearDaemonFound ==
    /\ Go("clear_found", "set_lost")
    /\ hubBits' = hubBits \ {"FOUND"}
    /\ UNCHANGED <<wifiVars, sender, found, ip, net>>

SetDaemonLost ==
    /\ Go("set_lost", "wait_wifi")
    /\ hubBits' = hubBits \cup {"LOST"}
    /\ UNCHANGED <<wifiVars, sender, found, ip, net>>

hub_discover_task ==
    \/ WaitReady \/ SendDiscover \/ NoReply \/ RetryDelay
    \/ \E h \in Hosts : RecvReply(h)
    \/ PublishAddress \/ ClearDaemonLost \/ SetDaemonFound
    \/ WaitLost \/ WithdrawAddress \/ ClearDaemonFound \/ SetDaemonLost

-----------------------------------------------------------------------------
(* The network and the daemons *)

(* A daemon answers a DISCOVER, as often as the network delivers it;        *)
(* anything else it drops.                                                  *)
onUdpReadable(m) ==
    /\ m \in net \cap Requests
    /\ \E kept \in {{}, {m}} :
           net' = (net \ {m}) \cup kept \cup {[kind |-> "DISCOVER_REPLY", host |-> m.host]}
    /\ UNCHANGED <<wifiVars, dpc, sender, found, ip, hubBits>>

Lose(m) ==
    /\ m \in net
    /\ net' = net \ {m}
    /\ UNCHANGED <<wifiVars, dpc, sender, found, ip, hubBits>>

NetworkStep == \E m \in Datagrams : onUdpReadable(m) \/ Lose(m)

HubNext == WifiStep \/ hub_discover_task \/ NetworkStep

vars == <<wifiVars, hubVars>>

Spec == Init /\ [][HubNext]_vars

(* The task is scheduled, and neither the network nor a daemon fails every  *)
(* attempt: of infinitely many broadcasts some reach a daemon, are answered *)
(* and the answer comes in time.                                            *)
Fairness ==
    /\ WF_vars(hub_discover_task)
    /\ SF_vars(SendDiscover /\ net' = Requests)
    /\ SF_vars(\E m \in Requests : onUdpReadable(m))
    /\ SF_vars(\E h \in Hosts : RecvReply(h))

FairSpec == Spec /\ Fairness

-----------------------------------------------------------------------------
(* The types of the discovery task: no bits but its own two, and datagrams  *)
(* only while there is a socket to receive them, so that no attempt hears   *)
(* the answer to an earlier one.                                            *)
TypeOK ==
    /\ {ready, lost, owed, found} \subseteq BOOLEAN
    /\ drops \in 0 .. MaxDrops
    /\ dpc \in {"wait_wifi", "open", "recv", "delay", "publish", "clear_lost", "set_found",
                "wait_lost", "withdraw", "clear_found", "set_lost"}
    /\ {sender, ip} \subseteq Hosts \cup {NoAddr}
    /\ hubBits \subseteq {"FOUND", "LOST"}
    /\ net \subseteq Datagrams
    /\ net # {} => dpc = "recv"

Promise == INSTANCE DaemonLink WITH
    up <- "FOUND" \in hubBits, down <- "LOST" \in hubBits,
    owed <- dpc = "set_lost", addr <- ip

(* The discovery task keeps what hub_client.h promises the tasks that wait  *)
(* for the daemon: FOUND and DAEMON_LOST never together, a loss between two *)
(* discoveries, an address before every FOUND.                              *)
ImplementsDaemonLink == Promise!DSpec

Polled == INSTANCE DaemonFlag WITH flag <- found, addr <- ip

(* What hub_client_daemon_found() and hub_client_daemon_ip() return to a    *)
(* task that polls them goes through the four phases of DaemonFlag, in that *)
(* order.                                                                   *)
ImplementsDaemonFlag == Polled!FSpec

(* While the WiFi stays up, lost datagrams and wrong replies delay the      *)
(* discovery but never end it.                                              *)
DiscoveryCompletes == ready ~> ("FOUND" \in hubBits \/ ~ready)

(* A loss of the WiFi that lasts withdraws the daemon, wherever the         *)
(* discovery was when it happened: afterwards FOUND stays clear.            *)
LossWithdrawsDaemon == <>[]lost => <>[]("FOUND" \notin hubBits)

(* hub_client.h:46,52: a task released by DAEMON_FOUND_BIT reads the       *)
(* address of a daemon.                                                     *)
FoundBitHasAddress == "FOUND" \in hubBits => ip \in Hosts
=============================================================================
