---------------------------- MODULE WifiManager -----------------------------
(* esp-codes/main/wifi_manager.c: the task that boots the WiFi, the event   *)
(* loop that runs wifi_event_handler, the captive portal's DNS task and its *)
(* HTTP task, against the WiFi driver, a user of the portal and restarts.   *)
(* Every call on the event group is a step of its own: tasks waiting on the *)
(* bits run on the other core. (start_sta_mode clears two bits that are not *)
(* set at boot; that is no step.)                                           *)
EXTENDS Naturals, Sequences

CONSTANTS
    WIFI_MAX_RETRY, \* reconnects before the AP fallback (wifi_manager.h:25)
    EventQueue,     \* events the default event loop holds
    MaxRestarts     \* bound: restarts of the board in a behaviour

ASSUME WifiAssumption ==
    WIFI_MAX_RETRY \in Nat /\ EventQueue \in Nat /\ MaxRestarts \in Nat

VARIABLES
    bits,     \* s_event_group
    pc,       \* pc.mgr: wifi_manager_task; pc.ev: the event loop task; pc.http: the HTTP task
    evq,      \* events posted to the default event loop, oldest first
    retry,    \* s_retry_count
    http,     \* s_http_server is not NULL
    dnsTask,  \* s_dns_task is not NULL
    dns,      \* the DNS task: none, starting, serving or dead
    handlers, \* wifi_event_handler is registered
    drv,      \* the WiFi driver's state
    nvs,      \* the stored credentials
    reason,   \* the reason of the last STA_DISCONNECTED handled
    failed,   \* disconnects reported since the last IP address or restart
    restarts

vars == <<bits, pc, evq, retry, http, dnsTask, dns, handlers, drv, nvs, reason, failed, restarts>>

Bits == {"READY", "LOST", "AP_MODE", "CONNECTING", "AUTH_FAIL"}
Reasons == {"auth", "other"}
Events == {"STA_START", "GOT_IP"} \cup Reasons

(* A credential is absent, the network's own, or anything else. *)
Stored == {"none", "right", "wrong"}
HasCreds == nvs.ssid # "none" /\ nvs.pass # "none"
RightCreds == nvs.ssid = "right" /\ nvs.pass = "right"

Booted == [mgr |-> "load", ev |-> "idle", http |-> "idle"]

Init ==
    /\ bits = {}
    /\ pc = Booted
    /\ evq = << >>
    /\ retry = 0
    /\ http = FALSE
    /\ dnsTask = FALSE
    /\ dns = "none"
    /\ handlers = FALSE
    /\ drv = "stopped"
    /\ reason = "other"
    /\ failed = 0
    /\ nvs \in [ssid : Stored, pass : Stored]
    /\ restarts = 0

At(task, at) == pc[task] = at
Goto(task, to) == pc' = [pc EXCEPT ![task] = to]

(* Every variable of the board but the ones that are about the AP's servers. *)
ServersUnchanged == UNCHANGED <<http, dnsTask, dns>>
GhostsUnchanged == UNCHANGED <<reason, failed>>

-----------------------------------------------------------------------------
(* wifi_manager_task *)

(* esp_wifi_start() in station mode posts STA_START; the scan does it too,  *)
(* and its event may still be queued when the handler is registered.        *)
LoadCredentials ==
    /\ At("mgr", "load")
    /\ IF HasCreds
       THEN Goto("mgr", "register") /\ UNCHANGED evq
       ELSE Goto("mgr", "scan") /\ evq' = Append(evq, "STA_START")
    /\ UNCHANGED <<bits, retry, handlers, drv, nvs, restarts>>
    /\ ServersUnchanged /\ GhostsUnchanged

ScanDone ==
    /\ At("mgr", "scan")
    /\ Goto("mgr", "register")
    /\ UNCHANGED <<bits, evq, retry, handlers, drv, nvs, restarts>>
    /\ ServersUnchanged /\ GhostsUnchanged

RegisterHandlers ==
    /\ At("mgr", "register")
    /\ handlers' = TRUE
    /\ Goto("mgr", IF HasCreds THEN "sta" ELSE "ap")
    /\ UNCHANGED <<bits, evq, retry, drv, nvs, restarts>>
    /\ ServersUnchanged /\ GhostsUnchanged

(* Mutant: the attempt is not announced. *)
start_sta_modeSilent ==
    /\ At("mgr", "sta")
    /\ bits' = bits \ {"AP_MODE", "AUTH_FAIL"}
    /\ drv' = "sta"
    /\ evq' = Append(evq, "STA_START")
    /\ Goto("mgr", "done")
    /\ UNCHANGED <<retry, handlers, nvs, restarts>>
    /\ ServersUnchanged /\ GhostsUnchanged

start_sta_mode ==
    /\ At("mgr", "sta")
    /\ bits' = (bits \ {"AP_MODE", "AUTH_FAIL"}) \cup {"CONNECTING"}
    /\ drv' = "sta"
    /\ evq' = Append(evq, "STA_START")
    /\ Goto("mgr", "done")
    /\ UNCHANGED <<retry, handlers, nvs, restarts>>
    /\ ServersUnchanged /\ GhostsUnchanged

(* start_ap_mode, called by wifi_manager_task without credentials and by    *)
(* the event loop after the last retry; it sleeps 100 ms in the middle.     *)
ApCallers == {"mgr", "ev"}

ApStartRadio(t) ==
    /\ At(t, "ap")
    /\ drv' = "ap"
    /\ Goto(t, "ap_serve")
    /\ UNCHANGED <<bits, evq, retry, handlers, nvs, restarts>>
    /\ ServersUnchanged /\ GhostsUnchanged

(* httpd_start may fail, which is only logged; a DNS task is created unless *)
(* s_dns_task says that one exists.                                         *)
ApServe(t) ==
    /\ At(t, "ap_serve")
    /\ http' \in {http, TRUE}
    /\ dnsTask' = TRUE
    /\ dns' = IF dnsTask THEN dns ELSE "starting"
    /\ Goto(t, "ap_clear")
    /\ UNCHANGED <<bits, evq, retry, handlers, drv, nvs, restarts>>
    /\ GhostsUnchanged

ApClearBits(t) ==
    /\ At(t, "ap_clear")
    /\ bits' = bits \ {"READY", "CONNECTING"}
    /\ Goto(t, "ap_set")
    /\ UNCHANGED <<evq, retry, handlers, drv, nvs, restarts>>
    /\ ServersUnchanged /\ GhostsUnchanged

(* Mutant: AP_MODE is forgotten. *)
ApSetBitsLostOnly(t) ==
    /\ At(t, "ap_set")
    /\ bits' = bits \cup {"LOST"}
    /\ Goto(t, IF t = "mgr" THEN "done" ELSE "idle")
    /\ UNCHANGED <<evq, retry, handlers, drv, nvs, restarts>>
    /\ ServersUnchanged /\ GhostsUnchanged

ApSetBits(t) ==
    /\ At(t, "ap_set")
    /\ bits' = bits \cup {"LOST", "AP_MODE"}
    /\ Goto(t, IF t = "mgr" THEN "done" ELSE "idle")
    /\ UNCHANGED <<evq, retry, handlers, drv, nvs, restarts>>
    /\ ServersUnchanged /\ GhostsUnchanged

start_ap_mode(t) == ApStartRadio(t) \/ ApServe(t) \/ ApClearBits(t) \/ ApSetBits(t)

-----------------------------------------------------------------------------
(* The event loop task: wifi_event_handler *)

(* esp_wifi_connect() fails, unnoticed, unless the station is idle. *)
esp_wifi_connect == drv' = IF drv = "sta" THEN "connecting" ELSE drv

Dispatch(events) ==
    /\ At("ev", "idle")
    /\ evq # << >>
    /\ Head(evq) \in events
    /\ evq' = Tail(evq)

(* Before the registration an event reaches nobody. *)
Unhandled ==
    /\ Dispatch(Events)
    /\ ~handlers
    /\ UNCHANGED <<bits, pc, retry, handlers, drv, nvs, restarts>>
    /\ ServersUnchanged /\ GhostsUnchanged

OnStaStart ==
    /\ Dispatch({"STA_START"})
    /\ handlers
    /\ esp_wifi_connect
    /\ UNCHANGED <<bits, pc, retry, handlers, nvs, restarts>>
    /\ ServersUnchanged /\ GhostsUnchanged

(* Mutant: READY survives the disconnect. *)
OnDisconnectedKeepsReady ==
    /\ Dispatch(Reasons)
    /\ handlers
    /\ bits' = bits \ {"CONNECTING"}
    /\ reason' = Head(evq)
    /\ Goto("ev", "disc_lost")
    /\ UNCHANGED <<retry, handlers, drv, nvs, restarts, failed>>
    /\ ServersUnchanged

OnDisconnected ==
    /\ Dispatch(Reasons)
    /\ handlers
    /\ bits' = bits \ {"READY", "CONNECTING"}
    /\ reason' = Head(evq)
    /\ Goto("ev", "disc_lost")
    /\ UNCHANGED <<retry, handlers, drv, nvs, restarts, failed>>
    /\ ServersUnchanged

DisconnectedLost ==
    /\ At("ev", "disc_lost")
    /\ bits' = bits \cup {"LOST"}
    /\ Goto("ev", "disc_auth")
    /\ UNCHANGED <<evq, retry, handlers, drv, nvs, restarts>>
    /\ ServersUnchanged /\ GhostsUnchanged

DisconnectedAuth ==
    /\ At("ev", "disc_auth")
    /\ bits' = IF reason = "auth" THEN bits \cup {"AUTH_FAIL"} ELSE bits
    /\ Goto("ev", "disc_retry")
    /\ UNCHANGED <<evq, retry, handlers, drv, nvs, restarts>>
    /\ ServersUnchanged /\ GhostsUnchanged

(* Mutant: the count is compared before it is raised. *)
DisconnectedRetryPost ==
    /\ At("ev", "disc_retry")
    /\ IF retry <= WIFI_MAX_RETRY
       THEN /\ retry' = retry + 1
            /\ bits' = bits \cup {"CONNECTING"}
            /\ esp_wifi_connect
            /\ Goto("ev", "idle")
       ELSE retry' = 0 /\ Goto("ev", "ap") /\ UNCHANGED <<bits, drv>>
    /\ UNCHANGED <<evq, handlers, nvs, restarts>>
    /\ ServersUnchanged /\ GhostsUnchanged

DisconnectedRetry ==
    /\ At("ev", "disc_retry")
    /\ IF retry + 1 <= WIFI_MAX_RETRY
       THEN /\ retry' = retry + 1
            /\ bits' = bits \cup {"CONNECTING"}
            /\ esp_wifi_connect
            /\ Goto("ev", "idle")
       ELSE /\ retry' = 0
            /\ Goto("ev", "ap")
            /\ UNCHANGED <<bits, drv>>
    /\ UNCHANGED <<evq, handlers, nvs, restarts>>
    /\ ServersUnchanged /\ GhostsUnchanged

(* stop_dns_server closes the socket under a serving DNS task, which ends;  *)
(* a task that has no socket yet goes on, unknown to s_dns_task.            *)
GotIp(count, cleared) ==
    /\ Dispatch({"GOT_IP"})
    /\ handlers
    /\ retry' = count
    /\ dnsTask' = FALSE
    /\ dns' = IF dns = "serving" THEN "dead" ELSE dns
    /\ http' = FALSE
    /\ bits' = bits \ cleared
    /\ Goto("ev", "ip_ready")
    /\ UNCHANGED <<handlers, drv, nvs, restarts>>
    /\ GhostsUnchanged

(* Mutants: the count goes on, or the loss stays reported. *)
OnGotIpKeepsCount == GotIp(retry, {"LOST", "CONNECTING", "AP_MODE", "AUTH_FAIL"})
OnGotIpKeepsLost == GotIp(0, {"CONNECTING", "AP_MODE", "AUTH_FAIL"})

OnGotIp == GotIp(0, {"LOST", "CONNECTING", "AP_MODE", "AUTH_FAIL"})

GotIpReady ==
    /\ At("ev", "ip_ready")
    /\ bits' = bits \cup {"READY"}
    /\ Goto("ev", "idle")
    /\ UNCHANGED <<evq, retry, handlers, drv, nvs, restarts>>
    /\ ServersUnchanged /\ GhostsUnchanged

wifi_event_handler ==
    \/ Unhandled \/ OnStaStart \/ OnGotIp \/ GotIpReady
    \/ OnDisconnected \/ DisconnectedLost \/ DisconnectedAuth \/ DisconnectedRetry
    \/ start_ap_mode("ev")

wifi_manager_task ==
    \/ LoadCredentials \/ ScanDone \/ RegisterHandlers \/ start_sta_mode
    \/ start_ap_mode("mgr")

-----------------------------------------------------------------------------
(* The captive portal *)

(* A DNS task that gets no socket ends but stays in s_dns_task. *)
DnsOpens ==
    /\ dns = "starting"
    /\ dns' \in {"serving", "dead"}
    /\ UNCHANGED <<bits, pc, evq, retry, http, dnsTask, handlers, drv, nvs, restarts>>
    /\ GhostsUnchanged

(* A datagram shorter than a DNS header ends the loop and the task. *)
DnsRunt ==
    /\ dns = "serving"
    /\ dns' = "dead"
    /\ dnsTask' = FALSE
    /\ UNCHANGED <<bits, pc, evq, retry, http, handlers, drv, nvs, restarts>>
    /\ GhostsUnchanged

(* post_save_handler with an SSID in the form (without one it answers 400   *)
(* and changes nothing): the two strings are stored one after the other,    *)
(* then the board restarts.                                                 *)
SaveSsid(ssid, pass) ==
    /\ At("http", "idle")
    /\ http
    /\ nvs' = [nvs EXCEPT !.ssid = ssid]
    /\ Goto("http", pass)
    /\ UNCHANGED <<bits, evq, retry, handlers, drv, restarts>>
    /\ ServersUnchanged /\ GhostsUnchanged

SavePass ==
    /\ pc.http \in Stored
    /\ nvs' = [nvs EXCEPT !.pass = pc.http]
    /\ Goto("http", "saved")
    /\ UNCHANGED <<bits, evq, retry, handlers, drv, restarts>>
    /\ ServersUnchanged /\ GhostsUnchanged

(* esp_restart at the end of post_save_handler, a panic (every failed       *)
(* ESP_ERROR_CHECK is one) or a loss of power: only the NVS survives.       *)
Restart ==
    /\ restarts < MaxRestarts
    /\ restarts' = restarts + 1
    /\ bits' = {} /\ pc' = Booted /\ evq' = << >> /\ retry' = 0
    /\ http' = FALSE /\ dnsTask' = FALSE /\ dns' = "none"
    /\ handlers' = FALSE /\ drv' = "stopped" /\ reason' = "other" /\ failed' = 0
    /\ UNCHANGED nvs

-----------------------------------------------------------------------------
(* The WiFi driver and the network (external) *)

Post(event) ==
    /\ Len(evq) < EventQueue
    /\ evq' = Append(evq, event)

DriverUnchanged ==
    /\ UNCHANGED <<bits, pc, retry, handlers, nvs, restarts, reason>>
    /\ ServersUnchanged

Associates ==
    /\ drv = "connecting"
    /\ RightCreds
    /\ drv' = "assoc"
    /\ UNCHANGED <<evq, failed>>
    /\ DriverUnchanged

(* A DHCP lease, also a renewed one that changes the address. *)
Leases ==
    /\ drv \in {"assoc", "up"}
    /\ drv' = "up"
    /\ failed' = 0
    /\ Post("GOT_IP")
    /\ DriverUnchanged

LinkFails(states) ==
    /\ drv \in states
    /\ drv' = "sta"
    /\ failed' = failed + 1
    /\ \E r \in Reasons : Post(r)
    /\ DriverUnchanged

(* Every attempt to connect has an outcome, and an association gets an IP   *)
(* address or fails.                                                        *)
AttemptEnds == Associates \/ (drv = "assoc" /\ Leases) \/ LinkFails({"connecting", "assoc"})

Driver == Associates \/ Leases \/ LinkFails({"connecting", "assoc", "up"})

Portal ==
    \/ DnsOpens \/ DnsRunt \/ SavePass
    \/ \E ssid, pass \in {"right", "wrong"} : SaveSsid(ssid, pass)

Next == wifi_manager_task \/ wifi_event_handler \/ Portal \/ Driver \/ Restart

Spec == Init /\ [][Next]_vars

(* Every task that can run is scheduled, and the driver reports on every    *)
(* attempt.                                                                 *)
FairSpec ==
    /\ Spec
    /\ WF_vars(wifi_manager_task)
    /\ WF_vars(wifi_event_handler)
    /\ WF_vars(AttemptEnds)

-----------------------------------------------------------------------------
(* The types of the board: in particular the retry count never passes       *)
(* WIFI_MAX_RETRY and the event queue never its length.                     *)
TypeOK ==
    /\ bits \subseteq Bits
    /\ pc.mgr \in {"load", "scan", "register", "sta", "ap", "ap_serve", "ap_clear", "ap_set", "done"}
    /\ pc.ev \in {"idle", "disc_lost", "disc_auth", "disc_retry", "ip_ready",
                  "ap", "ap_serve", "ap_clear", "ap_set"}
    /\ pc.http \in {"idle", "saved"} \cup Stored
    /\ evq \in Seq(Events) /\ Len(evq) <= EventQueue
    /\ retry \in 0 .. WIFI_MAX_RETRY
    /\ {http, dnsTask, handlers} \subseteq BOOLEAN
    /\ dns \in {"none", "starting", "serving", "dead"}
    /\ drv \in {"stopped", "sta", "connecting", "assoc", "up", "ap"}
    /\ nvs \in [ssid : Stored, pass : Stored]
    /\ reason \in Reasons
    /\ failed \in 0 .. WIFI_MAX_RETRY + 1
    /\ restarts \in 0 .. MaxRestarts

(* WIFI_READY_BIT outlives the link only while the event that reports the   *)
(* loss is on its way to wifi_event_handler.                                *)
ReadyIsRevoked ==
    "READY" \in bits /\ drv # "up" => \E i \in DOMAIN evq : evq[i] \in Reasons

(* When no event is queued or being handled, the mode bits say what the     *)
(* radio does: READY is a station with an address, CONNECTING an attempt    *)
(* under way, AP_MODE the portal's access point; one of them is set.        *)
BitsTellMode ==
    pc.mgr = "done" /\ pc.ev = "idle" /\ evq = << >> =>
        /\ "READY" \in bits <=> drv = "up"
        /\ "CONNECTING" \in bits <=> drv \in {"connecting", "assoc"}
        /\ "AP_MODE" \in bits <=> drv = "ap"
        /\ drv \in {"connecting", "assoc", "up", "ap"}

(* A board with credentials gives up for the access point only after the    *)
(* disconnect and WIFI_MAX_RETRY failed retries, all since the last address.*)
FallbackAfterRetries == pc.ev = "ap" => failed = WIFI_MAX_RETRY + 1

(* A restart at any moment, the one between the two stored strings          *)
(* included, leaves the board able to come up: it always ends with an       *)
(* address or with the portal.                                              *)
ComesUp == []<>("READY" \in bits \/ "AP_MODE" \in bits)

Link == INSTANCE LinkBits WITH
    up <- "READY" \in bits, down <- "LOST" \in bits, owed <- pc.ev = "disc_lost"

(* READY and LOST behave as LinkBits promises the tasks waiting on them:    *)
(* never both, and a loss reported between two addresses.                   *)
ImplementsLink == Link!Spec

(* wifi_manager.h:58: the AUTH_FAIL bit says that the last disconnect was   *)
(* an authentication failure.                                               *)
AuthFailIsLast == pc.ev = "idle" /\ "AUTH_FAIL" \in bits => reason = "auth"

(* wifi_manager.c:64: the DNS server answers every query, so once it serves *)
(* the access point it goes on until the board leaves that mode.            *)
DnsKeepsServing ==
    [][dns = "serving" /\ drv = "ap" /\ restarts' = restarts => dns' = "serving"]_vars
=============================================================================
