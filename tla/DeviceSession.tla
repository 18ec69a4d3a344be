---------------------------- MODULE DeviceSession ---------------------------
(* esp-codes/main/device_session.c: per device a control task that opens    *)
(* and closes the session, a task that forwards the device's frames and one *)
(* that serves the daemon's requests, over what hub_client promises         *)
(* (DaemonLink), the USB device's presence, and the one TCP connection all  *)
(* sessions announce themselves on.                                         *)
EXTENDS Naturals, Sequences

CONSTANTS
    Devices,    \* the device ids with a session
    Hosts, NoAddr,
    Socks,      \* the socket numbers lwIP gives out, again and again
    NoSock,     \* s->sock = -1, s_event_sock = -1
    MaxDrops    \* bound: how often the daemon goes away

ASSUME SessionAssumption ==
    /\ NoAddr \notin Hosts
    /\ MaxDrops \in Nat /\ NoSock \notin Socks

VARIABLES
    up, down, owed, addr, \* the daemon's bits and address
    drops,
    plugged,   \* usb_drv_is_device_ready()
    usbip_mode, \* the devices whose session proxies USB/IP requests
    cpc,       \* session_ctrl_task of each device
    event,     \* the event send_device_event is sending
    sbits,     \* s->eg
    replies,   \* the open reply sockets
    sock,      \* s->sock
    daemon_ip, \* s->daemon_ip
    rpc,       \* session_down_task of each device
    local,     \* the socket session_down_task has read
    upc,       \* session_up_task of each device
    dialling,  \* the socket each control task is connecting
    opened,    \* the open event sockets
    eventSock, \* s_event_sock
    connected, \* s_event_connected
    stream,    \* the events sent on s_event_sock, oldest first
    announced  \* the sessions whose last CONNECT send() took

linkVars == <<up, down, owed, addr, drops>>
eventVars == <<dialling, opened, eventSock, connected, stream>>
downVars == <<rpc, local, upc, usbip_mode>>
vars == <<linkVars, plugged, cpc, event, sbits, replies, sock, daemon_ip, downVars, eventVars, announced>>

Init ==
    /\ up = FALSE /\ down = FALSE /\ owed = FALSE /\ addr = NoAddr /\ drops = 0
    /\ plugged = FALSE
    /\ usbip_mode \in SUBSET Devices
    /\ cpc = [d \in Devices |-> "off"]
    /\ event = [d \in Devices |-> "CONNECT"]
    /\ sbits = [d \in Devices |-> {}]
    /\ replies = {}
    /\ sock = [d \in Devices |-> NoSock]
    /\ daemon_ip = [d \in Devices |-> NoAddr]
    /\ rpc = [d \in Devices |-> "wait_active"]
    /\ local = [d \in Devices |-> NoSock]
    /\ upc = [d \in Devices |-> "wait_active"]
    /\ dialling = [d \in Devices |-> NoSock]
    /\ opened = {} /\ eventSock = NoSock /\ connected = FALSE /\ stream = << >>
    /\ announced = {}

-----------------------------------------------------------------------------
(* hub_client and the USB host (external to this module) *)

Hub == INSTANCE DaemonLink

HubStep ==
    /\ \/ Hub!RaiseUp /\ addr \in Hosts /\ UNCHANGED <<addr, drops>>
       \/ Hub!Withdraw /\ up /\ addr # NoAddr /\ drops < MaxDrops /\ drops' = drops + 1
       \/ Hub!DropUp /\ up /\ addr = NoAddr /\ UNCHANGED <<addr, drops>>
       \/ Hub!RaiseDown /\ owed /\ UNCHANGED <<addr, drops>>
       \/ Hub!DropDown /\ addr \in Hosts /\ UNCHANGED <<addr, drops>>
       \/ Hub!Publish /\ ~owed /\ addr = NoAddr /\ UNCHANGED drops
    /\ UNCHANGED <<plugged, cpc, event, sbits, replies, sock, daemon_ip, downVars, eventVars, announced>>

UsbStep ==
    /\ plugged' = ~plugged
    /\ UNCHANGED <<linkVars, cpc, event, sbits, replies, sock, daemon_ip, downVars, eventVars, announced>>

-----------------------------------------------------------------------------
(* session_ctrl_task *)

FreeSocks == Socks \ (replies \cup opened)

(* close() takes a number, whosever socket that is by now. *)
Close(n) == replies' = replies \ {n} /\ opened' = opened \ {n}

(* The receiving task has made the one step from reading s->sock to its     *)
(* recvfrom() call: assumed of every delay of the control task that is      *)
(* there to let it, and of a new discovery.                                 *)
Settled(d) == rpc[d] # "call"

Go(d, from, to) == cpc[d] = from /\ cpc' = [cpc EXCEPT ![d] = to]

(* The tasks are started, unless the driver's init fails: the id is then    *)
(* taken all the same.                                                      *)
device_session_start(d) ==
    /\ \E to \in {"wait_found", "failed"} : Go(d, "off", to)
    /\ UNCHANGED <<linkVars, plugged, event, sbits, replies, sock, daemon_ip, downVars, eventVars, announced>>

WaitFound(d) ==
    /\ up
    /\ Settled(d)
    /\ Go(d, "wait_found", "stagger")
    /\ UNCHANGED <<linkVars, plugged, event, sbits, replies, sock, daemon_ip, downVars, eventVars, announced>>

(* The address is read after the stagger delay, whatever became of FOUND.   *)
ReadAddress(d) ==
    /\ Go(d, "stagger", "open")
    /\ daemon_ip' = [daemon_ip EXCEPT ![d] = addr]
    /\ UNCHANGED <<linkVars, plugged, event, sbits, replies, sock, downVars, eventVars, announced>>

(* socket(), bind() and setsockopt(): each failure closes what there is and *)
(* starts over.                                                             *)
OpenFails(d) ==
    /\ Go(d, "open", "wait_found")
    /\ UNCHANGED <<linkVars, plugged, event, sbits, replies, sock, daemon_ip, downVars, eventVars, announced>>

OpenReplySocket(d) ==
    /\ Go(d, "open", IF d \in usbip_mode /\ ~plugged THEN "usb_wait" ELSE "announce")
    /\ \E n \in FreeSocks : replies' = replies \cup {n} /\ sock' = [sock EXCEPT ![d] = n]
    /\ event' = [event EXCEPT ![d] = "CONNECT"]
    /\ UNCHANGED <<linkVars, plugged, sbits, daemon_ip, downVars, eventVars, announced>>

(* Mutants: the poll looks only for the device, or only for the loss. *)
UsbPollIgnoresLoss(d) ==
    /\ plugged
    /\ Go(d, "usb_wait", "usb_check")
    /\ UNCHANGED <<linkVars, plugged, event, sbits, replies, sock, daemon_ip, downVars, eventVars, announced>>
UsbPollIgnoresDevice(d) ==
    /\ down
    /\ Go(d, "usb_wait", "usb_check")
    /\ UNCHANGED <<linkVars, plugged, event, sbits, replies, sock, daemon_ip, downVars, eventVars, announced>>

(* The poll for the USB device ends with the device or with DAEMON_LOST. *)
UsbPollEnds(d) ==
    /\ plugged \/ down
    /\ Go(d, "usb_wait", "usb_check")
    /\ UNCHANGED <<linkVars, plugged, event, sbits, replies, sock, daemon_ip, downVars, eventVars, announced>>

(* Mutant: the socket is forgotten, not closed. *)
UsbCheckLeaks(d) ==
    /\ IF down
       THEN Go(d, "usb_check", "wait_found") /\ sock' = [sock EXCEPT ![d] = NoSock]
       ELSE Go(d, "usb_check", "announce") /\ UNCHANGED sock
    /\ UNCHANGED <<linkVars, plugged, event, sbits, replies, daemon_ip, downVars, eventVars, announced>>

(* DAEMON_LOST is read again, and by then may have gone: the session is     *)
(* then announced, device or not.                                           *)
UsbCheck(d) ==
    /\ IF down
       THEN /\ Go(d, "usb_check", "wait_found")
            /\ Close(sock[d])
            /\ sock' = [sock EXCEPT ![d] = NoSock]
       ELSE Go(d, "usb_check", "announce") /\ UNCHANGED <<replies, opened, sock>>
    /\ UNCHANGED <<linkVars, plugged, event, sbits, daemon_ip, downVars,
                   dialling, eventSock, connected, stream, announced>>

ChangeBits(d, from, to, cleared, set) ==
    /\ Go(d, from, to)
    /\ sbits' = [sbits EXCEPT ![d] = (@ \ cleared) \cup set]
    /\ UNCHANGED <<linkVars, plugged, event, replies, sock, daemon_ip, downVars, eventVars, announced>>

(* The session is active after send_device_event(CONNECT), whatever that    *)
(* did.                                                                     *)
ClearSessionLost(d) == ChangeBits(d, "sent_CONNECT", "set_active", {"LOST"}, {})
SetSessionActive(d) == ChangeBits(d, "set_active", "wait_lost", {}, {"ACTIVE"})

(* Mutant: the teardown keeps ACTIVE. *)
WaitLostKeepsActive(d) == down /\ ChangeBits(d, "wait_lost", "set_lost", {}, {})

WaitLost(d) == down /\ ChangeBits(d, "wait_lost", "set_lost", {"ACTIVE"}, {})
SetSessionLost(d) == ChangeBits(d, "set_lost", "close", {}, {"LOST"})

CloseReplySocket(d) ==
    /\ Go(d, "close", "grace")
    /\ Close(sock[d])
    /\ sock' = [sock EXCEPT ![d] = NoSock]
    /\ UNCHANGED <<linkVars, plugged, event, sbits, daemon_ip, downVars,
                   dialling, eventSock, connected, stream, announced>>

(* Mutants: no DISCONNECT is sent; the receiving task is given no time. *)
GraceSilent(d) ==
    /\ Settled(d)
    /\ Go(d, "grace", "sent_DISCONNECT")
    /\ UNCHANGED <<linkVars, plugged, event, sbits, replies, sock, daemon_ip, downVars, eventVars, announced>>
GraceSkipped(d) ==
    /\ Go(d, "grace", "announce")
    /\ event' = [event EXCEPT ![d] = "DISCONNECT"]
    /\ UNCHANGED <<linkVars, plugged, sbits, replies, sock, daemon_ip, downVars, eventVars, announced>>

(* The 1.5 s after the close, then send_device_event(DISCONNECT). *)
Grace(d) ==
    /\ Settled(d)
    /\ Go(d, "grace", "announce")
    /\ event' = [event EXCEPT ![d] = "DISCONNECT"]
    /\ UNCHANGED <<linkVars, plugged, sbits, replies, sock, daemon_ip, downVars, eventVars, announced>>

EndSession(d) == ChangeBits(d, "sent_DISCONNECT", "wait_found", {"LOST"}, {})

-----------------------------------------------------------------------------
(* send_device_event and ensure_event_tcp_connected. s_event_sock and       *)
(* s_event_connected are shared by all sessions, without a lock.            *)

Sent(d) == IF event[d] = "CONNECT" THEN "sent_CONNECT" ELSE "sent_DISCONNECT"

EventUnchanged == UNCHANGED <<linkVars, plugged, event, sbits, sock, daemon_ip, downVars>>

CheckConnection(d) ==
    /\ IF eventSock # NoSock /\ connected
       THEN Go(d, "announce", "send") /\ UNCHANGED <<replies, opened>>
       ELSE Go(d, "announce", "dial_new") /\ Close(eventSock)
    /\ UNCHANGED <<dialling, eventSock, connected, stream, announced>>
    /\ EventUnchanged

NewEventSocket(d) ==
    /\ \/ /\ Go(d, "dial_new", "dial")
          /\ \E n \in FreeSocks : eventSock' = n /\ opened' = opened \cup {n}
          /\ stream' = << >>
          /\ UNCHANGED connected
       \/ /\ Go(d, "dial_new", "send")
          /\ eventSock' = NoSock
          /\ connected' = FALSE
          /\ UNCHANGED <<opened, stream>>
    /\ UNCHANGED <<replies, dialling, announced>>
    /\ EventUnchanged

(* connect() is called with the s_event_sock of this moment. *)
Dial(d) ==
    /\ Go(d, "dial", "dialling")
    /\ dialling' = [dialling EXCEPT ![d] = eventSock]
    /\ UNCHANGED <<replies, opened, eventSock, connected, stream, announced>>
    /\ EventUnchanged

DropEventSocket ==
    /\ Close(eventSock)
    /\ eventSock' = NoSock
    /\ connected' = FALSE
    /\ UNCHANGED stream

(* connect() blocks until it succeeds, which takes an open socket and a     *)
(* daemon's address, or fails.                                              *)
DialEnds(d) ==
    /\ Go(d, "dialling", "send")
    /\ \/ /\ dialling[d] \in opened
          /\ daemon_ip[d] \in Hosts
          /\ connected' = TRUE
          /\ UNCHANGED <<replies, opened, eventSock, stream>>
       \/ DropEventSocket
    /\ dialling' = [dialling EXCEPT ![d] = NoSock]
    /\ UNCHANGED announced
    /\ EventUnchanged

SendEvent(d) ==
    /\ Go(d, "send", Sent(d))
    /\ \/ /\ eventSock \in opened /\ connected
          /\ stream' = Append(stream, <<d, event[d]>>)
          /\ announced' = IF event[d] = "CONNECT" THEN announced \cup {d} ELSE announced \ {d}
          /\ UNCHANGED <<replies, opened, eventSock, connected>>
       \/ /\ eventSock # NoSock /\ connected
          /\ DropEventSocket
          /\ announced' = announced \ {d}
       \/ /\ eventSock = NoSock \/ ~connected
          /\ announced' = announced \ {d}
          /\ UNCHANGED <<replies, opened, eventSock, connected, stream>>
    /\ UNCHANGED dialling
    /\ EventUnchanged

session_ctrl_task(d) ==
    \/ device_session_start(d) \/ WaitFound(d) \/ ReadAddress(d) \/ OpenFails(d) \/ OpenReplySocket(d)
    \/ UsbPollEnds(d) \/ UsbCheck(d)
    \/ ClearSessionLost(d) \/ SetSessionActive(d) \/ WaitLost(d) \/ SetSessionLost(d)
    \/ CloseReplySocket(d) \/ Grace(d) \/ EndSession(d)
    \/ CheckConnection(d) \/ NewEventSocket(d) \/ Dial(d) \/ DialEnds(d) \/ SendEvent(d)

-----------------------------------------------------------------------------
(* session_down_task *)

Down(d, from, to) ==
    /\ rpc[d] = from
    /\ rpc' = [rpc EXCEPT ![d] = to]
    /\ UNCHANGED <<linkVars, plugged, cpc, event, sbits, replies, sock, daemon_ip, eventVars, announced>>
    /\ UNCHANGED <<upc, usbip_mode>>

WaitActive(d) ==
    /\ "ACTIVE" \in sbits[d] /\ Down(d, "wait_active", "read_sock")
    /\ UNCHANGED local

ReadSock(d) ==
    /\ Down(d, "read_sock", IF sock[d] = NoSock THEN "wait_active" ELSE "call")
    /\ local' = [local EXCEPT ![d] = sock[d]]

(* The number may have been closed, and given out again, since it was read: *)
(* an event socket has no timeout and never brings anything.                *)
CallRecv(d) ==
    /\ Down(d, "call", IF local[d] \in opened THEN "stuck" ELSE "recv")
    /\ UNCHANGED local

(* The 1 s timeout, or an error because the socket is closed: the loop ends *)
(* with SESSION_LOST_BIT.                                                   *)
RecvNothing(d) ==
    /\ Down(d, "recv", IF "LOST" \in sbits[d] THEN "wait_active" ELSE "read_sock")
    /\ UNCHANGED local

(* A datagram on the open socket: a runt, an unknown command or a fragment  *)
(* of a USB/IP request is skipped, a request is handled.                    *)
RecvDatagram(d) ==
    /\ local[d] \in replies
    /\ \E to \in {"read_sock", "transfer"} : Down(d, "recv", to)
    /\ UNCHANGED local

(* usb_handle_submit, or the driver's send: the transfer takes up to 2 s    *)
(* and the answer, if any, leaves on the s->sock of that moment.            *)
HandleSubmit(d) == Down(d, "transfer", "read_sock") /\ UNCHANGED local

session_down_task(d) ==
    WaitActive(d) \/ ReadSock(d) \/ CallRecv(d) \/ RecvNothing(d) \/ RecvDatagram(d) \/ HandleSubmit(d)

-----------------------------------------------------------------------------
(* session_up_task *)

Up(d, from, to) ==
    /\ upc[d] = from
    /\ upc' = [upc EXCEPT ![d] = to]
    /\ UNCHANGED <<linkVars, plugged, cpc, event, sbits, replies, sock, daemon_ip, eventVars, announced>>
    /\ UNCHANGED <<rpc, local, usbip_mode>>

(* In USB/IP mode the task has nothing to forward and waits for the end.    *)
UpWaitActive(d) ==
    "ACTIVE" \in sbits[d] /\ Up(d, "wait_active", IF d \in usbip_mode THEN "wait_lost" ELSE "forward")

UpWaitLost(d) == "LOST" \in sbits[d] /\ Up(d, "wait_lost", "wait_active")

(* The check of SESSION_LOST_BIT, then a frame of the device or the         *)
(* driver's timeout of 1 s.                                                 *)
UpRecv(d) ==
    \E to \in IF "LOST" \in sbits[d] THEN {"wait_active"} ELSE {"forward", "send"} : Up(d, "forward", to)

(* send_raw, on the s->sock of the moment. *)
UpSend(d) == Up(d, "send", IF sock[d] = NoSock THEN "wait_active" ELSE "forward")

session_up_task(d) ==
    UpWaitActive(d) \/ UpWaitLost(d) \/ UpRecv(d) \/ UpSend(d)

-----------------------------------------------------------------------------
Next ==
    \/ HubStep \/ UsbStep
    \/ \E d \in Devices : session_ctrl_task(d) \/ session_down_task(d) \/ session_up_task(d)

Spec == Init /\ [][Next]_vars

(* The tasks are scheduled, connect() returns, and opening the reply socket *)
(* does not fail for ever. Nothing is asked of the daemon or the network.   *)
FairSpec ==
    /\ Spec
    /\ \A d \in Devices :
        /\ WF_vars(session_ctrl_task(d))
        /\ WF_vars(session_down_task(d))
        /\ WF_vars(session_up_task(d))
        /\ SF_vars(OpenReplySocket(d))

-----------------------------------------------------------------------------
(* The types of the tasks and sockets: every open reply socket is the one   *)
(* of its session, and no number is two sockets at once.                    *)
TypeOK ==
    /\ {up, down, owed, plugged, connected} \subseteq BOOLEAN
    /\ addr \in Hosts \cup {NoAddr}
    /\ drops \in 0 .. MaxDrops
    /\ cpc \in [Devices -> {"off", "failed", "wait_found", "stagger", "open", "usb_wait", "usb_check",
                            "announce", "dial_new", "dial", "dialling", "send", "sent_CONNECT", "set_active", "wait_lost", "set_lost",
                            "close", "grace", "sent_DISCONNECT"}]
    /\ event \in [Devices -> {"CONNECT", "DISCONNECT"}]
    /\ sbits \in [Devices -> SUBSET {"ACTIVE", "LOST"}]
    /\ {sock, local, dialling} \subseteq [Devices -> Socks \cup {NoSock}]
    /\ daemon_ip \in [Devices -> Hosts \cup {NoAddr}]
    /\ rpc \in [Devices -> {"wait_active", "read_sock", "call", "recv", "stuck", "transfer"}]
    /\ upc \in [Devices -> {"wait_active", "wait_lost", "forward", "send"}]
    /\ usbip_mode \subseteq Devices
    /\ {replies, opened} \subseteq SUBSET Socks
    /\ replies \subseteq {sock[d] : d \in Devices} /\ replies \cap opened = {}
    /\ eventSock \in Socks \cup {NoSock}
    /\ stream \in Seq(Devices \X {"CONNECT", "DISCONNECT"})
    /\ announced \subseteq Devices

(* A session other tasks see as active has its reply socket open, up to the *)
(* teardown that has withdrawn the bit first, whatever numbers are closed   *)
(* and given out again; and a session is never active and lost at once.     *)
ActiveHasSocket ==
    \A d \in Devices : "ACTIVE" \in sbits[d] => sock[d] \in replies /\ "LOST" \notin sbits[d]

(* The receiving task never calls recvfrom() on a number that was its reply *)
(* socket and has become the event connection, where it would wait without  *)
(* end: this rests on the 1.5 s between close() and the next event.         *)
ReceivesOnReplySocket == \A d \in Devices : rpc[d] # "stuck"

(* On one TCP connection the daemon gets a device's CONNECTs and            *)
(* DISCONNECTs in turn, starting with a CONNECT or with the DISCONNECT of   *)
(* an earlier connection's session: no CONNECT follows a CONNECT.           *)
StreamAlternates ==
    \A i, j \in DOMAIN stream :
        /\ i < j
        /\ stream[i][1] = stream[j][1]
        /\ \A k \in i + 1 .. j - 1 : stream[k][1] # stream[i][1]
        => stream[i][2] # stream[j][2]

(* device_session.h: sessions may be started for several device ids; the    *)
(* connection they share leaves no event socket open but s_event_sock.      *)
NoEventSocketLeak == opened \subseteq {eventSock}

(* A loss of the daemon that lasts ends every session, wherever it was in   *)
(* its setup, and brings the receiving task back to waiting.                *)
LossEndsSession ==
    <>[]down => \A d \in Devices :
        <>[]("ACTIVE" \notin sbits[d] /\ sock[d] = NoSock /\ rpc[d] = "wait_active")

(* A daemon that stays found and a USB device that stays plugged in get a   *)
(* session, and it stays, unless the driver could not be started.           *)
SessionComesUp ==
    <>[](up /\ plugged) =>
        \A d \in Devices : <>[]("ACTIVE" \in sbits[d]) \/ <>(cpc[d] = "failed")

(* device_session.h:11: SESSION_ACTIVE_BIT says that CONNECT was sent. *)
ActiveMeansConnectSent == \A d \in Devices : "ACTIVE" \in sbits[d] => d \in announced
=============================================================================
