---------------------------- MODULE DaemonProofs ----------------------------
(***************************************************************************)
(* The safety theorems of the daemon, for every number of devices,         *)
(* connections, descriptors, ports and queued packets, every batch size,   *)
(* and for both values of AcceptWatched.                                   *)
(*                                                                         *)
(* The inductive invariant IInv adds to the registry of RegistryProofs     *)
(* that the handler the loop sits in has a live session, and that a        *)
(* connection in the backlog belongs to nobody: without the latter accept  *)
(* could hand one connection to two owners.                                *)
(***************************************************************************)
EXTENDS Daemon, RegistryProofs, FiniteSetTheorems

(* The backlog, next to the connections in own. *)
Waiting(own) ==
  /\ \A i, j \in DOMAIN backlog : backlog[i] = backlog[j] => i = j
  /\ \A i \in DOMAIN backlog : backlog[i] \notin own /\ peer[backlog[i]] # "none"
  /\ \A c \in own : peer[c] # "none"

IInv ==
  /\ TypeOK
  /\ Registry(proc, {}, {})
  /\ blocked # None => blocked \in Live(proc)
  /\ Waiting(OwnedIn(proc))

(* Fewer connections owned, the rest of the world as it was. *)
LEMMA WaitingShrinks ==
  ASSUME NEW own, NEW own2, own2 \subseteq own, Waiting(own)
  PROVE  Waiting(own2)
BY Zenon DEF Waiting

(* A process that owns nothing and has every table empty. *)
LEMMA EmptyRegistry ==
  ASSUME NEW ports \in PortTable, NEW q, q = EmptyProcess(ports)
  PROVE  Registry(q, {}, {}) /\ OwnedIn(q) = {}
<1>1. /\ q.open = {} /\ q.epoll = {} /\ q.rx = {} /\ q.eof = {} /\ q.ports = ports
      /\ q.sessions = [d \in Devices |-> None] /\ q.pending = [f \in Fds |-> None]
      /\ q.vhci_fd_map = [f \in Fds |-> None] /\ q.tcp_fd_map = [f \in Fds |-> None]
  BY DEF EmptyProcess
<1>2. q = [open |-> {}, epoll |-> {}, rx |-> {}, eof |-> {}, ports |-> ports,
           sessions |-> [d \in Devices |-> None],
           vhci_fd_map |-> [f \in Fds |-> None], tcp_fd_map |-> [f \in Fds |-> None],
           pending |-> [f \in Fds |-> None]]
  BY DEF EmptyProcess
<1>3. q \in Process
  BY <1>2 DEF Process
<1>4. Live(q) = {} /\ \A f \in Fds : q.pending[f] = None
  BY <1>1 DEF Live
<1>5. SessionsOK(q) /\ AllApart(q) /\ ClearOf(q, {}, {}) /\ PendingOK(q, {}, {})
  BY <1>4 DEF SessionsOK, AllApart, ClearOf, PendingOK
<1>6. NoLeak(q, {}) /\ VhciMapOK(q) /\ TcpMapOK(q)
  BY <1>1 DEF NoLeak, VhciMapOK, TcpMapOK
<1>7. OwnedIn(q) = {}
  BY <1>4 DEF OwnedIn
<1> QED BY <1>3, <1>5, <1>6, <1>7 DEF Registry

(* The invariant holds when main enters its loop. *)
LEMMA InitIInv == Init => IInv
<1> SUFFICES ASSUME Init PROVE IInv
  OBVIOUS
<1>1. PICK ports : ports = [i \in Ports |-> FALSE]
  BY Zenon
<1>2. ports \in PortTable
  BY <1>1 DEF PortTable
<1>3. proc = EmptyProcess(ports)
  BY <1>1 DEF Init
<1>4. Registry(proc, {}, {}) /\ OwnedIn(proc) = {}
  BY <1>2, <1>3, EmptyRegistry, Zenon
<1>5. TypeOK
  BY <1>4 DEF Init, TypeOK, Registry
<1>6. Waiting({})
  BY DEF Init, Waiting
<1> QED BY <1>4, <1>5, <1>6, Zenon DEF Init, IInv

(* The end of the process, or its end and a new start. *)
LEMMA ExitIInv ==
  ASSUME NEW how \in {"up", "down", "killed"}, NEW ports \in PortTable, Exit(how, ports)
  PROVE  IInv'
<1>1. Registry(proc', {}, {}) /\ OwnedIn(proc') = {}
  BY EmptyRegistry DEF Exit
<1>2. TypeOK'
  BY <1>1 DEF Exit, TypeOK, Registry
<1>3. Waiting(OwnedIn(proc))'
  BY <1>1 DEF Exit, Waiting
<1> QED BY <1>1, <1>2, <1>3 DEF Exit, IInv

(* The events epoll reports are finitely many and well typed. *)
LEMMA ReadyFinite ==
  ASSUME TypeOK
  PROVE  ReadyEvents \subseteq Event /\ Cardinality(ReadyEvents) \in Nat
<1>1. proc.epoll \subseteq Fds
  BY DEF TypeOK, Process
<1>2. ReadyEvents \subseteq Event
  <2>1. \A f \in Fds \cup {Listen}, h \in BOOLEAN : [fd |-> f, hup |-> h] \in Event
    BY DEF Event
  <2> QED BY <1>1, <2>1, Zenon DEF ReadyEvents
<1> DEFINE f == [e \in ReadyEvents |-> IF e.hup THEN 2 * e.fd + 1 ELSE 2 * e.fd]
<1>3. Fds \cup {Listen} \subseteq 0 .. MaxFd /\ MaxFd \in Nat
  BY HubAssumption DEF Fds, Listen
<1>4. \A e \in Event : e.fd \in 0 .. MaxFd /\ e.hup \in BOOLEAN
                       /\ e = [fd |-> e.fd, hup |-> e.hup]
  BY <1>3 DEF Event
<1>5. f \in Injection(ReadyEvents, 0 .. 2 * MaxFd + 1)
  <2>1. f \in [ReadyEvents -> 0 .. 2 * MaxFd + 1]
    BY <1>2, <1>3, <1>4
  <2>2. \A a, b \in ReadyEvents : f[a] = f[b] => a = b
    BY <1>2, <1>3, <1>4
  <2> QED BY <2>1, <2>2 DEF Injection, IsInjective
<1>6. IsFiniteSet(0 .. 2 * MaxFd + 1)
  BY <1>3, FS_Interval
<1>7. IsFiniteSet(ReadyEvents)
  <2> HIDE DEF f
  <2> QED BY <1>5, <1>6, FS_Injection
<1> QED BY <1>2, <1>7, FS_CardinalityType

-----------------------------------------------------------------------------
(* One lemma per action, on top of the following three. *)

(* A step that leaves the backlog and the peers alone and lets the process
   own no more than it did. *)
LEMMA ProcStep ==
  ASSUME IInv, Registry(proc', {}, {}), OwnedIn(proc') \subseteq OwnedIn(proc),
         UNCHANGED <<backlog, peer>>,
         status' \in {"up", "stopping", "down", "killed"},
         batch' \in Seq(Event),
         blocked' \in Devices \cup {None},
         blocked' # None => blocked' \in Live(proc'),
         inq' \in [Conns -> Seq(Packet)]
  PROVE  IInv'
<1>1. Waiting(OwnedIn(proc'))
  BY WaitingShrinks, Zenon DEF IInv
<1>2. Waiting(OwnedIn(proc))'
  BY <1>1, Zenon DEF Waiting
<1>3. TypeOK'
  BY Zenon DEF IInv, TypeOK, Registry
<1> QED BY <1>2, <1>3, Zenon DEF IInv

(* Head and tail of a sequence that is not empty. *)
LEMMA HeadTail ==
  ASSUME NEW S, NEW s \in Seq(S), s # <<>>
  PROVE  Head(s) \in S /\ Tail(s) \in Seq(S)
OBVIOUS

(* What a handler knows of the event it serves. *)
LEMMA DispatchFacts ==
  ASSUME IInv, Dispatching
  PROVE  /\ Ev \in Event /\ Tail(batch) \in Seq(Event)
         /\ Ev.fd # Listen => Ev.fd \in Fds
         /\ blocked = None /\ status \in {"up", "stopping"}
<1>1. batch \in Seq(Event) /\ batch # <<>>
  BY Zenon DEF IInv, TypeOK, Dispatching
<1>2. Ev \in Event /\ Tail(batch) \in Seq(Event)
  BY <1>1, HeadTail, Zenon DEF Ev
<1>3. Ev.fd # Listen => Ev.fd \in Fds
  BY <1>2 DEF Event
<1> QED BY <1>2, <1>3, Zenon DEF Dispatching, Running

(* A batch of events touches no table. *)
LEMMA EpollWaitOK == ASSUME IInv, EpollWait PROVE IInv'
<1>1. ReadyEvents \subseteq Event /\ Cardinality(ReadyEvents) \in Nat
  BY ReadyFinite, Zenon DEF IInv
<1>2. PICK n : n = Min({MAX_EVENTS, Cardinality(ReadyEvents)})
  OBVIOUS
<1>3. n \in Nat
  <2>1. MAX_EVENTS \in Nat
    BY DaemonAssumption
  <2>2. n \in {MAX_EVENTS, Cardinality(ReadyEvents)}
    <3>1. PICK S : S = {MAX_EVENTS, Cardinality(ReadyEvents)}
      BY Zenon
    <3>2. S \subseteq Nat /\ S # {}
      BY <1>1, <2>1, <3>1
    <3> QED BY <1>2, <3>1, <3>2, MinInSet, Zenon
  <2> QED BY <1>1, <2>1, <2>2
<1>4. batch' \in [1 .. n -> ReadyEvents]
  BY <1>2, Zenon DEF EpollWait, Injection
<1>5. batch' \in [1 .. n -> Event]
  BY <1>1, <1>4
<1>6. batch' \in Seq(Event)
  BY <1>3, <1>5
<1>7. proc' = proc /\ UNCHANGED <<status, blocked, backlog, peer, inq>>
  BY Zenon DEF EpollWait
<1> QED BY <1>6, <1>7, ProcStep, Zenon DEF IInv, TypeOK

(* An accepted connection moves from the backlog to the pending sockets,    *)
(* and nowhere else.                                                        *)
LEMMA OnTcpAcceptOK == ASSUME IInv, OnTcpAccept PROVE IInv'
<1>1. /\ batch' \in Seq(Event) /\ blocked' = None /\ status' = status
      /\ UNCHANGED <<peer, inq>> /\ backlog # <<>> /\ Registry(proc, {}, {})
      /\ Waiting(OwnedIn(proc)) /\ backlog \in Seq(Conns)
  BY DispatchFacts, Zenon DEF OnTcpAccept, Dispatch, IInv, TypeOK
<1>2. CASE FreeFds(proc) = {}
  <2>1. proc' = proc /\ backlog' = backlog
    BY <1>2, Zenon DEF OnTcpAccept
  <2> QED BY <1>1, <2>1, ProcStep, Zenon DEF IInv, TypeOK
<1>3. CASE FreeFds(proc) # {}
  <2>1. PICK fd, c, q : fd = NewFd(proc) /\ c = Head(backlog) /\ q = AddPending(proc, fd, c)
    OBVIOUS
  <2>2. fd \in FreeFds(proc)
    <3>1. FreeFds(proc) \subseteq Nat
      BY HubAssumption DEF FreeFds, Fds
    <3> QED BY <1>3, <2>1, <3>1, MinInSet, Zenon DEF NewFd
  <2>3. c = backlog[1] /\ 1 \in DOMAIN backlog /\ c \in Conns
    BY <1>1, <2>1
  <2>4. c \in Conns \ OwnedIn(proc) /\ peer[c] # "none"
    BY <1>1, <2>3 DEF Waiting
  <2>5. Registry(q, {}, {}) /\ OwnedIn(q) \subseteq OwnedIn(proc) \cup {c}
    BY <1>1, <2>1, <2>2, <2>4, AcceptOK, Zenon
  <2>6. /\ backlog' = Tail(backlog)
        /\ proc' = IF AcceptWatched THEN Watch(q, fd) ELSE q
    BY <1>3, <2>1, Zenon DEF OnTcpAccept
  <2>7. Registry(proc', {}, {}) /\ OwnedIn(proc') = OwnedIn(q)
    <3>1. q \in Process /\ fd \in Fds
      BY <2>2, <2>5, Zenon DEF Registry, FreeFds
    <3>2. CASE AcceptWatched
      <4>1. Alike(q, proc')
        BY <2>6, <3>1, <3>2, WatchIsAlike, Zenon
      <4> QED BY <2>5, <4>1, AlikeKeepsRegistry, Zenon
    <3>3. CASE ~AcceptWatched
      BY <2>5, <2>6, <3>3, Zenon
    <3> QED BY <3>2, <3>3
  <2>8. /\ backlog' \in Seq(Conns) /\ DOMAIN backlog' = 1 .. Len(backlog) - 1
        /\ \A i \in DOMAIN backlog' : backlog'[i] = backlog[i + 1] /\ i + 1 \in DOMAIN backlog
    BY <1>1, <2>6
  <2>9. Waiting(OwnedIn(proc))'
    <3>1. \A i, j \in DOMAIN backlog' : backlog'[i] = backlog'[j] => i = j
      BY <1>1, <2>8 DEF Waiting
    <3>2. \A i \in DOMAIN backlog' : backlog'[i] # c
      BY <1>1, <2>3, <2>8 DEF Waiting
    <3>3. \A i \in DOMAIN backlog' : backlog'[i] \notin OwnedIn(proc) /\ peer[backlog'[i]] # "none"
      <4> TAKE i \in DOMAIN backlog'
      <4>1. PICK j \in DOMAIN backlog : backlog'[i] = backlog[j]
        BY <2>8
      <4> QED BY <1>1, <4>1, Zenon DEF Waiting
    <3>4. \A d \in OwnedIn(proc) : peer[d] # "none"
      BY <1>1, Zenon DEF Waiting
    <3>5. \A d \in OwnedIn(proc') : d = c \/ d \in OwnedIn(proc)
      BY <2>5, <2>7
    <3> QED BY <1>1, <2>4, <3>1, <3>2, <3>3, <3>4, <3>5, Zenon DEF Waiting
  <2>10. TypeOK'
    <3>1. proc' \in Process
      BY <2>7, Zenon DEF Registry
    <3>2. /\ status' \in {"up", "stopping", "down", "killed"}
          /\ blocked' \in Devices \cup {None}
      BY <1>1 DEF IInv, TypeOK
    <3>3. peer' \in [Conns -> {"none", "open", "closed"}] /\ inq' \in [Conns -> Seq(Packet)]
      BY <1>1, Zenon DEF IInv, TypeOK
    <3> QED BY <1>1, <2>8, <3>1, <3>2, <3>3, Zenon DEF TypeOK
  <2> QED BY <1>1, <2>7, <2>9, <2>10, Zenon DEF IInv
<1> QED BY <1>2, <1>3, Zenon

(* A handler that replaces the process and at most takes a packet. *)
LEMMA HandlerStep ==
  ASSUME IInv, Dispatch, Registry(proc', {}, {}), OwnedIn(proc') \subseteq OwnedIn(proc),
         UNCHANGED <<status, blocked, backlog, peer>>, inq' \in [Conns -> Seq(Packet)]
  PROVE  IInv'
<1>1. /\ batch' \in Seq(Event) /\ blocked' = None
      /\ status' \in {"up", "stopping", "down", "killed"}
  BY DispatchFacts DEF Dispatch
<1>2. blocked' \in Devices \cup {None}
  BY <1>1
<1> QED BY <1>1, <1>2, ProcStep, Zenon

(* A lookup by TCP descriptor hands out devices, also through a dead        *)
(* pointer.                                                                 *)
LEMMA FoundByTcp ==
  ASSUME NEW p \in Process, NEW fd \in Fds
  PROVE  findByTcpFd(p, fd) \subseteq Devices
<1>1. p.tcp_fd_map[fd] \in Devices \cup {None, Freed}
  BY DEF Process
<1> QED BY <1>1 DEF findByTcpFd

(* The hang-up of a TCP socket removes a whole session, whichever it hits. *)
LEMMA OnTcpHangupOK == ASSUME IInv, OnTcpHangup PROVE IInv'
<1>1. /\ Dispatch /\ Registry(proc, {}, {}) /\ proc \in Process
      /\ Ev.fd \in Fds /\ inq \in [Conns -> Seq(Packet)]
      /\ UNCHANGED <<status, blocked, backlog, peer, inq>>
  BY DispatchFacts, Zenon DEF OnTcpHangup, Dispatch, KnownTcp, IInv, TypeOK
<1>2. PICK d \in findByTcpFd(proc, Ev.fd) : proc' = removeSession(proc, d)
  BY Zenon DEF OnTcpHangup
<1>3. d \in Devices
  BY <1>1, <1>2, FoundByTcp
<1>4. Registry(proc', {}, {}) /\ OwnedIn(proc') \subseteq OwnedIn(proc)
  BY <1>1, <1>2, <1>3, RemoveSessionOK, Zenon
<1> QED BY <1>1, <1>4, HandlerStep, Zenon

(* A fault ends the process. *)
LEMMA TouchesFreedSessionOK == ASSUME IInv, TouchesFreedSession PROVE IInv'
<1>1. proc.ports \in PortTable
  BY DEF IInv, TypeOK, Process
<1> QED BY <1>1, ExitIInv DEF TouchesFreedSession

(* A stale event of an unknown descriptor changes nothing. *)
LEMMA OnUnknownFdOK == ASSUME IInv, OnUnknownFd PROVE IInv'
<1>1. /\ Dispatch /\ Registry(proc, {}, {}) /\ inq \in [Conns -> Seq(Packet)]
      /\ UNCHANGED <<proc, status, blocked, backlog, peer, inq>>
  BY Zenon DEF OnUnknownFd, IInv, TypeOK
<1> QED BY <1>1, HandlerStep, Zenon

(* A failed read releases a pending socket or a whole session. *)
LEMMA OnTcpReadFailsOK == ASSUME IInv, OnTcpReadFails PROVE IInv'
<1>1. /\ Dispatch /\ Dispatching /\ Registry(proc, {}, {}) /\ proc \in Process
      /\ inq \in [Conns -> Seq(Packet)]
      /\ UNCHANGED <<status, blocked, backlog, peer, inq>>
  BY Zenon DEF OnTcpReadFails, Dispatch, IInv, TypeOK
<1>2. Ev.fd \in Fds
  <2>1. Ev.fd # Listen
    BY DEF OnTcpReadFails, CallsOnTcpReadable, KnownTcp, Unknown
  <2> QED BY <1>1, <2>1, DispatchFacts, Zenon
<1>3. CASE proc.pending[Ev.fd] # None /\ proc' = ErasePending(proc, Ev.fd)
  <2>1. PICK r, c, t : t = Ev.fd /\ r = extractPendingSocket(proc, t) /\ c = proc.pending[t]
    OBVIOUS
  <2>2. t \in Fds /\ Registry(r, {t}, {c}) /\ OwnedIn(r) \subseteq OwnedIn(proc)
    BY <1>1, <1>2, <1>3, <2>1, ExtractOK, Zenon
  <2>3. proc' = CloseFds(r, {t})
    BY <1>3, <2>1, Zenon DEF ErasePending
  <2>4. Registry(proc', {}, {}) /\ OwnedIn(proc') = OwnedIn(r)
    BY <2>2, <2>3, ReleaseOK, Zenon
  <2>5. OwnedIn(proc') \subseteq OwnedIn(proc)
    BY <2>2, <2>4, Zenon
  <2> QED BY <1>1, <2>4, <2>5, HandlerStep, Zenon
<1>4. CASE \E d \in findByTcpFd(proc, Ev.fd), detached \in BOOLEAN :
             proc' = onDisconnect(proc, d, detached)
  <2>1. PICK d \in findByTcpFd(proc, Ev.fd), detached \in BOOLEAN :
             proc' = onDisconnect(proc, d, detached)
    BY <1>4, Zenon
  <2>2. d \in Devices
    BY <1>1, <1>2, <2>1, FoundByTcp
  <2>3. Registry(proc', {}, {}) /\ OwnedIn(proc') \subseteq OwnedIn(proc)
    BY <1>1, <2>1, <2>2, DisconnectOK, Zenon
  <2> QED BY <1>1, <2>3, HandlerStep, Zenon
<1> QED BY <1>3, <1>4, Zenon DEF OnTcpReadFails

(* What reading a packet leaves behind, and what is known of the packet. *)
LEMMA ReadFacts ==
  ASSUME IInv, NEW c \in Conns, Readable(c)
  PROVE  /\ Head(inq[c]) \in Packet
         /\ [inq EXCEPT ![c] = Tail(@)] \in [Conns -> Seq(Packet)]
<1>1. inq \in [Conns -> Seq(Packet)] /\ inq[c] \in Seq(Packet) /\ inq[c] # <<>>
  BY DEF IInv, TypeOK, Readable
<1>2. Head(inq[c]) \in Packet /\ Tail(inq[c]) \in Seq(Packet)
  BY <1>1, HeadTail, Zenon
<1> QED BY <1>1, <1>2

(* CONNECT replaces the session of its device, on each of its error paths. *)
LEMMA OnConnectOK == ASSUME IInv, NEW c \in Conns, OnConnect(c) PROVE IInv'
<1>1. /\ Dispatch /\ Readable(c) /\ Registry(proc, {}, {})
      /\ inq' = [inq EXCEPT ![c] = Tail(@)]
      /\ UNCHANGED <<status, blocked, backlog, peer>>
  BY Zenon DEF OnConnect, Reads, IInv
<1>2. Head(inq[c]) \in Packet /\ inq' \in [Conns -> Seq(Packet)]
  BY <1>1, ReadFacts, Zenon
<1>3. PICK dev : dev = Head(inq[c]).dev
  OBVIOUS
<1>4. dev \in Devices
  BY <1>2, <1>3 DEF Packet
<1>5. PICK detached \in BOOLEAN, attached \in BOOLEAN :
        proc' = onConnectPacket(proc, Ev.fd, dev, detached, attached)
  <2>1. \E detached, attached \in BOOLEAN :
          proc' = onConnectPacket(proc, Ev.fd, Head(inq[c]).dev, detached, attached)
    BY Zenon DEF OnConnect
  <2> QED BY <1>3, <2>1
<1>6. Registry(proc', {}, {}) /\ OwnedIn(proc') \subseteq OwnedIn(proc)
  <2>1. PICK fd, q : fd = Ev.fd /\ q = proc'
    OBVIOUS
  <2>2. q = onConnectPacket(proc, fd, dev, detached, attached)
    BY <1>5, <2>1, Zenon
  <2>3. Registry(q, {}, {}) /\ OwnedIn(q) \subseteq OwnedIn(proc)
    BY <1>1, <1>4, <1>5, <2>2, ConnectOK, Zenon
  <2> QED BY <2>1, <2>3, Zenon
<1> QED BY <1>1, <1>2, <1>6, HandlerStep, Zenon

(* DISCONNECT removes the session of its device. *)
LEMMA OnDisconnectOK == ASSUME IInv, NEW c \in Conns, OnDisconnect(c) PROVE IInv'
<1>1. /\ Dispatch /\ Readable(c) /\ Registry(proc, {}, {})
      /\ inq' = [inq EXCEPT ![c] = Tail(@)]
      /\ UNCHANGED <<status, blocked, backlog, peer>>
  BY Zenon DEF OnDisconnect, Reads, IInv
<1>2. Head(inq[c]) \in Packet /\ inq' \in [Conns -> Seq(Packet)]
  BY <1>1, ReadFacts, Zenon
<1>3. PICK dev : dev = Head(inq[c]).dev
  OBVIOUS
<1>4. dev \in Devices
  BY <1>2, <1>3 DEF Packet
<1>5. PICK detached \in BOOLEAN : proc' = onDisconnect(proc, dev, detached)
  BY <1>3, Zenon DEF OnDisconnect
<1>6. Registry(proc', {}, {}) /\ OwnedIn(proc') \subseteq OwnedIn(proc)
  BY <1>1, <1>4, <1>5, DisconnectOK, Zenon
<1> QED BY <1>1, <1>2, <1>6, HandlerStep, Zenon

(* Data and log packets leave the registry alone. *)
LEMMA OnDataOK ==
  ASSUME IInv, NEW c \in Conns, OnRawData(c) \/ OnLog(c) PROVE IInv'
<1>1. /\ Dispatch /\ Readable(c) /\ Registry(proc, {}, {})
      /\ inq' = [inq EXCEPT ![c] = Tail(@)]
      /\ UNCHANGED <<proc, status, blocked, backlog, peer>>
  BY Zenon DEF OnRawData, OnLog, Reads, IInv
<1>2. inq' \in [Conns -> Seq(Packet)]
  BY <1>1, ReadFacts, Zenon
<1> QED BY <1>1, <1>2, HandlerStep, Zenon

(* SIGPIPE ends the process. *)
LEMMA OnRawDataSigpipeOK ==
  ASSUME IInv, NEW c \in Conns, OnRawDataSigpipe(c) PROVE IInv'
<1>1. proc.ports \in PortTable
  BY DEF IInv, TypeOK, Process
<1> QED BY <1>1, ExitIInv DEF OnRawDataSigpipe

(* A USB reset attaches the device again or closes all it had. *)
LEMMA OnVhciHangupOK == ASSUME IInv, OnVhciHangup PROVE IInv'
<1>1. /\ Dispatch /\ Dispatching /\ Registry(proc, {}, {})
      /\ inq \in [Conns -> Seq(Packet)]
      /\ Ev.fd # Listen /\ proc.vhci_fd_map[Ev.fd] # None
      /\ UNCHANGED <<status, blocked, backlog, peer, inq>>
  BY Zenon DEF OnVhciHangup, KnownVhci, Dispatch, IInv, TypeOK
<1>2. PICK dev : dev = proc.vhci_fd_map[Ev.fd]
  OBVIOUS
<1>3. dev \in Live(proc)
  BY <1>1, <1>2, DispatchFacts, Zenon DEF Registry, VhciMapOK
<1>4. PICK attached \in BOOLEAN : proc' = usbReset(proc, dev, attached)
  BY <1>2, Zenon DEF OnVhciHangup
<1>5. Registry(proc', {}, {}) /\ OwnedIn(proc') \subseteq OwnedIn(proc)
  BY <1>1, <1>3, <1>4, ResetOK, Zenon
<1> QED BY <1>1, <1>5, HandlerStep, Zenon

(* The loop enters the read of a live session only. *)
LEMMA OnVhciReadableOK == ASSUME IInv, OnVhciReadable PROVE IInv'
<1>1. /\ Dispatch /\ Dispatching /\ Registry(proc, {}, {})
      /\ Ev.fd # Listen /\ proc.vhci_fd_map[Ev.fd] # None
      /\ blocked' = proc.vhci_fd_map[Ev.fd]
      /\ UNCHANGED <<proc, status, backlog, peer, inq>>
  BY Zenon DEF OnVhciReadable, KnownVhci, Dispatch, IInv
<1>2. blocked' \in Live(proc)
  BY <1>1, DispatchFacts, Zenon DEF Registry, VhciMapOK
<1>3. blocked' \in Devices \cup {None} /\ batch' \in Seq(Event)
  BY <1>1, <1>2, DispatchFacts DEF Live, Dispatch
<1> QED BY <1>1, <1>2, <1>3, ProcStep, Zenon DEF IInv, TypeOK

(* Reads from the kernel and arrivals from it change no table. *)
LEMMA RxEofOK ==
  ASSUME IInv, NEW q, q \in {[proc EXCEPT !.rx = S] : S \in SUBSET Fds}
                           \cup {[proc EXCEPT !.eof = S] : S \in SUBSET Fds}
  PROVE  Registry(q, {}, {}) /\ OwnedIn(q) = OwnedIn(proc) /\ Live(q) = Live(proc)
<1>1. proc \in Process /\ Registry(proc, {}, {})
  BY Zenon DEF IInv, TypeOK
<1>2. Alike(proc, q)
  <2>1. CASE \E S \in SUBSET Fds : q = [proc EXCEPT !.rx = S]
    BY <1>1, <2>1 DEF Process, Alike
  <2>2. CASE \E S \in SUBSET Fds : q = [proc EXCEPT !.eof = S]
    BY <1>1, <2>2 DEF Process, Alike
  <2> QED BY <2>1, <2>2
<1> QED BY <1>1, <1>2, AlikeKeepsRegistry, Zenon

(* Forwarding consumes kernel bytes only. *)
LEMMA ForwardToDeviceOK == ASSUME IInv, ForwardToDevice PROVE IInv'
<1>1. /\ proc' = [proc EXCEPT !.rx = proc.rx \ {BlockedFd}]
      /\ UNCHANGED <<status, batch, blocked, backlog, peer, inq>>
  BY DEF ForwardToDevice
<1>2. proc.rx \ {BlockedFd} \in SUBSET Fds
  BY DEF IInv, TypeOK, Process
<1>3. Registry(proc', {}, {}) /\ OwnedIn(proc') = OwnedIn(proc) /\ Live(proc') = Live(proc)
  BY <1>1, <1>2, RxEofOK
<1> QED BY <1>1, <1>3, ProcStep, Zenon DEF IInv, TypeOK

(* A read error removes the session and leaves its handler. *)
LEMMA ReadSeesEofOK == ASSUME IInv, ReadSeesEof PROVE IInv'
<1>1. /\ proc' = removeSession(proc, blocked) /\ blocked' = None
      /\ UNCHANGED <<status, batch, backlog, peer, inq>>
      /\ Registry(proc, {}, {}) /\ blocked \in Live(proc)
  BY Zenon DEF ReadSeesEof, IInv
<1>2. blocked \in Devices
  BY <1>1 DEF Live
<1>3. Registry(proc', {}, {}) /\ OwnedIn(proc') \subseteq OwnedIn(proc)
  BY <1>1, <1>2, RemoveSessionOK, Zenon
<1>4. blocked' \in Devices \cup {None}
  BY <1>1
<1> QED BY <1>1, <1>3, <1>4, ProcStep, Zenon DEF IInv, TypeOK

(* A signal that interrupts a read removes the session and leaves its
   handler; any other leaves the process as it is. *)
LEMMA SignalOK == ASSUME IInv, Signal PROVE IInv'
<1>1. /\ \/ UNCHANGED <<proc, blocked>>
         \/ blocked # None /\ proc' = removeSession(proc, blocked) /\ blocked' = None
      /\ status' = "stopping" /\ UNCHANGED <<batch, backlog, peer, inq>>
      /\ Registry(proc, {}, {}) /\ (blocked # None => blocked \in Live(proc))
      /\ blocked \in Devices \cup {None}
  BY Zenon DEF Signal, IInv, TypeOK
<1>2. status' \in {"up", "stopping", "down", "killed"}
  BY <1>1
<1>3. CASE UNCHANGED <<proc, blocked>>
  BY <1>1, <1>2, <1>3, ProcStep, Zenon DEF IInv, TypeOK
<1>4. CASE blocked # None /\ proc' = removeSession(proc, blocked) /\ blocked' = None
  <2>1. Registry(proc', {}, {}) /\ OwnedIn(proc') \subseteq OwnedIn(proc)
    BY <1>1, <1>4, RemoveSessionOK, Zenon
  <2> QED BY <1>1, <1>2, <1>4, <2>1, ProcStep, Zenon DEF IInv, TypeOK
<1> QED BY <1>1, <1>3, <1>4, Zenon

(* Shutdown releases everything. *)
LEMMA ShutdownOK == ASSUME IInv, Shutdown PROVE IInv'
<1>1. PICK ports \in detachAll(proc.ports) : Exit("down", ports)
  BY Zenon DEF Shutdown
<1>2. ports \in PortTable
  BY <1>1, Zenon DEF detachAll
<1>3. "down" \in {"down", "killed"}
  OBVIOUS
<1> QED BY <1>1, <1>2, <1>3, ExitIInv, Zenon

(* A connection enters the backlog once. *)
LEMMA PeerConnectOK == ASSUME IInv, NEW c \in Conns, PeerConnect(c) PROVE IInv'
<1>1. /\ peer[c] = "none" /\ peer' = [peer EXCEPT ![c] = "open"]
      /\ backlog' = Append(backlog, c)
      /\ UNCHANGED <<proc, status, batch, blocked, inq>>
      /\ backlog \in Seq(Conns) /\ peer \in [Conns -> {"none", "open", "closed"}]
      /\ Waiting(OwnedIn(proc)) /\ TypeOK /\ Registry(proc, {}, {})
      /\ (blocked # None => blocked \in Live(proc))
  BY Zenon DEF PeerConnect, IInv, TypeOK
<1>2. backlog' \in Seq(Conns) /\ peer' \in [Conns -> {"none", "open", "closed"}]
  BY <1>1
<1>3. TypeOK'
  BY <1>1, <1>2, Zenon DEF TypeOK
<1>4. c \notin OwnedIn(proc) /\ \A i \in DOMAIN backlog : backlog[i] # c
  BY <1>1, Zenon DEF Waiting
<1>5. /\ DOMAIN backlog = 1 .. Len(backlog) /\ Len(backlog) \in Nat
      /\ DOMAIN backlog' = 1 .. Len(backlog) + 1
      /\ \A i \in DOMAIN backlog : backlog'[i] = backlog[i]
      /\ backlog'[Len(backlog) + 1] = c
  BY <1>1
<1>6. \A x : peer[x] # "none" => peer'[x] # "none"
  BY <1>1
<1>7. peer'[c] # "none"
  BY <1>1
<1>8. Waiting(OwnedIn(proc))'
  <2>1. \A i, j \in DOMAIN backlog' : backlog'[i] = backlog'[j] => i = j
    BY <1>1, <1>4, <1>5 DEF Waiting
  <2>2. \A i \in DOMAIN backlog' : backlog'[i] \notin OwnedIn(proc) /\ peer'[backlog'[i]] # "none"
    BY <1>1, <1>4, <1>5, <1>6, <1>7 DEF Waiting
  <2>3. \A x \in OwnedIn(proc) : peer'[x] # "none"
    BY <1>1, <1>6 DEF Waiting
  <2> QED BY <1>1, <2>1, <2>2, <2>3, Zenon DEF Waiting
<1> QED BY <1>1, <1>3, <1>8, Zenon DEF IInv

(* The peers' and the kernel's steps that touch no connection's owner. *)
LEMMA PeerQueueOK ==
  ASSUME IInv, NEW c \in Conns, PeerSend(c) \/ PeerContinues(c) PROVE IInv'
<1>1. /\ UNCHANGED <<proc, status, batch, blocked, backlog, peer>>
      /\ inq \in [Conns -> Seq(Packet)] /\ inq[c] \in Seq(Packet)
  BY DEF PeerSend, PeerContinues, IInv, TypeOK
<1>2. inq' \in [Conns -> Seq(Packet)]
  <2>1. CASE PeerSend(c)
    BY <1>1, <2>1 DEF PeerSend
  <2>2. CASE PeerContinues(c)
    <3>1. PICK pkt \in Packet : inq' = [inq EXCEPT ![c][Len(inq[c])] = pkt]
      BY <2>2, Zenon DEF PeerContinues
    <3>2. PICK s : s = [inq[c] EXCEPT ![Len(inq[c])] = pkt]
      BY Zenon
    <3>3. s \in Seq(Packet)
      <4>1. PICK n \in Nat : inq[c] \in [1 .. n -> Packet]
        BY <1>1
      <4>2. s \in [1 .. n -> Packet]
        BY <3>1, <3>2, <4>1, Zenon
      <4> QED BY <4>1, <4>2
    <3>4. inq' = [inq EXCEPT ![c] = s]
      BY <1>1, <3>1, <3>2
    <3> QED BY <1>1, <3>3, <3>4
  <2> QED BY <2>1, <2>2
<1> QED BY <1>1, <1>2, ProcStep, Zenon DEF IInv, TypeOK

(* A peer that closes leaves ownership alone. *)
LEMMA PeerCloseOK == ASSUME IInv, NEW c \in Conns, PeerClose(c) PROVE IInv'
<1>1. /\ peer' = [peer EXCEPT ![c] = "closed"]
      /\ UNCHANGED <<proc, status, batch, blocked, backlog, inq>>
      /\ peer \in [Conns -> {"none", "open", "closed"}] /\ TypeOK
      /\ Waiting(OwnedIn(proc)) /\ Registry(proc, {}, {})
      /\ (blocked # None => blocked \in Live(proc))
  BY Zenon DEF PeerClose, IInv, TypeOK
<1>2. peer' \in [Conns -> {"none", "open", "closed"}]
  BY <1>1
<1>3. TypeOK'
  BY <1>1, <1>2, Zenon DEF TypeOK
<1>4. \A x : peer[x] # "none" => peer'[x] # "none"
  BY <1>1
<1>5. Waiting(OwnedIn(proc))'
  BY <1>1, <1>4, Zenon DEF Waiting
<1> QED BY <1>1, <1>3, <1>5, Zenon DEF IInv

(* The kernel driver moves bytes and the end of the stream, nothing else. *)
LEMMA KernelOK ==
  ASSUME IInv, NEW d \in Devices, KernelSend(d) \/ KernelClose(d) PROVE IInv'
<1>1. UNCHANGED <<status, batch, blocked, backlog, peer, inq>>
  BY Zenon DEF KernelSend, KernelClose
<1>2. PICK f : f = proc.sessions[d].vhci_fd
  BY Zenon
<1>3. f \in Fds /\ proc.rx \in SUBSET Fds /\ proc.eof \in SUBSET Fds
  <2>1. d \in Live(proc) /\ proc \in Process
    BY Zenon DEF KernelSend, KernelClose, IInv, TypeOK
  <2>2. SessionOK(proc, d)
    BY <2>1, Zenon DEF IInv, Registry, SessionsOK
  <2>3. f \in Fds
    BY <1>2, <2>2 DEF SessionOK, Session
  <2> QED BY <2>1, <2>3 DEF Process
<1>4. \/ proc' = [proc EXCEPT !.rx = proc.rx \cup {f}]
      \/ proc' = [proc EXCEPT !.eof = proc.eof \cup {f}]
  BY <1>2, Zenon DEF KernelSend, KernelClose
<1>5. proc.rx \cup {f} \in SUBSET Fds /\ proc.eof \cup {f} \in SUBSET Fds
  BY <1>3
<1>6. Registry(proc', {}, {}) /\ OwnedIn(proc') = OwnedIn(proc) /\ Live(proc') = Live(proc)
  BY <1>4, <1>5, RxEofOK
<1> QED BY <1>1, <1>6, ProcStep DEF IInv, TypeOK

-----------------------------------------------------------------------------

(* Every step keeps the invariant. *)
LEMMA NextIInv == IInv /\ [Next]_vars => IInv'
<1> SUFFICES ASSUME IInv, [Next]_vars PROVE IInv'
  OBVIOUS
<1>1. CASE UNCHANGED vars
  <2>1. UNCHANGED <<proc, status, batch, blocked, backlog, peer, inq>>
    BY <1>1, Zenon DEF vars
  <2> QED BY <2>1, ProcStep, Zenon DEF IInv, TypeOK
<1>2. CASE Loop
  BY <1>2, EpollWaitOK, OnTcpAcceptOK, OnTcpHangupOK, TouchesFreedSessionOK,
     OnUnknownFdOK, OnTcpReadFailsOK, OnConnectOK, OnDisconnectOK, OnDataOK,
     OnRawDataSigpipeOK, OnVhciHangupOK, OnVhciReadableOK, ForwardToDeviceOK,
     ReadSeesEofOK, ShutdownOK, Zenon DEF Loop, OnTcpPacket
<1>3. CASE Signal
  BY <1>3, SignalOK, Zenon
<1>4. CASE Environment
  BY <1>4, PeerConnectOK, PeerQueueOK, PeerCloseOK, KernelOK, Zenon DEF Environment
<1>5. CASE Terminated
  BY <1>1, <1>5, Zenon DEF Terminated
<1> QED BY <1>1, <1>2, <1>3, <1>4, <1>5, Zenon DEF Next

(* The inductive invariant holds in every reachable state. *)
THEOREM Inductive == Spec => []IInv
<1>1. Init => IInv
  BY InitIInv
<1>2. IInv /\ [Next]_vars => IInv'
  BY NextIInv
<1> QED BY <1>1, <1>2, PTL DEF Spec

-----------------------------------------------------------------------------
(* The theorems: what the runs check on small instances, for all constants. *)

(* Every variable of the daemon keeps its type. *)
THEOREM TypeCorrect == Spec => []TypeOK
<1>1. IInv => TypeOK
  BY Zenon DEF IInv
<1> QED BY <1>1, Inductive, PTL

(* No port is handed out twice: the port of a live session is marked as
   taken and is nobody else's, however attaches, failed detaches, USB resets
   and stale events follow each other. *)
THEOREM PortsAreExclusive == Spec => []PortsExclusive
<1>1. IInv => PortsExclusive
  <2> SUFFICES ASSUME IInv, NEW d \in Live(proc)
               PROVE  /\ Sess(d).port \in Ports \ FreePorts(proc.ports)
                      /\ \A e \in Live(proc) : Sess(e).port = Sess(d).port => e = d
    BY Zenon DEF PortsExclusive
  <2>1. SessionOK(proc, d)
    BY Zenon DEF IInv, Registry, SessionsOK
  <2>2. Sess(d) \in Session /\ proc.ports[Sess(d).port]
    BY <2>1, Zenon DEF SessionOK, Sess
  <2>3. Sess(d).port \in Ports \ FreePorts(proc.ports)
    BY <2>2 DEF Session, FreePorts
  <2>4. \A e \in Live(proc) : Sess(e).port = Sess(d).port => e = d
    BY Zenon DEF IInv, Registry, AllApart, Apart, Sess
  <2> QED BY <2>3, <2>4
<1> QED BY <1>1, Inductive, PTL

(* No descriptor leaks and none has two owners: what is open is what the
   pending sockets and the sessions own, on every error path. *)
THEOREM DescriptorsAccountedFor == Spec => []FdLedger
<1>1. IInv => FdLedger
  <2> SUFFICES ASSUME IInv PROVE FdLedger
    OBVIOUS
  <2>1. /\ NoLeak(proc, {}) /\ PendingOK(proc, {}, {}) /\ AllApart(proc)
        /\ proc \in Process /\ Live(proc) \subseteq Devices
    BY Zenon DEF IInv, Registry, Live
  <2>2. \A d : SessionFds(d) = FdsOf(proc, d)
    BY Zenon DEF SessionFds, Sess, FdsOf
  <2>3. \A d \in Live(proc) : SessionOK(proc, d)
    BY Zenon DEF IInv, Registry, SessionsOK
  <2>4. \A d \in Live(proc) : SessionFds(d) \subseteq proc.open
    BY <2>3, Zenon DEF SessionOK, SessionFds, Sess
  <2>5. PendingFds \subseteq proc.open
    BY <2>1, Zenon DEF PendingFds, PendingOK
  <2>6. proc.open \subseteq PendingFds \cup UNION {SessionFds(d) : d \in Live(proc)}
    <3>1. proc.open \subseteq Fds
      BY <2>1, Zenon DEF Process
    <3>2. ASSUME NEW f \in proc.open PROVE f \in PendingFds \/ \E d \in Live(proc) : f \in SessionFds(d)
      BY <2>1, <2>2, <3>1, <3>2, Zenon DEF NoLeak, PendingFds
    <3> QED BY <3>2, Zenon
  <2>7. proc.open = PendingFds \cup UNION {SessionFds(d) : d \in Live(proc)}
    BY <2>4, <2>5, <2>6, Zenon
  <2>8. ASSUME NEW d \in Live(proc)
        PROVE  /\ SessionFds(d) \cap PendingFds = {}
               /\ Sess(d).vhci_fd # Sess(d).kernel_fd
               /\ Sess(d).vhci_fd # Sess(d).tcp_fd
               /\ Sess(d).kernel_fd # Sess(d).tcp_fd
    <3>1. SessionOK(proc, d)
      BY <2>3, Zenon
    <3> QED BY <3>1 DEF SessionOK, SessionFds, Sess, PendingFds
  <2>9. \A d, e \in Live(proc) : e # d => SessionFds(d) \cap SessionFds(e) = {}
    BY <2>1, <2>2 DEF AllApart, Apart
  <2> QED BY <2>7, <2>8, <2>9 DEF FdLedger
<1> QED BY <1>1, Inductive, PTL

(* No two TcpSocket objects ever read the same stream. *)
THEOREM ConnectionsOwnedOnce == Spec => []ConnOwnedOnce
<1>1. IInv => ConnOwnedOnce
  <2> SUFFICES ASSUME IInv PROVE ConnOwnedOnce
    OBVIOUS
  <2>1. \A f, g \in PendingFds : proc.pending[f] = proc.pending[g] => f = g
    BY Zenon DEF IInv, Registry, PendingOK, PendingFds
  <2>2. \A d \in Live(proc), f \in PendingFds : proc.pending[f] # Sess(d).conn
    BY Zenon DEF IInv, Registry, PendingOK, PendingFds, Sess
  <2>3. \A d, e \in Live(proc) : Sess(e).conn = Sess(d).conn => e = d
    BY Zenon DEF IInv, Registry, AllApart, Apart, Sess
  <2>4. \A i, j \in DOMAIN backlog : backlog[i] = backlog[j] => i = j
    BY Zenon DEF IInv, Waiting
  <2>5. ASSUME NEW i \in DOMAIN backlog PROVE ~Owned(backlog[i])
    <3>1. backlog[i] \notin OwnedIn(proc) /\ backlog \in Seq(Conns)
      BY Zenon DEF IInv, Waiting, TypeOK
    <3>2. backlog[i] \in Conns
      BY <3>1
    <3>3. backlog[i] # None
      BY <3>2, HubAssumption, Zenon
    <3> QED BY <3>1, <3>3 DEF OwnedIn, Owned
  <2> QED BY <2>1, <2>2, <2>3, <2>4, <2>5, Zenon DEF ConnOwnedOnce
<1> QED BY <1>1, Inductive, PTL

(* Both descriptors of a live session are watched, and main's lookup of an
   event, which asks tcp_fd_map_ before vhci_fd_map_, never takes one of them
   for another session's: the TCP socket leads to the session, the end of the
   socketpair to the session or to the entry of one that was destroyed. *)
THEOREM SessionsStayServed == Spec => []SessionsServed
<1>1. IInv => SessionsServed
  <2> SUFFICES ASSUME IInv, NEW d \in Live(proc)
               PROVE  /\ {Sess(d).vhci_fd, Sess(d).tcp_fd} \subseteq proc.epoll
                      /\ Lookup(Sess(d).tcp_fd) = d
                      /\ proc.vhci_fd_map[Sess(d).vhci_fd] = d
                      /\ Lookup(Sess(d).vhci_fd) \in {d, Freed}
    BY Zenon DEF SessionsServed
  <2>1. SessionOK(proc, d) /\ d # None
    BY HubAssumption, Zenon DEF IInv, Registry, SessionsOK, Live
  <2>2. PICK v, t, k : v = Sess(d).vhci_fd /\ t = Sess(d).tcp_fd /\ k = Sess(d).kernel_fd
    BY Zenon
  <2>3. /\ v \in Fds /\ v # t /\ v \in proc.epoll /\ t \in proc.epoll
        /\ proc.vhci_fd_map[v] = d /\ proc.tcp_fd_map[t] = d
    BY <2>1, <2>2, Zenon DEF SessionOK, Sess, Session
  <2>4. proc.tcp_fd_map[v] \in {None, Freed}
    <3> SUFFICES ASSUME proc.tcp_fd_map[v] \notin {None, Freed} PROVE FALSE
      BY Zenon
    <3>1. PICK e \in Live(proc) : Sess(e).tcp_fd = v
      BY <2>3, Zenon DEF IInv, Registry, TcpMapOK, Sess
    <3>2. e # d
      BY <2>2, <2>3, <3>1, Zenon
    <3>3. v \in FdsOf(proc, d) /\ v \in FdsOf(proc, e)
      BY <2>2, <3>1, Zenon DEF FdsOf, Sess
    <3>4. FdsOf(proc, d) \cap FdsOf(proc, e) = {}
      BY <3>2, Zenon DEF IInv, Registry, AllApart, Apart
    <3> QED BY <3>3, <3>4, Zenon
  <2>5. Lookup(t) = d
    BY <2>1, <2>3, Zenon DEF Lookup
  <2>6. Lookup(v) \in {d, Freed}
    BY <2>3, <2>4, Zenon DEF Lookup
  <2> QED BY <2>2, <2>3, <2>5, <2>6, Zenon
<1> QED BY <1>1, Inductive, PTL

(* The maps lead to live sessions from their own descriptors only. *)
THEOREM PointersAreSound == Spec => []NoStrayPointers
<1>1. IInv => NoStrayPointers
  BY Zenon DEF IInv, Registry, VhciMapOK, TcpMapOK, NoStrayPointers, Sess
<1> QED BY <1>1, Inductive, PTL

-----------------------------------------------------------------------------
(* The connection of a session. *)

(* From p to q the session of dev goes, and no other changes. *)
Ends(p, q, dev) == q.sessions = [p.sessions EXCEPT ![dev] = None] /\ q.pending = p.pending

(* From r to q dev gets the session s. *)
Begins(r, q, dev, s) == q.sessions = [r.sessions EXCEPT ![dev] = s]

(* c is the connection the session of dev has, or one that is pending. *)
Offered(p, dev, c) ==
  c = p.sessions[dev].conn \/ \E f \in Fds : p.pending[f] # None /\ p.pending[f] = c

(* From p to q a device that keeps a session keeps its connection, or gets
   one that was pending. *)
KeepsConns(p, q) ==
  \A d \in Live(p) : q.sessions[d] # None /\ q.sessions[d].conn # p.sessions[d].conn
    => \E f \in Fds : p.pending[f] # None /\ p.pending[f] = q.sessions[d].conn

(* removeSession ends one session at most. *)
LEMMA RemoveEnds ==
  ASSUME NEW p \in Process, NEW dev \in Devices
  PROVE  Ends(p, removeSession(p, dev), dev)
<1>1. CASE p.sessions[dev] = None
  <2>1. p.sessions \in [Devices -> Session \cup {None}]
    BY Zenon DEF Process
  <2>2. p.sessions = [p.sessions EXCEPT ![dev] = None]
    BY <1>1, <2>1
  <2>3. removeSession(p, dev) = p
    BY <1>1, Zenon DEF removeSession
  <2> QED BY <2>2, <2>3, Zenon DEF Ends
<1>2. CASE p.sessions[dev] # None
  BY <1>2, RemoveFields, Zenon DEF RemovedFrom, Ends
<1> QED BY <1>1, <1>2, Zenon

(* So does the disconnect callback. *)
LEMMA DisconnectEnds ==
  ASSUME NEW p \in Process, NEW dev \in Devices, NEW detached \in BOOLEAN
  PROVE  Ends(p, onDisconnect(p, dev, detached), dev)
<1>1. CASE p.sessions[dev] = None
  <2>1. removeSession(p, dev) = p /\ onDisconnect(p, dev, detached) = p
    BY <1>1, Zenon DEF removeSession, onDisconnect
  <2> QED BY <2>1, RemoveEnds, Zenon
<1>2. CASE p.sessions[dev] # None
  <2> DEFINE s == p.sessions[dev]
             r == [p EXCEPT !.epoll = @ \ {s.vhci_fd, s.tcp_fd},
                            !.ports = detach(@, s.port, detached)]
  <2>1. detach(p.ports, s.port, detached) \in PortTable
    BY Zenon DEF detach, Process, PortTable
  <2>2. r \in Process /\ r.sessions = p.sessions /\ r.pending = p.pending
    BY <2>1, Zenon DEF Process
  <2>3. onDisconnect(p, dev, detached) = removeSession(r, dev)
    BY <1>2, Zenon DEF onDisconnect
  <2> HIDE DEF r
  <2>4. Ends(r, removeSession(r, dev), dev)
    BY <2>2, RemoveEnds, Zenon
  <2> QED BY <2>2, <2>3, <2>4 DEF Ends
<1> QED BY <1>1, <1>2, Zenon

(* A session that ends has no connection to keep; the others are as before. *)
LEMMA EndsKeepsConns ==
  ASSUME NEW p \in Process, NEW dev \in Devices, NEW q, Ends(p, q, dev)
  PROVE  KeepsConns(p, q)
<1>1. p.sessions \in [Devices -> Session \cup {None}]
  BY Zenon DEF Process
<1>2. \A d \in Devices : q.sessions[d] = None \/ q.sessions[d] = p.sessions[d]
  BY <1>1 DEF Ends
<1> QED BY <1>2, Zenon DEF KeepsConns, Live

(* A new session of dev, on a connection that was pending or was its own. *)
LEMMA StartKeepsConns ==
  ASSUME NEW p \in Process, NEW dev \in Devices, NEW r, Ends(p, r, dev), NEW s,
         NEW q, Begins(r, q, dev, s), Offered(p, dev, s.conn)
  PROVE  KeepsConns(p, q)
<1>1. p.sessions \in [Devices -> Session \cup {None}]
  BY Zenon DEF Process
<1>2. q.sessions[dev] = s /\ \A d \in Devices \ {dev} : q.sessions[d] = p.sessions[d]
  BY <1>1 DEF Ends, Begins
<1> QED BY <1>2, Zenon DEF KeepsConns, Live, Offered

(* doUsbAttach gives dev the connection that was pending at client_fd, or
   changes no session. *)
LEMMA AttachConn ==
  ASSUME NEW p \in Process, NEW dev \in Devices, NEW fd, NEW attached,
         NEW q, q = doUsbAttach(p, dev, fd, attached)
  PROVE  \/ q.sessions = p.sessions
         \/ \E f \in Fds : \E s :
              /\ f = fd % SinPortMod /\ p.pending[f] # None /\ s.conn = p.pending[f]
              /\ Begins(p, q, dev, s)
<1>1. PICK port : port = AttachedPort(p.ports, attached)
  OBVIOUS
<1>2. PICK t : t = fd % SinPortMod
  OBVIOUS
<1>3. CASE ~CanSocketpair(p) \/ port = NoPort
  BY <1>1, <1>3 DEF doUsbAttach
<1>4. CASE CanSocketpair(p) /\ port # NoPort /\ (t \notin Fds \/ p.pending[t] = None)
  <2>1. q = [p EXCEPT !.ports = MarkUsed(@, port)]
    BY <1>1, <1>2, <1>4 DEF doUsbAttach
  <2> QED BY <2>1, Zenon DEF Process
<1>5. CASE CanSocketpair(p) /\ port # NoPort /\ t \in Fds /\ p.pending[t] # None
  <2>1. PICK r : r = Watch(extractPendingSocket(p, t), t)
    BY Zenon
  <2>2. PICK s : s = [port |-> port, vhci_fd |-> Socketpair(r)[2], kernel_fd |-> Socketpair(r)[1],
                      tcp_fd |-> t, conn |-> p.pending[t]]
    BY Zenon
  <2>3. q = StartSession(r, dev, port, t, p.pending[t])
    BY <1>1, <1>2, <1>5, <2>1 DEF doUsbAttach
  <2>4. r.sessions = p.sessions /\ r \in Process
    <3>1. PICK x : x = extractPendingSocket(p, t)
      BY Zenon
    <3>2. x.sessions = p.sessions /\ x \in Process
      BY <3>1, Zenon DEF extractPendingSocket, Process
    <3> QED BY <1>5, <2>1, <3>1, <3>2, WatchIsAlike, Zenon DEF Alike
  <2>5. q.sessions = [r.sessions EXCEPT ![dev] = s]
    BY <2>2, <2>3, <2>4, Zenon DEF StartSession, addSession, Process
  <2>6. s.conn = p.pending[t]
    BY <2>2
  <2>7. Begins(p, q, dev, s)
    BY <2>4, <2>5, Zenon DEF Begins
  <2> QED BY <1>2, <1>5, <2>6, <2>7, Zenon
<1> QED BY <1>3, <1>4, <1>5, Zenon

(* A CONNECT gives the device the pending connection it came on. *)
LEMMA ConnectKeepsConns ==
  ASSUME NEW p, Registry(p, {}, {}), NEW fd, NEW dev \in Devices,
         NEW detached \in BOOLEAN, NEW attached \in BOOLEAN,
         NEW q, q = onConnectPacket(p, fd, dev, detached, attached)
  PROVE  KeepsConns(p, q)
<1>1. PICK r : r = onDisconnect(p, dev, detached)
  OBVIOUS
<1>2. p \in Process /\ r \in Process
  BY <1>1, DisconnectOK, Zenon DEF Registry
<1>3. Ends(p, r, dev)
  BY <1>1, <1>2, DisconnectEnds, Zenon
<1>4. q = IF r.pending[fd] # None THEN doUsbAttach(r, dev, fd, attached) ELSE r
  BY <1>1, Zenon DEF onConnectPacket
<1>5. CASE q.sessions = r.sessions
  <2>1. q.sessions = r.sessions /\ KeepsConns(p, r)
    BY <1>2, <1>3, <1>5, EndsKeepsConns, Zenon
  <2> QED BY <2>1, Zenon DEF KeepsConns
<1>6. CASE q.sessions # r.sessions
  <2>1. q = doUsbAttach(r, dev, fd, attached)
    BY <1>4, <1>6, Zenon
  <2> DEFINE Got == \E f \in Fds : \E s :
                      /\ f = fd % SinPortMod /\ r.pending[f] # None /\ s.conn = r.pending[f]
                      /\ Begins(r, q, dev, s)
  <2>2. q.sessions = r.sessions \/ Got
    BY <1>2, <2>1, AttachConn
  <2>3. PICK f \in Fds : \E s :
             r.pending[f] # None /\ s.conn = r.pending[f] /\ Begins(r, q, dev, s)
    BY <1>6, <2>2, Zenon
  <2>4. PICK s : r.pending[f] # None /\ s.conn = r.pending[f] /\ Begins(r, q, dev, s)
    BY <2>3, Zenon
  <2>5. Offered(p, dev, s.conn)
    BY <1>3, <2>4, Zenon DEF Ends, Offered
  <2> QED BY <1>2, <1>3, <2>4, <2>5, StartKeepsConns, Zenon
<1> QED BY <1>5, <1>6

(* A USB reset gives the device the connection it had. *)
LEMMA ResetKeepsConns ==
  ASSUME NEW p, Registry(p, {}, {}), NEW dev \in Live(p), NEW attached,
         NEW q, q = usbReset(p, dev, attached)
  PROVE  KeepsConns(p, q)
<1>1. PICK t, c, k : /\ t = p.sessions[dev].tcp_fd /\ c = p.sessions[dev].conn
                     /\ k = removeKeepingSocket(p, dev)
  OBVIOUS
<1>2. p \in Process /\ k \in Process /\ dev \in Devices
  BY <1>1, KeepSocketOK, Zenon DEF Registry, Live
<1>3. Ends(p, k, dev)
  BY <1>1, KeepSocketOK, Zenon DEF Ends
<1>4. PICK port : port = AttachedPort(k.ports, attached)
  OBVIOUS
<1>5. q = IF CanSocketpair(k) /\ port # NoPort
          THEN StartSession(k, dev, port, t, c)
          ELSE CloseFds(k, {t})
  BY <1>1, <1>4 DEF usbReset
<1>6. CASE q = StartSession(k, dev, port, t, c)
  <2>1. PICK s : s = [port |-> port, vhci_fd |-> Socketpair(k)[2], kernel_fd |-> Socketpair(k)[1],
                      tcp_fd |-> t, conn |-> c]
    BY Zenon
  <2>2. Begins(k, q, dev, s)
    BY <1>2, <1>6, <2>1, Zenon DEF StartSession, addSession, Process, Begins
  <2>3. Offered(p, dev, s.conn)
    BY <1>1, <2>1, Zenon DEF Offered
  <2> QED BY <1>2, <1>3, <2>2, <2>3, StartKeepsConns, Zenon
<1>7. CASE q = CloseFds(k, {t})
  <2>1. q.sessions = k.sessions
    BY <1>2, <1>7, Zenon DEF CloseFds, Process
  <2>2. KeepsConns(p, k)
    BY <1>2, <1>3, EndsKeepsConns, Zenon
  <2> QED BY <2>1, <2>2, Zenon DEF KeepsConns
<1> QED BY <1>5, <1>6, <1>7, Zenon

(* Steps that leave the sessions alone. *)
LEMMA SameSessions ==
  ASSUME IInv, proc'.sessions = proc.sessions
  PROVE  KeepsConns(proc, proc')
BY Zenon DEF KeepsConns

(* Every step of a process that goes on, handler by handler. *)
LEMMA NextKeepsConns ==
  ASSUME IInv, [Next]_vars, Running'
  PROVE  KeepsConns(proc, proc')
<1>1. proc \in Process /\ Registry(proc, {}, {})
  BY Zenon DEF IInv, TypeOK
<1>2. ASSUME NEW how \in {"down", "killed"}, NEW ports, Exit(how, ports) PROVE FALSE
  BY <1>2 DEF Exit, Running
<1>3. CASE UNCHANGED proc
  BY <1>3, SameSessions, Zenon
<1>4. CASE OnTcpAccept
  <2>1. \/ proc' = proc
        \/ \E fd, c : LET q == AddPending(proc, fd, c) IN
             proc' = q \/ proc' = Watch(q, fd)
    BY <1>4, Zenon DEF OnTcpAccept
  <2>2. proc'.sessions = proc.sessions
    BY <1>1, <2>1, Zenon DEF AddPending, Watch, Process
  <2> QED BY <2>2, SameSessions, Zenon
<1>5. CASE OnTcpHangup
  <2>1. PICK d \in findByTcpFd(proc, Ev.fd) : proc' = removeSession(proc, d)
    BY <1>5, Zenon DEF OnTcpHangup
  <2>2. Ev.fd \in Fds
    BY <1>5, DispatchFacts, Zenon DEF OnTcpHangup, KnownTcp, Dispatch
  <2>3. d \in Devices
    BY <1>1, <2>1, <2>2, FoundByTcp, Zenon
  <2> QED BY <1>1, <2>1, <2>3, RemoveEnds, EndsKeepsConns, Zenon
<1>6. CASE OnTcpReadFails
  <2>1. Ev.fd \in Fds
    BY <1>6, DispatchFacts, Zenon DEF OnTcpReadFails, CallsOnTcpReadable, KnownTcp, Unknown, Dispatch
  <2>2. CASE proc' = ErasePending(proc, Ev.fd)
    <3>1. proc'.sessions = proc.sessions
      BY <1>1, <2>2, Zenon DEF ErasePending, extractPendingSocket, CloseFds, Process
    <3> QED BY <3>1, SameSessions, Zenon
  <2>3. ASSUME NEW d \in findByTcpFd(proc, Ev.fd), NEW detached \in BOOLEAN, proc' = onDisconnect(proc, d, detached)
        PROVE  KeepsConns(proc, proc')
    <3>1. d \in Devices
      BY <1>1, <2>1, <2>3, FoundByTcp, Zenon
    <3> QED BY <1>1, <2>3, <3>1, DisconnectEnds, EndsKeepsConns, Zenon
  <2> QED BY <1>6, <2>2, <2>3, Zenon DEF OnTcpReadFails
<1>7. ASSUME NEW c \in Conns, OnConnect(c) \/ OnDisconnect(c) PROVE KeepsConns(proc, proc')
  <2>1. Head(inq[c]) \in Packet
    BY <1>7, ReadFacts, Zenon DEF OnConnect, OnDisconnect, Reads
  <2>2. Head(inq[c]).dev \in Devices
    BY <2>1 DEF Packet
  <2>3. CASE OnConnect(c)
    BY <1>1, <2>2, <2>3, ConnectKeepsConns, Zenon DEF OnConnect
  <2>4. CASE OnDisconnect(c)
    BY <1>1, <2>2, <2>4, DisconnectEnds, EndsKeepsConns, Zenon DEF OnDisconnect
  <2> QED BY <1>7, <2>3, <2>4, Zenon
<1>8. CASE OnVhciHangup
  <2>1. Ev.fd \in Fds /\ proc.vhci_fd_map[Ev.fd] # None
    BY <1>8, DispatchFacts, Zenon DEF OnVhciHangup, KnownVhci, Dispatch
  <2>2. proc.vhci_fd_map[Ev.fd] \in Live(proc)
    BY <1>1, <2>1, Zenon DEF Registry, VhciMapOK
  <2> QED BY <1>1, <1>8, <2>2, ResetKeepsConns, Zenon DEF OnVhciHangup
<1>9. CASE ForwardToDevice \/ \E d \in Devices : KernelSend(d) \/ KernelClose(d)
  <2>1. \E S : proc' = [proc EXCEPT !.rx = S] \/ proc' = [proc EXCEPT !.eof = S]
    BY <1>9, Zenon DEF ForwardToDevice, KernelSend, KernelClose
  <2>2. proc'.sessions = proc.sessions
    BY <1>1, <2>1, Zenon DEF Process
  <2> QED BY <2>2, SameSessions, Zenon
<1>10. CASE blocked # None /\ proc' = removeSession(proc, blocked)
  <2>1. blocked \in Devices
    BY <1>10, Zenon DEF IInv, TypeOK
  <2> QED BY <1>1, <1>10, <2>1, RemoveEnds, EndsKeepsConns, Zenon
<1>11. CASE Loop
  <2>1. CASE EpollWait \/ OnUnknownFd \/ OnVhciReadable \/ \E c \in Conns : OnLog(c) \/ OnRawData(c)
    BY <1>3, <2>1, Zenon DEF EpollWait, OnUnknownFd, OnVhciReadable, OnLog, OnRawData
  <2>2. CASE TouchesFreedSession \/ Shutdown \/ \E c \in Conns : OnRawDataSigpipe(c)
    <3>1. \E ports : Exit("killed", ports) \/ Exit("down", ports)
      BY <2>2, Zenon DEF TouchesFreedSession, Shutdown, OnRawDataSigpipe
    <3> QED BY <1>2, <3>1
  <2>3. CASE ReadSeesEof
    BY <1>10, <2>3, Zenon DEF ReadSeesEof
  <2> QED BY <1>4, <1>5, <1>6, <1>7, <1>8, <1>9, <1>11, <2>1, <2>2, <2>3, Zenon DEF Loop, OnTcpPacket
<1>12. CASE Signal
  BY <1>3, <1>10, <1>12, Zenon DEF Signal
<1>13. CASE Environment
  BY <1>3, <1>9, <1>13, Zenon DEF Environment, PeerConnect, PeerSend, PeerContinues, PeerClose
<1>14. CASE Terminated \/ UNCHANGED vars
  BY <1>3, <1>14, Zenon DEF Terminated, vars
<1> QED BY <1>11, <1>12, <1>13, <1>14, Zenon DEF Next

(* The connection of a session is never exchanged under it: CONNECT brings
   the one it came on, and a USB reset, whose session is destroyed and made
   anew, the one that was moved out of the old session. *)
THEOREM ConnectionsAreKept == Spec => ConnectionKept
<1> DEFINE Kept == \A d \in Live(proc) : Running' /\ Sess(d)' # None /\ Sess(d)'.conn # Sess(d).conn
                     => \E f \in PendingFds : proc.pending[f] = Sess(d)'.conn
<1>1. IInv /\ [Next]_vars => [Kept]_vars
  <2> SUFFICES ASSUME IInv, [Next]_vars, Running' PROVE Kept
    BY Zenon
  <2>1. KeepsConns(proc, proc')
    BY NextKeepsConns, Zenon
  <2> QED BY <2>1, Zenon DEF KeepsConns, Sess, PendingFds
<1> HIDE DEF Kept
<1>2. Spec => [][Kept]_vars
  BY <1>1, Inductive, PTL DEF Spec
<1> QED BY <1>2 DEF ConnectionKept, Kept

=============================================================================
