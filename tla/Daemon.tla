------------------------------- MODULE Daemon -------------------------------
(***************************************************************************)
(* The daemon process: main.cpp's epoll loop and callbacks over HubServer, *)
(* VhciDriver and PassthroughHandler, with its environment: TCP peers, the *)
(* vhci-hcd kernel driver and the termination signal.                      *)
(*                                                                         *)
(* epoll_wait hands the loop a batch of events; the loop dispatches them   *)
(* one by one while peers and kernel keep moving, so an event may be stale *)
(* when its turn comes: its descriptor closed, or open again for another   *)
(* purpose.                                                                *)
(***************************************************************************)
EXTENDS Callbacks, Sequences

CONSTANTS
  MAX_EVENTS,       \* size of the batch array
  MaxQueue,         \* bound: unread packets per connection
  Commands,         \* the commands peers use
  AcceptWatched     \* whether an accepted socket enters the epoll set: FALSE
                    \* is the committed code, TRUE the contract HubServer.h
                    \* states for onTcpReadable

(* How much of a packet may have arrived: bytes of the header, the header
   without a byte of the payload, bytes of the payload. *)
Parts == {"HALF_HEADER", "HEADER", "HALF_PAYLOAD"}

ASSUME DaemonAssumption ==
  /\ MAX_EVENTS \in Nat \ {0}
  /\ MaxQueue \in Nat
  /\ Commands \subseteq {"CONNECT", "DISCONNECT", "RAW_DATA", "LOG"} \cup Parts
  /\ AcceptWatched \in BOOLEAN

VARIABLES
  proc,     \* the process record of HubServer
  status,   \* "up", "stopping" (g_running cleared), "down", "killed"
  batch,    \* events of the current epoll_wait not yet dispatched
  blocked,  \* device in whose onVhciReadable the loop sits, or None
  backlog,  \* connections not yet accepted
  peer,     \* what each remote end has done: "none", "open" or "closed"
  inq       \* packets each connection has delivered and nobody has read

vars == <<proc, status, batch, blocked, backlog, peer, inq>>

Listen == 0     \* the listening socket's descriptor
Event == [fd : Fds \cup {Listen}, hup : BOOLEAN]

(* LOG stands for every command without an effect on the process. *)
Packet == [cmd : Commands, dev : Devices]

-----------------------------------------------------------------------------

EmptyProcess(ports) ==
  [open |-> {}, epoll |-> {}, rx |-> {}, eof |-> {}, ports |-> ports,
   sessions |-> [d \in Devices |-> None],
   vhci_fd_map |-> [f \in Fds |-> None],
   tcp_fd_map |-> [f \in Fds |-> None],
   pending |-> [f \in Fds |-> None]]

Init ==
  /\ proc = EmptyProcess([i \in Ports |-> FALSE])
  /\ status = "up"
  /\ batch = <<>>
  /\ blocked = None
  /\ backlog = <<>>
  /\ peer = [c \in Conns |-> "none"]
  /\ inq = [c \in Conns |-> <<>>]

(* The process ends: whatever it held is gone and its peers are cut off. *)
Exit(how, ports) ==
  /\ status' = how
  /\ proc' = EmptyProcess(ports)
  /\ batch' = <<>>
  /\ blocked' = None
  /\ backlog' = <<>>
  /\ peer' = [c \in Conns |-> "none"]
  /\ inq' = [c \in Conns |-> <<>>]

-----------------------------------------------------------------------------
(* epoll.  A hang-up is always reported together with readability.  An empty
   batch is the 500 ms timeout. *)

ConnAt(fd) ==
  {proc.pending[fd]} \cup {proc.sessions[d].conn : d \in
      {e \in Live(proc) : proc.sessions[e].tcp_fd = fd}}

ReadyEvents ==
  {[fd |-> Listen, hup |-> FALSE] : i \in DOMAIN backlog}
  \cup {[fd |-> f, hup |-> TRUE] : f \in {g \in proc.epoll :
          g \in proc.eof \/ \E c \in ConnAt(g) \ {None} : peer[c] = "closed"}}
  \cup {[fd |-> f, hup |-> FALSE] : f \in {g \in proc.epoll :
          \/ g \in proc.rx \ proc.eof
          \/ \E c \in ConnAt(g) \ {None} : peer[c] = "open" /\ inq[c] # <<>>}}

EpollWait ==
  /\ status = "up" /\ blocked = None /\ batch = <<>>
  /\ LET n == Min({MAX_EVENTS, Cardinality(ReadyEvents)})
     IN batch' \in Injection(1 .. n, ReadyEvents)
  /\ UNCHANGED <<proc, status, blocked, backlog, peer, inq>>

Running == status \in {"up", "stopping"}

(* The next event; every handler that survives takes it off the batch. *)
Ev == Head(batch)

Dispatching == Running /\ blocked = None /\ batch # <<>>

Dispatch == Dispatching /\ batch' = Tail(batch)

(* Mutant: only the first socket accepted is watched. *)
OnTcpAcceptFirst ==
  /\ Dispatch /\ Ev.fd = Listen /\ backlog # <<>> /\ FreeFds(proc) # {}
  /\ LET q == AddPending(proc, NewFd(proc), Head(backlog))
     IN proc' = IF proc.open = {} THEN Watch(q, NewFd(proc)) ELSE q
  /\ backlog' = Tail(backlog)
  /\ UNCHANGED <<status, blocked, peer, inq>>

OnTcpAccept ==
  /\ Dispatch /\ Ev.fd = Listen /\ backlog # <<>>
  /\ IF FreeFds(proc) = {}
     THEN UNCHANGED <<proc, backlog>>
     ELSE LET fd == NewFd(proc)
              q == AddPending(proc, fd, Head(backlog))
          IN /\ proc' = IF AcceptWatched THEN Watch(q, fd) ELSE q
             /\ backlog' = Tail(backlog)
  /\ UNCHANGED <<status, blocked, peer, inq>>

-----------------------------------------------------------------------------
(* Events on TCP sockets. *)

KnownTcp == Ev.fd # Listen /\ proc.tcp_fd_map[Ev.fd] # None
KnownVhci == Ev.fd # Listen /\ proc.tcp_fd_map[Ev.fd] = None
               /\ proc.vhci_fd_map[Ev.fd] # None
Unknown == Ev.fd # Listen /\ proc.tcp_fd_map[Ev.fd] = None
               /\ proc.vhci_fd_map[Ev.fd] = None

OnTcpHangup ==
  /\ Dispatch /\ KnownTcp /\ Ev.hup
  /\ \E d \in findByTcpFd(proc, Ev.fd) : proc' = removeSession(proc, d)
  /\ UNCHANGED <<status, blocked, backlog, peer, inq>>

(* main calls onTcpReadable for a known TCP socket, and for any descriptor
   it does not know, hoping that it is a pending socket. *)
CallsOnTcpReadable == Dispatching /\ ((KnownTcp /\ ~Ev.hup) \/ Unknown)

(* The alternative to aliasing another session: the access faults. *)
TouchesFreedSession ==
  /\ Dispatching /\ KnownTcp
  /\ proc.tcp_fd_map[Ev.fd] = Freed
  /\ Ev.hup \/ proc.pending[Ev.fd] = None
  /\ Exit("killed", proc.ports)

OnUnknownFd ==
  /\ Dispatch /\ CallsOnTcpReadable /\ Unknown /\ proc.pending[Ev.fd] = None
  /\ UNCHANGED <<proc, status, blocked, backlog, peer, inq>>

(* recvExactly gives up: nothing to read yet, where a header or where a
   payload should begin, or the end of the stream. *)
Unreadable(c) ==
  inq[c] # <<>> => \/ Head(inq[c]).cmd = "HEADER"
                   \/ Head(inq[c]).cmd \in Parts /\ peer[c] = "closed"

(* recvExactly sleeps and tries again, in the middle of a frame.  No step of
   the loop is possible until the rest arrives or the peer closes. *)
MidFrame(c) ==
  /\ inq[c] # <<>> /\ Head(inq[c]).cmd \in Parts \ {"HEADER"}
  /\ peer[c] = "open"

OnTcpReadFails ==
  /\ Dispatch /\ CallsOnTcpReadable
  /\ \/ /\ proc.pending[Ev.fd] # None
        /\ Unreadable(proc.pending[Ev.fd])
        /\ proc' = ErasePending(proc, Ev.fd)
     \/ /\ proc.pending[Ev.fd] = None
        /\ \E d \in findByTcpFd(proc, Ev.fd), detached \in BOOLEAN :
             /\ proc.tcp_fd_map[Ev.fd] # Freed => Unreadable(proc.sessions[d].conn)
             /\ proc' = onDisconnect(proc, d, detached)
  /\ UNCHANGED <<status, blocked, backlog, peer, inq>>

(* One packet of connection c is read in full. *)
Readable(c) ==
  /\ CallsOnTcpReadable
  /\ c \in TcpSocketsOf(proc, Ev.fd)
  /\ inq[c] # <<>> /\ Head(inq[c]).cmd \notin Parts

Reads(c, cmd) ==
  /\ Readable(c) /\ Head(inq[c]).cmd = cmd
  /\ Dispatch
  /\ inq' = [inq EXCEPT ![c] = Tail(@)]

OnConnect(c) ==
  /\ Reads(c, "CONNECT")
  /\ \E detached, attached \in BOOLEAN : proc' =
       onConnectPacket(proc, Ev.fd, Head(inq[c]).dev, detached, attached)
  /\ UNCHANGED <<status, blocked, backlog, peer>>

OnDisconnect(c) ==
  /\ Reads(c, "DISCONNECT")
  /\ \E detached \in BOOLEAN :
       proc' = onDisconnect(proc, Head(inq[c]).dev, detached)
  /\ UNCHANGED <<status, blocked, backlog, peer>>

(* Whether RAW_DATA for the device goes to a socketpair the kernel has shut
   down.  writeToKernel uses write() and SIGPIPE has its default action. *)
BrokenPipe(dev) ==
  /\ dev \in Live(proc)
  /\ proc.sessions[dev].vhci_fd \in proc.eof

(* writeToKernel blocks for as long as the kernel does not read. *)
OnRawData(c) ==
  /\ Reads(c, "RAW_DATA") /\ ~BrokenPipe(Head(inq[c]).dev)
  /\ UNCHANGED <<proc, status, blocked, backlog, peer>>

OnRawDataSigpipe(c) ==
  /\ Readable(c) /\ Head(inq[c]).cmd = "RAW_DATA"
  /\ BrokenPipe(Head(inq[c]).dev)
  /\ Exit("killed", proc.ports)

OnLog(c) ==
  /\ Reads(c, "LOG")
  /\ UNCHANGED <<proc, status, blocked, backlog, peer>>

OnTcpPacket ==
  \E c \in Conns : \/ OnConnect(c) \/ OnDisconnect(c) \/ OnLog(c)
                  \/ OnRawData(c) \/ OnRawDataSigpipe(c)

-----------------------------------------------------------------------------
(* Events on the daemon's end of a socketpair. *)

OnVhciHangup ==
  /\ Dispatch /\ KnownVhci /\ Ev.hup
  /\ \E attached \in BOOLEAN :
       proc' = usbReset(proc, proc.vhci_fd_map[Ev.fd], attached)
  /\ UNCHANGED <<status, blocked, backlog, peer, inq>>

(* onVhciReadable loops on read() of a blocking descriptor: the loop stays
   inside until the kernel closes its end or a signal interrupts it. *)
OnVhciReadable ==
  /\ Dispatch /\ KnownVhci /\ ~Ev.hup
  /\ blocked' = proc.vhci_fd_map[Ev.fd]
  /\ UNCHANGED <<proc, status, backlog, peer, inq>>

BlockedFd == proc.sessions[blocked].vhci_fd

(* sendExactly spins for as long as the peer does not read. *)
ForwardToDevice ==
  /\ Running /\ blocked # None /\ BlockedFd \in proc.rx
  /\ proc' = [proc EXCEPT !.rx = @ \ {BlockedFd}]
  /\ UNCHANGED <<status, batch, blocked, backlog, peer, inq>>

(* The handler reports an error: the session is removed, nothing else. *)
ReadSeesEof ==
  /\ Running /\ blocked # None
  /\ BlockedFd \in proc.eof \ proc.rx
  /\ proc' = removeSession(proc, blocked)
  /\ blocked' = None
  /\ UNCHANGED <<status, batch, backlog, peer, inq>>

-----------------------------------------------------------------------------
(* Termination: the handler clears g_running.  A read() that the signal finds
   waiting returns EINTR, which onVhciReadable treats as an error; a signal
   that comes at any other moment leaves the handler where it is. *)

Signal ==
  /\ status = "up" \/ (Running /\ blocked # None)
  /\ status' = "stopping"
  /\ \/ UNCHANGED <<proc, blocked>>
     \/ /\ blocked # None /\ BlockedFd \notin proc.rx \cup proc.eof
        /\ proc' = removeSession(proc, blocked)
        /\ blocked' = None
  /\ UNCHANGED <<batch, backlog, peer, inq>>

Shutdown ==
  /\ status = "stopping" /\ batch = <<>> /\ blocked = None
  /\ \E ports \in detachAll(proc.ports) : Exit("down", ports)

Terminated == status \in {"down", "killed"} /\ UNCHANGED vars

-----------------------------------------------------------------------------
(* The environment. *)

Owned(c) ==
  \/ \E f \in Fds : proc.pending[f] = c
  \/ \E d \in Live(proc) : proc.sessions[d].conn = c

PeerConnect(c) ==
  /\ Running /\ peer[c] = "none"
  /\ peer' = [peer EXCEPT ![c] = "open"]
  /\ backlog' = Append(backlog, c)
  /\ UNCHANGED <<proc, status, batch, blocked, inq>>

(* The daemon has not closed its end. *)
Connected(c) == peer[c] = "open" /\ (c \in Range(backlog) \/ Owned(c))

Latest(c) == inq[c][Len(inq[c])]

HalfSent(c) == inq[c] # <<>> /\ Latest(c).cmd \in Parts

(* The parts that may follow a part. *)
Further(part) ==
  CASE part = "HALF_HEADER" -> {"HEADER", "HALF_PAYLOAD"}
    [] part = "HEADER" -> {"HALF_PAYLOAD"}
    [] OTHER -> {}

PeerSend(c) ==
  /\ Running /\ Connected(c) /\ Len(inq[c]) < MaxQueue /\ ~HalfSent(c)
  /\ \E pkt \in Packet : inq' = [inq EXCEPT ![c] = Append(@, pkt)]
  /\ UNCHANGED <<proc, status, batch, blocked, backlog, peer>>

(* More of a packet arrives. *)
PeerContinues(c) ==
  /\ Running /\ Connected(c) /\ HalfSent(c)
  /\ \E pkt \in Packet :
       /\ pkt.cmd \in Parts => pkt.cmd \in Further(Latest(c).cmd)
       /\ inq' = [inq EXCEPT ![c][Len(inq[c])] = pkt]
  /\ UNCHANGED <<proc, status, batch, blocked, backlog, peer>>

PeerClose(c) ==
  /\ Running /\ Connected(c)
  /\ peer' = [peer EXCEPT ![c] = "closed"]
  /\ UNCHANGED <<proc, status, batch, blocked, backlog, inq>>

KernelSend(d) ==
  /\ Running /\ d \in Live(proc) /\ proc.sessions[d].vhci_fd \notin proc.eof
  /\ proc' = [proc EXCEPT !.rx = @ \cup {proc.sessions[d].vhci_fd}]
  /\ UNCHANGED <<status, batch, blocked, backlog, peer, inq>>

KernelClose(d) ==
  /\ Running /\ d \in Live(proc)
  /\ proc' = [proc EXCEPT !.eof = @ \cup {proc.sessions[d].vhci_fd}]
  /\ UNCHANGED <<status, batch, blocked, backlog, peer, inq>>

-----------------------------------------------------------------------------

Loop ==
  \/ EpollWait \/ OnTcpAccept
  \/ OnTcpHangup \/ TouchesFreedSession \/ OnUnknownFd \/ OnTcpReadFails \/ OnTcpPacket
  \/ OnVhciHangup \/ OnVhciReadable \/ ForwardToDevice \/ ReadSeesEof
  \/ Shutdown

Environment ==
  \/ \E c \in Conns : \/ PeerConnect(c) \/ PeerSend(c) \/ PeerContinues(c)
                      \/ PeerClose(c)
  \/ \E d \in Devices : KernelSend(d) \/ KernelClose(d)

Next == Loop \/ Signal \/ Environment \/ Terminated

Spec == Init /\ [][Next]_vars

(* The step the loop is at returns when somebody else lets it: a send when
   the peer reads, a write when the kernel does. *)
WritesToKernel(c) ==
  /\ Readable(c) /\ Head(inq[c]).cmd = "RAW_DATA"
  /\ Head(inq[c]).dev \in Live(proc) /\ ~BrokenPipe(Head(inq[c]).dev)
PacedByOthers ==
  \/ blocked # None /\ BlockedFd \in proc.rx
  \/ \E c \in Conns : WritesToKernel(c)

(* The operating system schedules the process: a loop step that stays
   enabled is taken, unless it waits for others.  Nothing is assumed of
   peers, kernel or signals. *)
FairSpec == Spec /\ WF_vars(Loop /\ ~PacedByOthers)

-----------------------------------------------------------------------------
(* Properties. *)

(* Every variable, and every member of the process, keeps its type. *)
TypeOK ==
  /\ proc \in Process
  /\ status \in {"up", "stopping", "down", "killed"}
  /\ batch \in Seq(Event)
  /\ blocked \in Devices \cup {None}
  /\ backlog \in Seq(Conns)
  /\ peer \in [Conns -> {"none", "open", "closed"}]
  /\ inq \in [Conns -> Seq(Packet)]

Sess(d) == proc.sessions[d]
SessionFds(d) == {Sess(d).vhci_fd, Sess(d).kernel_fd, Sess(d).tcp_fd}
PendingFds == {f \in Fds : proc.pending[f] # None}

(* The port a live session was attached to is marked as taken and no other
   session has it, through replacements, USB resets, failed detaches and
   stale events: vhci.attach never hands out a port that is in use. *)
PortsExclusive ==
  \A d \in Live(proc) :
    /\ Sess(d).port \in Ports \ FreePorts(proc.ports)
    /\ \A e \in Live(proc) : Sess(e).port = Sess(d).port => e = d

(* The descriptor ledger: the open descriptors are those of the pending
   sockets and three for each session, none belongs to two owners, and none
   is left without one, on the error paths of attach and reset as well. *)
FdLedger ==
  /\ proc.open = PendingFds \cup UNION {SessionFds(d) : d \in Live(proc)}
  /\ \A d \in Live(proc) :
       /\ SessionFds(d) \cap PendingFds = {}
       /\ Sess(d).vhci_fd # Sess(d).kernel_fd
       /\ Sess(d).vhci_fd # Sess(d).tcp_fd
       /\ Sess(d).kernel_fd # Sess(d).tcp_fd
       /\ \A e \in Live(proc) : e # d => SessionFds(d) \cap SessionFds(e) = {}

(* A connection is queued in the backlog, pending, or owned by one session,
   never two of these: no two TcpSocket objects read the same stream. *)
ConnOwnedOnce ==
  /\ \A f, g \in PendingFds : proc.pending[f] = proc.pending[g] => f = g
  /\ \A d \in Live(proc) :
       /\ \A f \in PendingFds : proc.pending[f] # Sess(d).conn
       /\ \A e \in Live(proc) : Sess(e).conn = Sess(d).conn => e = d
  /\ \A i, j \in DOMAIN backlog : backlog[i] = backlog[j] => i = j
  /\ \A i \in DOMAIN backlog : ~Owned(backlog[i])

(* What the loop takes the owner of a descriptor to be: tcp_fd_map_ is asked
   first, vhci_fd_map_ only if that has no entry. *)
Lookup(f) == IF proc.tcp_fd_map[f] # None THEN proc.tcp_fd_map[f] ELSE proc.vhci_fd_map[f]

(* A live session stays in the loop's sight: both its descriptors are in the
   epoll set, the loop's lookup leads from its TCP socket to it, and from its
   end of the socketpair to it or to a dead entry that a failed USB reset left
   under that number, never to another session.  (The dead entry does cut the
   kernel's side of the session off: see KernelSideFound.) *)
SessionsServed ==
  \A d \in Live(proc) :
    /\ {Sess(d).vhci_fd, Sess(d).tcp_fd} \subseteq proc.epoll
    /\ Lookup(Sess(d).tcp_fd) = d
    /\ proc.vhci_fd_map[Sess(d).vhci_fd] = d
    /\ Lookup(Sess(d).vhci_fd) \in {d, Freed}

(* The maps hold no live pointer to a session under a descriptor that is not
   its own, and the handler the loop sits in belongs to a live session. *)
NoStrayPointers ==
  /\ \A f \in Fds : LET d == proc.vhci_fd_map[f] IN
       d # None => d \in Live(proc) /\ Sess(d).vhci_fd = f
  /\ \A f \in Fds : LET d == proc.tcp_fd_map[f] IN
       d \notin {None, Freed} => d \in Live(proc) /\ Sess(d).tcp_fd = f
  /\ blocked # None => blocked \in Live(proc)

(* A session's connection changes only to one that was pending: a USB reset
   re-attaches the device with the connection it had. *)
ConnectionKept ==
  [][\A d \in Live(proc) : Running' /\ Sess(d)' # None /\ Sess(d)'.conn # Sess(d).conn
        => \E f \in PendingFds : proc.pending[f] = Sess(d)'.conn]_vars

(* The loop is in no call that waits for somebody else: a kernel read or the
   send inside it, the middle of a frame, a write to the kernel. *)
LoopFree ==
  /\ blocked = None
  /\ ~\E c \in Conns : WritesToKernel(c)
  /\ CallsOnTcpReadable => ~\E c \in TcpSocketsOf(proc, Ev.fd) : MidFrame(c)

(* If the loop comes back from such calls again and again, what has arrived
   on a pending socket is read (and the socket then serves a session or is
   closed), whatever the other connections and the kernel do; unless the
   process ends or a dead map entry shadows the descriptor. *)
PendingServed ==
  []<>LoopFree => \A c \in Conns :
    (\E f \in PendingFds : proc.pending[f] = c /\ inq[c] # <<>>)
      ~> \/ inq[c] = <<>> \/ ~Running
         \/ \A f \in PendingFds : proc.pending[f] = c => proc.tcp_fd_map[f] = Freed

-----------------------------------------------------------------------------
(* What comments in the code promise and the code does not keep. *)

Abandoned == (Ports \ FreePorts(proc.ports)) \ {Sess(d).port : d \in Live(proc)}

(* main.cpp on the removeSession of a closed TCP socket: "This will clean it
   up"; of a handler error: "Trigger full disconnect".  Neither leaves a port
   taken that no session has. *)
CleanupFreesPort ==
  [][OnTcpHangup \/ ReadSeesEof => Abandoned' \subseteq Abandoned]_vars

(* HubServer.h on the lookups: "Session lookups for main's vhci HUP handling".
   The lookup of a live session's socketpair end finds that session. *)
KernelSideFound == \A d \in Live(proc) : Lookup(Sess(d).vhci_fd) = d

(* HubServer.h on removeSession: "erases the session from the maps". *)
NoDeadEntries == \A f \in Fds : proc.tcp_fd_map[f] # Freed

(* HubServer.cpp on a CONNECT for a device with a session: "closing old one
   first".  The connection the packet came on survives it. *)
ConnectKeepsConnection == [][\A c \in Conns : OnConnect(c) => Owned(c)']_vars

(* PassthroughHandler.cpp on a drained descriptor: "done for this epoll
   wakeup": the loop comes back from a handler. *)
LoopReturns == blocked # None ~> blocked = None

(* TcpSocket.cpp on an empty socket: "Clean EAGAIN, no data yet".  Only a
   peer that has closed is treated as disconnected. *)
EmptyIsNotClosed ==
  [][OnTcpReadFails => \A c \in Conns :
       Owned(c) /\ ~Owned(c)' => peer[c] = "closed"]_vars

(* PassthroughHandler.cpp reports a failed write to the kernel and returns
   false; the process outlives it. *)
SurvivesKernelClose == status # "killed"

=============================================================================
