----------------------------- MODULE HubServer ------------------------------
(***************************************************************************)
(* The session registry of daemon/src/network/HubServer: the map of live   *)
(* sessions, the two maps from descriptors to sessions, and the accepted   *)
(* sockets that have not introduced a device yet.                          *)
(*                                                                         *)
(* The daemon is single-threaded and its handlers call each other, so the  *)
(* process is one record `p' and every method is a function from processes *)
(* to processes; the main loop composes them into atomic steps.            *)
(***************************************************************************)
EXTENDS VhciDriver

CONSTANTS
  Devices,          \* device identifiers
  Conns,            \* TCP connections, each named by one value
  MaxFd,            \* descriptors the process may hold (RLIMIT_NOFILE)
  None,             \* no device, no connection, no session
  Freed             \* a DeviceSession pointer whose object was destroyed

ASSUME HubAssumption ==
  /\ MaxFd \in Nat
  /\ None \notin Devices \cup Conns
  /\ Freed \notin Devices \cup {None}

Fds == 1 .. MaxFd
NoFd == -1

Session == [port : Ports, vhci_fd : Fds, kernel_fd : Fds,
            tcp_fd : Fds \cup {NoFd}, conn : Conns \cup {None}]

ASSUME NoneIsNoSession == None \notin Session

(***************************************************************************)
(* open, epoll   descriptors that are open, and those main's epoll watches *)
(* rx, eof       socketpair ends with unread kernel bytes / a closed peer  *)
(* ports         VhciDriver's table                                        *)
(* The other four are HubServer's members.                                 *)
(***************************************************************************)
Process == [open : SUBSET Fds, epoll : SUBSET Fds,
            rx : SUBSET Fds, eof : SUBSET Fds,
            ports : PortTable,
            sessions : [Devices -> Session \cup {None}],
            vhci_fd_map : [Fds -> Devices \cup {None}],
            tcp_fd_map : [Fds -> Devices \cup {None, Freed}],
            pending : [Fds -> Conns \cup {None}]]

Live(p) == {d \in Devices : p.sessions[d] # None}

FreeFds(p) == Fds \ p.open

NewFd(p) == Min(FreeFds(p))

(* The last reference is gone: epoll forgets the descriptor by itself. *)
CloseFds(p, S) == [p EXCEPT !.open = @ \ S, !.epoll = @ \ S,
                            !.rx = @ \ S, !.eof = @ \ S]

-----------------------------------------------------------------------------

AddPending(p, fd, c) == [p EXCEPT !.open = @ \cup {fd}, !.pending[fd] = c]

(* Mutant: the entry is not erased. *)
extractPendingSocketKeeps(p, fd) == p

(* The descriptor stays open: ownership passes to the session. *)
extractPendingSocket(p, fd) == [p EXCEPT !.pending[fd] = None]

(* Erasing the entry destroys its TcpSocket, which closes. *)
ErasePending(p, fd) == CloseFds(extractPendingSocket(p, fd), {fd})

(* Mutants: one map is forgotten, or keyed by the wrong end of the pair. *)
addSessionNoTcp(p, dev, s) ==
  [p EXCEPT !.sessions[dev] = s, !.vhci_fd_map[s.vhci_fd] = dev]
addSessionKernelKey(p, dev, s) ==
  [p EXCEPT !.sessions[dev] = s,
            !.vhci_fd_map[s.kernel_fd] = dev,
            !.tcp_fd_map[s.tcp_fd] = dev]

addSession(p, dev, s) ==
  [p EXCEPT !.sessions[dev] = s,
            !.vhci_fd_map[s.vhci_fd] = dev,
            !.tcp_fd_map[s.tcp_fd] = dev]

(* Mutant: the kernel's end stays open. *)
removeSessionLeaks(p, dev) ==
  LET s == p.sessions[dev] IN
  IF s = None THEN p
  ELSE [CloseFds(p, {s.vhci_fd, s.tcp_fd})
          EXCEPT !.sessions[dev] = None,
                 !.vhci_fd_map[s.vhci_fd] = None,
                 !.tcp_fd_map[s.tcp_fd] = None]

(* The entry of tcp_fd_map_ is erased only while the session still owns its
   socket; any other entry for this session now points at a dead object. *)
removeSession(p, dev) ==
  LET s == p.sessions[dev] IN
  IF s = None THEN p
  ELSE [CloseFds(p, {s.vhci_fd, s.kernel_fd, s.tcp_fd})
          EXCEPT !.sessions[dev] = None,
                 !.vhci_fd_map[s.vhci_fd] = None,
                 !.tcp_fd_map = [f \in Fds |->
                     IF f = s.tcp_fd THEN None
                     ELSE IF @[f] = dev THEN Freed ELSE @[f]]]

(* What a lookup by TCP descriptor may hand to its caller.  A freed session
   object may have been reused for any other, so the pointer may alias any
   device's session. *)
findByTcpFd(p, fd) ==
  IF p.tcp_fd_map[fd] = Freed THEN Devices ELSE {p.tcp_fd_map[fd]} \ {None}

(* The connections readTcpPacket may read from: pending sockets first. *)
TcpSocketsOf(p, fd) ==
  IF p.pending[fd] # None THEN {p.pending[fd]}
  ELSE {p.sessions[d].conn : d \in findByTcpFd(p, fd) \cap Live(p)}

=============================================================================
