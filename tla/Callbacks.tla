------------------------------ MODULE Callbacks ------------------------------
(***************************************************************************)
(* The callbacks daemon/src/main.cpp gives to HubServer, and its handling  *)
(* of a USB reset, as functions of the process: they tie the registry to   *)
(* the port table and to the socketpairs the kernel driver talks through.  *)
(***************************************************************************)
EXTENDS HubServer

CONSTANT SinPortMod    \* 2^16: sin_port carries an accepted fd to doUsbAttach

ASSUME SinPortAssumption == SinPortMod \in Nat \ {0}

(* The descriptors socketpair() returns, spv[0] first. *)
Socketpair(p) ==
  LET a == NewFd(p) IN <<a, Min(FreeFds(p) \ {a})>>

CanSocketpair(p) == \E a, b \in FreeFds(p) : a # b

Watch(p, fd) == [p EXCEPT !.epoll = @ \cup {fd}]

(* The common tail of both attach paths: the socketpair is open, the session
   registered, and the daemon's end of the pair watched. *)
StartSession(p, dev, port, tcp_fd, c) ==
  LET spv == Socketpair(p)
      q == [p EXCEPT !.open = @ \cup {spv[1], spv[2]},
                     !.epoll = @ \cup {spv[2]},
                     !.ports = MarkUsed(@, port)]
  IN addSession(q, dev, [port |-> port, vhci_fd |-> spv[2],
                         kernel_fd |-> spv[1], tcp_fd |-> tcp_fd, conn |-> c])

(* When the socketpair or the attach fails both ends are closed again.  When
   the pending socket is not found the port has been taken already.  The
   socket that is found is watched from here on. *)
doUsbAttach(p, dev, fd, attached) ==
  LET port == AttachedPort(p.ports, attached)
      client_fd == fd % SinPortMod
  IN IF ~CanSocketpair(p) \/ port = NoPort THEN p
     ELSE IF client_fd \notin Fds \/ p.pending[client_fd] = None
     THEN [p EXCEPT !.ports = MarkUsed(@, port)]
     ELSE StartSession(Watch(extractPendingSocket(p, client_fd), client_fd), dev, port,
                       client_fd, p.pending[client_fd])

onDisconnect(p, dev, detached) ==
  LET s == p.sessions[dev] IN
  IF s = None THEN p
  ELSE removeSession(
         [p EXCEPT !.epoll = @ \ {s.vhci_fd, s.tcp_fd},
                   !.ports = detach(@, s.port, detached)], dev)

(* A CONNECT packet: an old session of the device goes first; a new one
   starts only if the packet came from a pending socket. *)
onConnectPacket(p, fd, dev, detached, attached) ==
  LET q == onDisconnect(p, dev, detached) IN
  IF q.pending[fd] # None THEN doUsbAttach(q, dev, fd, attached) ELSE q

(* The kernel hung up: the session goes, its TCP socket having been moved
   out of it. *)
removeKeepingSocket(p, dev) ==
  removeSession([p EXCEPT !.sessions[dev].tcp_fd = NoFd,
                          !.sessions[dev].conn = None,
                          !.epoll = @ \ {p.sessions[dev].vhci_fd},
                          !.ports = freePort(@, p.sessions[dev].port)], dev)

(* Mutant: the socket is read after it was moved away. *)
usbResetMovedFrom(p, dev, attached) ==
  LET q == removeKeepingSocket(p, dev)
      port == AttachedPort(q.ports, attached)
  IN IF CanSocketpair(q) /\ port # NoPort
     THEN StartSession(q, dev, port, p.sessions[dev].tcp_fd, None)
     ELSE CloseFds(q, {p.sessions[dev].tcp_fd})

(* The device is attached again with the TCP socket it has, which is still
   watched.  If that fails the socket goes out of scope and is closed. *)
usbReset(p, dev, attached) ==
  LET s == p.sessions[dev]
      q == removeKeepingSocket(p, dev)
      port == AttachedPort(q.ports, attached)
  IN IF CanSocketpair(q) /\ port # NoPort
     THEN StartSession(q, dev, port, s.tcp_fd, s.conn)
     ELSE CloseFds(q, {s.tcp_fd})

==============================================================================
