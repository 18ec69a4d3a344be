--------------------------- MODULE RegistryProofs ---------------------------
(***************************************************************************)
(* The session registry, for every number of devices, connections,         *)
(* descriptors and ports: what each method of HubServer and each callback  *)
(* of main makes of a process.  DaemonProofs builds on it.                 *)
(*                                                                         *)
(* The invariant Registry is stated of a process p, so that each method of *)
(* the daemon has one lemma, and the lemmas chain as the calls do.         *)
(* Between two calls of one handler a socket may belong to nobody yet: X   *)
(* and C are the descriptors and the connections in transit, empty between *)
(* steps.                                                                  *)
(***************************************************************************)
EXTENDS Callbacks, WellFoundedInduction, TLAPS

(* The session of device d is well formed and everything leads to it. *)
SessionOK(p, d) ==
  LET s == p.sessions[d] IN
  /\ s \in Session /\ s.tcp_fd \in Fds /\ s.conn \in Conns
  /\ s.vhci_fd # s.kernel_fd /\ s.vhci_fd # s.tcp_fd /\ s.kernel_fd # s.tcp_fd
  /\ {s.vhci_fd, s.kernel_fd, s.tcp_fd} \subseteq p.open
  /\ p.pending[s.vhci_fd] = None
  /\ p.pending[s.kernel_fd] = None
  /\ p.pending[s.tcp_fd] = None
  /\ s.vhci_fd \in p.epoll /\ s.tcp_fd \in p.epoll
  /\ p.ports[s.port]
  /\ p.vhci_fd_map[s.vhci_fd] = d
  /\ p.tcp_fd_map[s.tcp_fd] = d

FdsOf(p, d) == {p.sessions[d].vhci_fd, p.sessions[d].kernel_fd, p.sessions[d].tcp_fd}

(* Two sessions share nothing. *)
Apart(p, d, e) ==
  /\ p.sessions[d].port # p.sessions[e].port
  /\ p.sessions[d].conn # p.sessions[e].conn
  /\ FdsOf(p, d) \cap FdsOf(p, e) = {}

SessionsOK(p) == \A d \in Live(p) : SessionOK(p, d)

AllApart(p) == \A d, e \in Live(p) : d # e => Apart(p, d, e)

(* No session owns what is in transit. *)
ClearOf(p, X, C) ==
  \A d \in Live(p) : FdsOf(p, d) \cap X = {} /\ p.sessions[d].conn \notin C

(* A pending socket is open and its connection belongs to nobody else. *)
PendingOK(p, X, C) ==
  \A f \in Fds : p.pending[f] # None =>
    /\ f \in p.open /\ f \notin X /\ p.pending[f] \notin C
    /\ \A d \in Live(p) : p.sessions[d].conn # p.pending[f]
    /\ \A g \in Fds : p.pending[g] = p.pending[f] => g = f

(* Every open descriptor has an owner. *)
NoLeak(p, X) ==
  \A f \in p.open : \/ f \in X \/ p.pending[f] # None
                    \/ \E d \in Live(p) : f \in FdsOf(p, d)

VhciMapOK(p) ==
  \A f \in Fds : p.vhci_fd_map[f] # None =>
    /\ p.vhci_fd_map[f] \in Live(p)
    /\ p.sessions[p.vhci_fd_map[f]].vhci_fd = f

TcpMapOK(p) ==
  \A f \in Fds : p.tcp_fd_map[f] \notin {None, Freed} =>
    /\ p.tcp_fd_map[f] \in Live(p)
    /\ p.sessions[p.tcp_fd_map[f]].tcp_fd = f

Registry(p, X, C) ==
  /\ p \in Process
  /\ X \subseteq p.open
  /\ SessionsOK(p) /\ AllApart(p) /\ ClearOf(p, X, C)
  /\ PendingOK(p, X, C) /\ NoLeak(p, X)
  /\ VhciMapOK(p) /\ TcpMapOK(p)

OwnedIn(p) ==
  {p.pending[f] : f \in {g \in Fds : p.pending[g] # None}}
    \cup {p.sessions[d].conn : d \in Live(p)}

-----------------------------------------------------------------------------

(* A nonempty set of naturals has its minimum as an element: the lowest free
   descriptor and the first free port exist. *)
LEMMA MinInSet ==
  ASSUME NEW S, S \subseteq Nat, S # {}
  PROVE  Min(S) \in S
<1>1. \E x \in S : \A y \in S : ~(<<y, x>> \in OpToRel(<, Nat))
  BY WFMin, NatLessThanWellFounded, Zenon
<1>2. PICK x \in S : \A y \in S : ~(<<y, x>> \in OpToRel(<, Nat))
  BY <1>1, Zenon
<1>3. ASSUME NEW y \in S, ~(x =< y) PROVE FALSE
  <2>1. <<y, x>> \in {ss \in Nat \X Nat : ss[1] < ss[2]}
    BY <1>3
  <2>2. {ss \in Nat \X Nat : ss[1] < ss[2]} = OpToRel(<, Nat)
    BY Zenon DEF OpToRel
  <2> QED BY <1>2, <2>1, <2>2, Zenon
<1> QED BY <1>3, Zenon DEF Min

(* What removeSession(dev) makes of p, field by field. *)
RemovedFrom(p, q, dev) ==
  /\ q.open = p.open \ FdsOf(p, dev) /\ q.epoll = p.epoll \ FdsOf(p, dev)
  /\ q.ports = p.ports /\ q.pending = p.pending
  /\ q.sessions = [p.sessions EXCEPT ![dev] = None]
  /\ q.vhci_fd_map = [p.vhci_fd_map EXCEPT ![p.sessions[dev].vhci_fd] = None]
  /\ q.tcp_fd_map = [f \in Fds |->
       IF f = p.sessions[dev].tcp_fd THEN None
       ELSE IF p.tcp_fd_map[f] = dev THEN Freed ELSE p.tcp_fd_map[f]]

(* removeSession of a live session does to the process what RemovedFrom     *)
(* says.                                                                    *)
LEMMA RemoveFields ==
  ASSUME NEW p \in Process, NEW dev \in Devices, p.sessions[dev] # None
  PROVE  /\ removeSession(p, dev) \in Process
         /\ RemovedFrom(p, removeSession(p, dev), dev)
<1> DEFINE S == FdsOf(p, dev)
           q == removeSession(p, dev)
<1>1. p.sessions[dev] \in Session
  BY Zenon DEF Process
<1>2. /\ q.open = p.open \ S /\ q.epoll = p.epoll \ S
      /\ q.rx = p.rx \ S /\ q.eof = p.eof \ S
      /\ q.ports = p.ports /\ q.pending = p.pending
      /\ q.sessions = [p.sessions EXCEPT ![dev] = None]
      /\ q.vhci_fd_map = [p.vhci_fd_map EXCEPT ![p.sessions[dev].vhci_fd] = None]
      /\ q.tcp_fd_map = [f \in Fds |->
           IF f = p.sessions[dev].tcp_fd THEN None
           ELSE IF p.tcp_fd_map[f] = dev THEN Freed ELSE p.tcp_fd_map[f]]
  BY Zenon DEF removeSession, CloseFds, Process, FdsOf
<1>3. q \in Process
  <2>1. q.vhci_fd_map \in [Fds -> Devices \cup {None}]
    BY <1>1, <1>2 DEF Process, Session
  <2>2. q.tcp_fd_map \in [Fds -> Devices \cup {None, Freed}]
    BY <1>1, <1>2 DEF Process
  <2>3. q.sessions \in [Devices -> Session \cup {None}]
    BY <1>1, <1>2 DEF Process
  <2>4. q = [open |-> q.open, epoll |-> q.epoll, rx |-> q.rx, eof |-> q.eof,
             ports |-> q.ports, sessions |-> q.sessions,
             vhci_fd_map |-> q.vhci_fd_map, tcp_fd_map |-> q.tcp_fd_map,
             pending |-> q.pending]
    BY Zenon DEF removeSession, CloseFds, Process
  <2>5. /\ q.open \in SUBSET Fds /\ q.epoll \in SUBSET Fds
        /\ q.rx \in SUBSET Fds /\ q.eof \in SUBSET Fds
        /\ q.ports \in PortTable /\ q.pending \in [Fds -> Conns \cup {None}]
    BY <1>2, Zenon DEF Process
  <2> HIDE DEF q
  <2> QED BY <2>1, <2>2, <2>3, <2>4, <2>5, Zenon DEF Process
<1> QED BY <1>2, <1>3, Zenon DEF RemovedFrom

(* The session of dev is out of the registry, and its TCP socket closed with
   it (X and C empty) or kept for a re-attach. *)
Taken(p, q, dev, X, C) ==
  /\ X \subseteq {p.sessions[dev].tcp_fd} /\ C \subseteq {p.sessions[dev].conn}
  /\ q.open = p.open \ (FdsOf(p, dev) \ X)
  /\ \A f \in Fds \ FdsOf(p, dev) : f \in p.epoll => f \in q.epoll
  /\ \A i \in Ports \ {p.sessions[dev].port} : q.ports[i] = p.ports[i]
  /\ q.pending = p.pending
  /\ q.sessions = [p.sessions EXCEPT ![dev] = None]
  /\ \A f \in Fds : q.vhci_fd_map[f] =
       IF p.vhci_fd_map[f] = dev THEN None ELSE p.vhci_fd_map[f]
  /\ \A f \in Fds : IF p.tcp_fd_map[f] = dev THEN q.tcp_fd_map[f] \in {None, Freed}
                     ELSE q.tcp_fd_map[f] = p.tcp_fd_map[f]

(* Taking one session out keeps the registry sound, with what it held set   *)
(* aside in X and C.                                                        *)
LEMMA TakenKeepsRegistry ==
  ASSUME NEW p, Registry(p, {}, {}), NEW dev \in Live(p), NEW q \in Process,
         NEW X, NEW C, Taken(p, q, dev, X, C)
  PROVE  /\ Registry(q, X, C)
         /\ Live(q) = Live(p) \ {dev}
         /\ OwnedIn(q) \cup C \subseteq OwnedIn(p)
<1> USE DEF Taken
<1>1. p \in Process /\ dev \in Devices
  BY Zenon DEF Registry, Live
<1>2. Live(q) = Live(p) \ {dev}
  BY <1>1 DEF Live, Process
<1>3. \A e \in Live(q) : /\ e \in Live(p) /\ e # dev
                         /\ q.sessions[e] = p.sessions[e]
                         /\ FdsOf(q, e) = FdsOf(p, e)
  BY <1>1, <1>2, Zenon DEF Live, FdsOf, Process
<1>4. \A e \in Live(q) : Apart(p, e, dev)
  BY <1>3, Zenon DEF Registry, AllApart
<1>5. SessionOK(p, dev)
  BY Zenon DEF Registry, SessionsOK
<1>6. SessionsOK(q)
  <2> SUFFICES ASSUME NEW e \in Live(q) PROVE SessionOK(q, e)
    BY Zenon DEF SessionsOK
  <2>1. SessionOK(p, e) /\ Apart(p, e, dev) /\ e # dev
    BY <1>3, <1>4, Zenon DEF Registry, SessionsOK
  <2> DEFINE s == p.sessions[e]
  <2>2. s \in Session
    BY <2>1, Zenon DEF SessionOK
  <2>3. /\ q.sessions[e] = s /\ s.port \in Ports
        /\ s.vhci_fd \in Fds /\ s.kernel_fd \in Fds /\ s.tcp_fd \in Fds
    BY <1>3, <2>1, <2>2, Zenon DEF SessionOK, Session
  <2>4. {s.vhci_fd, s.kernel_fd, s.tcp_fd} \cap FdsOf(p, dev) = {}
    BY <2>1, Zenon DEF Apart, FdsOf
  <2>5. {s.vhci_fd, s.kernel_fd, s.tcp_fd} \subseteq q.open
    BY <2>1, <2>4, Zenon DEF SessionOK
  <2>6. s.vhci_fd \in q.epoll /\ s.tcp_fd \in q.epoll
    BY <2>1, <2>3, <2>4, Zenon DEF SessionOK
  <2>7. q.ports[s.port]
    BY <2>1, <2>3, Zenon DEF SessionOK, Apart
  <2>8. q.vhci_fd_map[s.vhci_fd] = e /\ q.tcp_fd_map[s.tcp_fd] = e
    BY <2>1, <2>3, Zenon DEF SessionOK
  <2>9. /\ s.conn \in Conns
        /\ s.vhci_fd # s.kernel_fd /\ s.vhci_fd # s.tcp_fd /\ s.kernel_fd # s.tcp_fd
        /\ q.pending[s.vhci_fd] = None /\ q.pending[s.kernel_fd] = None
        /\ q.pending[s.tcp_fd] = None
    BY <2>1, Zenon DEF SessionOK
  <2> HIDE DEF s
  <2> QED BY <2>2, <2>3, <2>5, <2>6, <2>7, <2>8, <2>9, Zenon DEF SessionOK
<1>7. AllApart(q)
  BY <1>3 DEF Registry, AllApart, Apart
<1>8. ClearOf(q, X, C)
  <2>1. X \subseteq FdsOf(p, dev)
    BY Zenon DEF FdsOf
  <2> QED BY <1>3, <1>4, <2>1 DEF Apart, ClearOf
<1>9. X \subseteq q.open
  BY <1>5 DEF SessionOK
<1>10. PendingOK(q, X, C)
  <2> SUFFICES ASSUME NEW f \in Fds, q.pending[f] # None
               PROVE  /\ f \in q.open /\ f \notin X /\ q.pending[f] \notin C
                      /\ \A d \in Live(q) : q.sessions[d].conn # q.pending[f]
                      /\ \A g \in Fds : q.pending[g] = q.pending[f] => g = f
    BY Zenon DEF PendingOK
  <2>1. /\ f \in p.open
        /\ \A d \in Live(p) : p.sessions[d].conn # p.pending[f]
        /\ \A g \in Fds : p.pending[g] = p.pending[f] => g = f
    BY Zenon DEF Registry, PendingOK
  <2>2. f \notin FdsOf(p, dev)
    BY <1>5, Zenon DEF SessionOK, FdsOf
  <2>3. f \notin X
    BY <2>2, Zenon DEF FdsOf
  <2> QED BY <1>3, <2>1, <2>2, <2>3, Zenon
<1>11. NoLeak(q, X)
  <2> SUFFICES ASSUME NEW f \in q.open, f \notin X, q.pending[f] = None
               PROVE  \E d \in Live(q) : f \in FdsOf(q, d)
    BY Zenon DEF NoLeak
  <2>1. f \in p.open /\ f \notin FdsOf(p, dev)
    OBVIOUS
  <2>2. PICK d \in Live(p) : f \in FdsOf(p, d)
    BY <2>1, Zenon DEF Registry, NoLeak
  <2>3. d \in Live(q)
    BY <1>2, <2>1, <2>2, Zenon
  <2> QED BY <1>3, <2>2, <2>3, Zenon
<1>12. VhciMapOK(q)
  BY <1>2, <1>3 DEF Registry, VhciMapOK
<1>13. TcpMapOK(q)
  BY <1>2, <1>3 DEF Registry, TcpMapOK
<1>14. OwnedIn(q) \cup C \subseteq OwnedIn(p)
  BY <1>3 DEF OwnedIn
<1> QED
  BY <1>2, <1>6, <1>7, <1>8, <1>9, <1>10, <1>11, <1>12, <1>13, <1>14, Zenon DEF Registry

(* The vhci map leads to a session from its own descriptor only. *)
LEMMA VhciEntry ==
  ASSUME NEW p, Registry(p, {}, {}), NEW dev \in Live(p), NEW f \in Fds
  PROVE  p.vhci_fd_map[f] = dev <=> f = p.sessions[dev].vhci_fd
<1>1. dev # None
  BY HubAssumption, Zenon DEF Live
<1>2. p.vhci_fd_map[f] = dev => f = p.sessions[dev].vhci_fd
  BY <1>1, Zenon DEF Registry, VhciMapOK
<1>3. SessionOK(p, dev)
  BY Zenon DEF Registry, SessionsOK
<1> QED BY <1>2, <1>3, Zenon DEF SessionOK

(* removeSession(dev) on its own: the TCP hang-up, handler-error and signal
   paths of the loop. *)
LEMMA RemoveSessionOK ==
  ASSUME NEW p, Registry(p, {}, {}), NEW dev \in Devices,
         NEW q, q = removeSession(p, dev)
  PROVE  Registry(q, {}, {}) /\ OwnedIn(q) \subseteq OwnedIn(p) /\ q.pending = p.pending
<1>1. p \in Process
  BY Zenon DEF Registry
<1>2. CASE p.sessions[dev] = None
  BY <1>2, Zenon DEF removeSession
<1>3. CASE p.sessions[dev] # None
  <2>1. dev \in Live(p)
    BY <1>3, Zenon DEF Live
  <2>2. SessionOK(p, dev)
    BY <2>1, Zenon DEF Registry, SessionsOK
  <2>3. q \in Process /\ RemovedFrom(p, q, dev)
    BY <1>1, <1>3, RemoveFields, Zenon
  <2>4. \A f \in Fds : q.vhci_fd_map[f] =
           IF p.vhci_fd_map[f] = dev THEN None ELSE p.vhci_fd_map[f]
    <3>1. p.vhci_fd_map \in [Fds -> Devices \cup {None}] /\ p.sessions[dev].vhci_fd \in Fds
      BY <1>1, <2>2, Zenon DEF Process, SessionOK, Session
    <3> QED BY <2>1, <2>3, <3>1, VhciEntry DEF RemovedFrom
  <2>5. Taken(p, q, dev, {}, {})
    BY <2>2, <2>3, <2>4 DEF SessionOK, RemovedFrom, Taken
  <2>6. q.pending = p.pending
    BY <2>3, Zenon DEF RemovedFrom
  <2> QED BY <2>1, <2>3, <2>5, <2>6, TakenKeepsRegistry, Zenon
<1> QED BY <1>2, <1>3, Zenon

(* main's disconnect callback: epoll_ctl, detach, removeSession. *)
LEMMA DisconnectOK ==
  ASSUME NEW p, Registry(p, {}, {}), NEW dev \in Devices, NEW detached \in BOOLEAN,
         NEW q, q = onDisconnect(p, dev, detached)
  PROVE  /\ Registry(q, {}, {}) /\ OwnedIn(q) \subseteq OwnedIn(p)
         /\ q.pending = p.pending /\ dev \notin Live(q)
<1>1. p \in Process
  BY Zenon DEF Registry
<1>2. CASE p.sessions[dev] = None
  BY <1>2, Zenon DEF onDisconnect, Live
<1>3. CASE p.sessions[dev] # None
  <2> DEFINE s == p.sessions[dev]
             r == [p EXCEPT !.epoll = @ \ {s.vhci_fd, s.tcp_fd},
                            !.ports = detach(@, s.port, detached)]
  <2>1. dev \in Live(p)
    BY <1>3, Zenon DEF Live
  <2>2. SessionOK(p, dev)
    BY <2>1, Zenon DEF Registry, SessionsOK
  <2>3. /\ detach(p.ports, s.port, detached) \in PortTable
        /\ \A i \in Ports \ {s.port} : detach(p.ports, s.port, detached)[i] = p.ports[i]
    BY <1>1, Zenon DEF detach, Process, PortTable
  <2>4. /\ r \in Process
        /\ r.open = p.open /\ r.epoll = p.epoll \ {s.vhci_fd, s.tcp_fd}
        /\ r.ports = detach(p.ports, s.port, detached) /\ r.pending = p.pending
        /\ r.sessions = p.sessions /\ r.vhci_fd_map = p.vhci_fd_map
        /\ r.tcp_fd_map = p.tcp_fd_map
    BY <1>1, <2>3, Zenon DEF Process
  <2>5. q = removeSession(r, dev)
    BY <1>3, Zenon DEF onDisconnect
  <2> HIDE DEF r
  <2>6. q \in Process /\ RemovedFrom(r, q, dev)
    BY <1>3, <2>4, <2>5, RemoveFields, Zenon
  <2>7. \A f \in Fds : q.vhci_fd_map[f] =
           IF p.vhci_fd_map[f] = dev THEN None ELSE p.vhci_fd_map[f]
    <3>1. p.vhci_fd_map \in [Fds -> Devices \cup {None}] /\ s.vhci_fd \in Fds
      BY <1>1, <2>2, Zenon DEF Process, SessionOK, Session
    <3> QED BY <2>1, <2>4, <2>6, <3>1, VhciEntry DEF RemovedFrom
  <2>8. FdsOf(r, dev) = FdsOf(p, dev)
    BY <2>4, Zenon DEF FdsOf
  <2>9. \A f \in Fds \ FdsOf(p, dev) : f \in p.epoll => f \in q.epoll
    BY <2>4, <2>6, <2>8, Zenon DEF FdsOf, RemovedFrom
  <2>10. Taken(p, q, dev, {}, {})
    <3>1. q.open = p.open \ (FdsOf(p, dev) \ {})
      BY <2>4, <2>6, <2>8, Zenon DEF RemovedFrom
    <3>2. /\ q.ports = r.ports /\ q.pending = p.pending
          /\ q.sessions = [p.sessions EXCEPT ![dev] = None]
      BY <2>4, <2>6, Zenon DEF RemovedFrom
    <3>3. \A f \in Fds : IF p.tcp_fd_map[f] = dev THEN q.tcp_fd_map[f] \in {None, Freed}
                          ELSE q.tcp_fd_map[f] = p.tcp_fd_map[f]
      BY <2>2, <2>4, <2>6 DEF RemovedFrom, SessionOK
    <3> QED BY <2>3, <2>4, <2>7, <2>9, <3>1, <3>2, <3>3 DEF Taken
  <2>11. q.pending = p.pending
    BY <2>4, <2>6, Zenon DEF RemovedFrom
  <2> QED BY <2>1, <2>6, <2>10, <2>11, TakenKeepsRegistry
<1> QED BY <1>2, <1>3, Zenon

-----------------------------------------------------------------------------

(* The two ends of a new socketpair were free and differ. *)
LEMMA SocketpairFds ==
  ASSUME NEW p, CanSocketpair(p)
  PROVE  /\ Socketpair(p)[1] \in FreeFds(p) /\ Socketpair(p)[2] \in FreeFds(p)
         /\ Socketpair(p)[1] # Socketpair(p)[2]
<1> DEFINE a == NewFd(p)
           T == FreeFds(p) \ {a}
<1>1. FreeFds(p) \subseteq Nat /\ FreeFds(p) # {}
  BY HubAssumption DEF FreeFds, Fds, CanSocketpair
<1>2. a \in FreeFds(p)
  BY <1>1, MinInSet, Zenon DEF NewFd
<1>3. T \subseteq Nat /\ T # {}
  BY <1>1 DEF CanSocketpair
<1>4. Min(T) \in T
  <2> HIDE DEF T
  <2> QED BY <1>3, MinInSet, Zenon
<1> QED BY <1>2, <1>4, Zenon DEF Socketpair

(* A session of dev has started on the descriptors a (kernel end), b and t. *)
Started(p, q, dev, port, a, b, t, c) ==
  /\ q.open = p.open \cup {a, b} /\ q.epoll = p.epoll \cup {b}
  /\ q.ports = [p.ports EXCEPT ![port] = TRUE] /\ q.pending = p.pending
  /\ q.sessions = [p.sessions EXCEPT ![dev] =
        [port |-> port, vhci_fd |-> b, kernel_fd |-> a, tcp_fd |-> t, conn |-> c]]
  /\ q.vhci_fd_map = [p.vhci_fd_map EXCEPT ![b] = dev]
  /\ q.tcp_fd_map = [p.tcp_fd_map EXCEPT ![t] = dev]

(* StartSession with room for a socketpair does to the process what Started *)
(* says.                                                                    *)
LEMMA StartFields ==
  ASSUME NEW p \in Process, NEW dev \in Devices, NEW port \in Ports,
         NEW t \in Fds, NEW c \in Conns, CanSocketpair(p)
  PROVE  /\ StartSession(p, dev, port, t, c) \in Process
         /\ Started(p, StartSession(p, dev, port, t, c), dev, port,
                    Socketpair(p)[1], Socketpair(p)[2], t, c)
<1> DEFINE a == Socketpair(p)[1]
           b == Socketpair(p)[2]
           s == [port |-> port, vhci_fd |-> b, kernel_fd |-> a, tcp_fd |-> t, conn |-> c]
           q == StartSession(p, dev, port, t, c)
<1>1. a \in Fds /\ b \in Fds
  BY SocketpairFds, Zenon DEF FreeFds
<1>2. s \in Session
  BY <1>1, Zenon DEF Session
<1>3. /\ q.open = p.open \cup {a, b} /\ q.epoll = p.epoll \cup {b}
      /\ q.rx = p.rx /\ q.eof = p.eof
      /\ q.ports = [p.ports EXCEPT ![port] = TRUE] /\ q.pending = p.pending
      /\ q.sessions = [p.sessions EXCEPT ![dev] = s]
      /\ q.vhci_fd_map = [p.vhci_fd_map EXCEPT ![b] = dev]
      /\ q.tcp_fd_map = [p.tcp_fd_map EXCEPT ![t] = dev]
  BY Zenon DEF StartSession, addSession, MarkUsed, Process
<1>4. q = [open |-> q.open, epoll |-> q.epoll, rx |-> q.rx, eof |-> q.eof,
           ports |-> q.ports, sessions |-> q.sessions,
           vhci_fd_map |-> q.vhci_fd_map, tcp_fd_map |-> q.tcp_fd_map,
           pending |-> q.pending]
  <2>1. PICK r : r = [p EXCEPT !.open = @ \cup {a, b}, !.epoll = @ \cup {b},
                               !.ports = MarkUsed(@, port)]
    OBVIOUS
  <2>2. q = addSession(r, dev, s)
    BY <2>1, Zenon DEF StartSession
  <2> HIDE DEF s, q, a, b
  <2>3. r = [open |-> r.open, epoll |-> r.epoll, rx |-> r.rx, eof |-> r.eof,
             ports |-> r.ports, sessions |-> r.sessions,
             vhci_fd_map |-> r.vhci_fd_map, tcp_fd_map |-> r.tcp_fd_map,
             pending |-> r.pending]
    BY <2>1, Zenon DEF Process
  <2> QED BY <2>2, <2>3, Zenon DEF addSession
<1> HIDE DEF q, s, a, b
<1>5. /\ q.open \in SUBSET Fds /\ q.epoll \in SUBSET Fds
      /\ q.rx \in SUBSET Fds /\ q.eof \in SUBSET Fds
      /\ q.ports \in PortTable /\ q.pending \in [Fds -> Conns \cup {None}]
  BY <1>1, <1>3 DEF Process, PortTable
<1>6. /\ q.sessions \in [Devices -> Session \cup {None}]
      /\ q.vhci_fd_map \in [Fds -> Devices \cup {None}]
      /\ q.tcp_fd_map \in [Fds -> Devices \cup {None, Freed}]
  BY <1>1, <1>2, <1>3 DEF Process
<1>7. q \in Process
  BY <1>4, <1>5, <1>6, Zenon DEF Process
<1> QED BY <1>3, <1>7, Zenon DEF Started, q, s, a, b

(* Both attach paths: a session started on a socket in transit that is
   watched, with a port that was free, completes the registry. *)
LEMMA StartKeepsRegistry ==
  ASSUME NEW t \in Fds, NEW c \in Conns, NEW p, Registry(p, {t}, {c}), t \in p.epoll,
         NEW dev \in Devices \ Live(p), NEW port \in FreePorts(p.ports),
         CanSocketpair(p), NEW q, q = StartSession(p, dev, port, t, c)
  PROVE  Registry(q, {}, {}) /\ OwnedIn(q) \subseteq OwnedIn(p) \cup {c}
<1>1. PICK a, b : a = Socketpair(p)[1] /\ b = Socketpair(p)[2]
  OBVIOUS
<1>2. /\ a \in Fds /\ b \in Fds /\ a \notin p.open /\ b \notin p.open
      /\ a # b /\ t \in p.open /\ port \in Ports /\ ~p.ports[port]
      /\ p \in Process
  BY <1>1, SocketpairFds, Zenon DEF FreeFds, FreePorts, Registry
<1>3. q \in Process /\ Started(p, q, dev, port, a, b, t, c)
  BY <1>1, <1>2, StartFields, Zenon
<1>4. PICK s : s = [port |-> port, vhci_fd |-> b, kernel_fd |-> a, tcp_fd |-> t, conn |-> c]
  BY Zenon
<1>f. /\ s.port = port /\ s.vhci_fd = b /\ s.kernel_fd = a /\ s.tcp_fd = t /\ s.conn = c
  BY <1>4, Zenon
<1>v. \A f \in Fds : q.vhci_fd_map[f] = IF f = b THEN dev ELSE p.vhci_fd_map[f]
  BY <1>2, <1>3 DEF Started, Process
<1>t. \A f \in Fds : q.tcp_fd_map[f] = IF f = t THEN dev ELSE p.tcp_fd_map[f]
  BY <1>2, <1>3 DEF Started, Process
<1>p. \A i \in Ports : i # port => q.ports[i] = p.ports[i]
  BY <1>2, <1>3, Zenon DEF Started, Process, PortTable
<1>5. s \in Session /\ s # None
  BY <1>2, <1>4, NoneIsNoSession DEF Session
<1>6. q.sessions[dev] = s /\ FdsOf(q, dev) = {a, b, t}
  BY <1>2, <1>3, <1>4 DEF Started, Process, FdsOf
<1>7. Live(q) = Live(p) \cup {dev}
  <2>1. p.sessions \in [Devices -> Session \cup {None}] /\ dev \in Devices
    BY <1>2, Zenon DEF Process
  <2>2. q.sessions = [p.sessions EXCEPT ![dev] = s]
    BY <1>3, <1>4, Zenon DEF Started
  <2> QED BY <1>5, <2>1, <2>2, Zenon DEF Live
<1>8. \A e \in Live(q) \ {dev} :
        /\ e \in Live(p) /\ q.sessions[e] = p.sessions[e] /\ FdsOf(q, e) = FdsOf(p, e)
  BY <1>2, <1>3, <1>7, Zenon DEF Started, Live, Process, FdsOf
<1>9. \A e \in Live(p) : /\ SessionOK(p, e)
                         /\ FdsOf(p, e) \subseteq p.open
                         /\ FdsOf(p, e) \cap {a, b, t} = {}
                         /\ p.sessions[e].conn # c
  <2>1. \A e \in Live(p) : /\ SessionOK(p, e) /\ t \notin FdsOf(p, e)
                           /\ p.sessions[e].conn # c
    BY Zenon DEF Registry, SessionsOK, ClearOf
  <2>2. \A e \in Live(p) : FdsOf(p, e) \subseteq p.open
    BY <2>1, Zenon DEF SessionOK, FdsOf
  <2> QED BY <1>2, <2>1, <2>2, Zenon
<1>10. \A f \in Fds : p.pending[f] # None => f \in p.open /\ f # t /\ p.pending[f] # c
  BY Zenon DEF Registry, PendingOK
<1>11. SessionOK(q, dev)
  <2>1. p.pending[a] = None /\ p.pending[b] = None /\ p.pending[t] = None
    BY <1>2, <1>10, Zenon
  <2>2. p.ports \in [Ports -> BOOLEAN] /\ q.ports = [p.ports EXCEPT ![port] = TRUE]
    BY <1>2, <1>3, Zenon DEF Started, Process, PortTable
  <2>3. q.vhci_fd_map[b] = dev /\ q.tcp_fd_map[t] = dev /\ q.ports[port]
    BY <1>2, <1>v, <1>t, <2>2, Zenon
  <2>4. {a, b, t} \subseteq q.open /\ b \in q.epoll /\ t \in q.epoll /\ q.pending = p.pending
    BY <1>2, <1>3, Zenon DEF Started, Registry
  <2>5. a # t /\ b # t
    BY <1>2, Zenon
  <2>6. s.tcp_fd \in Fds /\ s.conn \in Conns
    BY <1>f, Zenon
  <2>7. /\ q.pending[s.vhci_fd] = None /\ q.pending[s.kernel_fd] = None
        /\ q.pending[s.tcp_fd] = None
        /\ {s.vhci_fd, s.kernel_fd, s.tcp_fd} \subseteq q.open
        /\ s.vhci_fd \in q.epoll /\ s.tcp_fd \in q.epoll
    BY <1>f, <2>1, <2>4, Zenon
  <2>8. /\ q.vhci_fd_map[s.vhci_fd] = dev /\ q.tcp_fd_map[s.tcp_fd] = dev
        /\ q.ports[s.port]
        /\ s.vhci_fd # s.kernel_fd /\ s.vhci_fd # s.tcp_fd /\ s.kernel_fd # s.tcp_fd
    BY <1>2, <1>f, <2>3, <2>5, Zenon
  <2> QED BY <1>5, <1>6, <2>6, <2>7, <2>8, Zenon DEF SessionOK
<1>12. ASSUME NEW e \in Live(q), e # dev PROVE SessionOK(q, e)
  <2>1. PICK r : r = p.sessions[e]
    OBVIOUS
  <2>2. SessionOK(p, e) /\ q.sessions[e] = r /\ e \in Live(p)
    BY <1>8, <1>9, <1>12, <2>1, Zenon
  <2>3. {r.vhci_fd, r.kernel_fd, r.tcp_fd} \cap {a, b, t} = {}
    BY <1>9, <2>1, <2>2, Zenon DEF FdsOf
  <2>4. r \in Session /\ r.port \in Ports /\ r.vhci_fd \in Fds /\ r.tcp_fd \in Fds
    BY <2>1, <2>2, Zenon DEF SessionOK, Session
  <2>8. /\ p.vhci_fd_map[r.vhci_fd] = e /\ p.tcp_fd_map[r.tcp_fd] = e /\ p.ports[r.port]
        /\ r.conn \in Conns
        /\ r.vhci_fd # r.kernel_fd /\ r.vhci_fd # r.tcp_fd /\ r.kernel_fd # r.tcp_fd
        /\ {r.vhci_fd, r.kernel_fd, r.tcp_fd} \subseteq p.open
        /\ p.pending[r.vhci_fd] = None /\ p.pending[r.kernel_fd] = None
        /\ p.pending[r.tcp_fd] = None
        /\ r.vhci_fd \in p.epoll /\ r.tcp_fd \in p.epoll
    BY <2>1, <2>2, Zenon DEF SessionOK
  <2>5. q.vhci_fd_map[r.vhci_fd] = e /\ q.tcp_fd_map[r.tcp_fd] = e
    BY <1>v, <1>t, <2>3, <2>4, <2>8, Zenon
  <2>6. q.ports[r.port]
    BY <1>2, <1>p, <2>4, <2>8, Zenon
  <2>7. /\ p.open \subseteq q.open /\ p.epoll \subseteq q.epoll /\ q.pending = p.pending
    BY <1>3, Zenon DEF Started
  <2>9. {r.vhci_fd, r.kernel_fd, r.tcp_fd} \subseteq q.open
    BY <2>7, <2>8, Zenon
  <2>10. r.vhci_fd \in q.epoll /\ r.tcp_fd \in q.epoll
    BY <2>7, <2>8, Zenon
  <2>11. q.sessions[e] = r
    BY <2>2, Zenon
  <2> HIDE DEF Live
  <2> QED BY <2>4, <2>5, <2>6, <2>7, <2>8, <2>9, <2>10, <2>11, Zenon DEF SessionOK
<1>13. ASSUME NEW e \in Live(q), e # dev PROVE Apart(q, dev, e) /\ Apart(q, e, dev)
  <2>1. e \in Live(p) /\ q.sessions[e] = p.sessions[e] /\ FdsOf(q, e) = FdsOf(p, e)
    BY <1>8, <1>13, Zenon
  <2>2. FdsOf(p, e) \cap {a, b, t} = {} /\ p.sessions[e].conn # c
    BY <1>9, <2>1, Zenon
  <2>3. p.sessions[e].port # port
    <3>1. SessionOK(p, e)
      BY <1>9, <2>1, Zenon
    <3>2. p.ports[p.sessions[e].port]
      BY <3>1, Zenon DEF SessionOK
    <3> QED BY <1>2, <3>2, Zenon
  <2>4. q.sessions[dev].port = port /\ q.sessions[dev].conn = c
    BY <1>6, <1>f, Zenon
  <2> QED BY <1>6, <2>1, <2>2, <2>3, <2>4, Zenon DEF Apart
<1>14. AllApart(q)
  <2>1. ASSUME NEW d \in Live(q), NEW e \in Live(q), d # e, d # dev, e # dev
        PROVE  Apart(q, d, e)
    <3>1. Apart(p, d, e)
      BY <1>8, <2>1, Zenon DEF Registry, AllApart
    <3> QED BY <1>8, <2>1, <3>1, Zenon DEF Apart
  <2> QED BY <1>13, <2>1, Zenon DEF AllApart
<1>15. ASSUME NEW f \in Fds, q.pending[f] # None
       PROVE  /\ f \in q.open
              /\ \A d \in Live(q) : q.sessions[d].conn # q.pending[f]
              /\ \A g \in Fds : q.pending[g] = q.pending[f] => g = f
  <2>1. q.pending = p.pending /\ p.open \subseteq q.open
    BY <1>3, Zenon DEF Started
  <2>2. /\ f \in p.open /\ p.pending[f] # c
        /\ \A d \in Live(p) : p.sessions[d].conn # p.pending[f]
        /\ \A g \in Fds : p.pending[g] = p.pending[f] => g = f
    BY <1>15, <2>1, Zenon DEF Registry, PendingOK
  <2>3. q.sessions[dev].conn = c
    BY <1>6, <1>f, Zenon
  <2> QED BY <1>8, <2>1, <2>2, <2>3, Zenon
<1>16. ASSUME NEW f \in q.open, q.pending[f] = None
       PROVE  \E d \in Live(q) : f \in FdsOf(q, d)
  <2>1. CASE f \in {a, b, t}
    BY <1>6, <1>7, <2>1, Zenon
  <2>2. CASE f \notin {a, b, t}
    <3>1. f \in p.open /\ p.pending[f] = None
      BY <1>3, <1>16, <2>2, Zenon DEF Started
    <3>2. PICK d \in Live(p) : f \in FdsOf(p, d)
      BY <2>2, <3>1, Zenon DEF Registry, NoLeak
    <3> QED BY <1>7, <1>8, <3>2, Zenon
  <2> QED BY <2>1, <2>2, Zenon
<1>17. VhciMapOK(q)
  <2> SUFFICES ASSUME NEW f \in Fds, q.vhci_fd_map[f] # None
               PROVE  q.vhci_fd_map[f] \in Live(q) /\ q.sessions[q.vhci_fd_map[f]].vhci_fd = f
    BY Zenon DEF VhciMapOK
  <2>1. CASE f = b
    BY <1>6, <1>7, <1>f, <1>v, <2>1, Zenon
  <2>2. CASE f # b
    <3>1. q.vhci_fd_map[f] = p.vhci_fd_map[f]
      BY <1>v, <2>2, Zenon
    <3>2. p.vhci_fd_map[f] # None =>
            p.vhci_fd_map[f] \in Live(p) /\ p.sessions[p.vhci_fd_map[f]].vhci_fd = f
      BY Zenon DEF Registry, VhciMapOK
    <3> QED BY <1>7, <1>8, <3>1, <3>2, Zenon
  <2> QED BY <2>1, <2>2, Zenon
<1>18. TcpMapOK(q)
  <2> SUFFICES ASSUME NEW f \in Fds, q.tcp_fd_map[f] \notin {None, Freed}
               PROVE  q.tcp_fd_map[f] \in Live(q) /\ q.sessions[q.tcp_fd_map[f]].tcp_fd = f
    BY Zenon DEF TcpMapOK
  <2>1. CASE f = t
    BY <1>6, <1>7, <1>f, <1>t, <2>1, Zenon
  <2>2. CASE f # t
    <3>1. q.tcp_fd_map[f] = p.tcp_fd_map[f]
      BY <1>t, <2>2, Zenon
    <3>2. p.tcp_fd_map[f] \notin {None, Freed} =>
            p.tcp_fd_map[f] \in Live(p) /\ p.sessions[p.tcp_fd_map[f]].tcp_fd = f
      BY Zenon DEF Registry, TcpMapOK
    <3> QED BY <1>7, <1>8, <3>1, <3>2, Zenon
  <2> QED BY <2>1, <2>2, Zenon
<1>19. OwnedIn(q) \subseteq OwnedIn(p) \cup {c}
  <2>1. q.pending = p.pending /\ q.sessions[dev].conn = c
    BY <1>3, <1>6, <1>f, Zenon DEF Started
  <2> QED BY <1>8, <2>1, Zenon DEF OwnedIn
<1>20. SessionsOK(q)
  BY <1>11, <1>12, Zenon DEF SessionsOK
<1>21. PendingOK(q, {}, {})
  BY <1>15, Zenon DEF PendingOK
<1>22. NoLeak(q, {})
  BY <1>16, Zenon DEF NoLeak
<1>23. ClearOf(q, {}, {})
  BY Zenon DEF ClearOf
<1> QED BY <1>3, <1>14, <1>17, <1>18, <1>19, <1>20, <1>21, <1>22, <1>23, Zenon DEF Registry

-----------------------------------------------------------------------------

(* Whether sessions are apart depends on the sessions alone. *)
LEMMA ApartBySessions ==
  ASSUME NEW p, NEW q, q.sessions = p.sessions, AllApart(p)
  PROVE  /\ Live(q) = Live(p) /\ AllApart(q)
         /\ \A d : FdsOf(q, d) = FdsOf(p, d)
<1>1. Live(q) = Live(p)
  BY Zenon DEF Live
<1>2. \A d : FdsOf(q, d) = FdsOf(p, d)
  BY Zenon DEF FdsOf
<1>3. ASSUME NEW d, NEW e, Apart(p, d, e) PROVE Apart(q, d, e)
  <2>1. FdsOf(q, d) \cap FdsOf(q, e) = FdsOf(p, d) \cap FdsOf(p, e)
    BY <1>2
  <2>2. q.sessions[d] = p.sessions[d] /\ q.sessions[e] = p.sessions[e]
    OBVIOUS
  <2> QED BY <1>3, <2>1, <2>2, Zenon DEF Apart
<1> QED BY <1>1, <1>2, <1>3, Zenon DEF AllApart

(* Bytes arriving, more descriptors watched and more ports taken leave the
   registry as it was. *)
Alike(p, q) ==
  /\ q \in Process
  /\ q.open = p.open /\ q.sessions = p.sessions /\ q.pending = p.pending
  /\ q.vhci_fd_map = p.vhci_fd_map /\ q.tcp_fd_map = p.tcp_fd_map
  /\ p.epoll \subseteq q.epoll
  /\ \A i \in Ports : p.ports[i] => q.ports[i]

(* A process that differs in watched descriptors and taken ports only has a *)
(* sound registry as well.                                                  *)
LEMMA AlikeKeepsRegistry ==
  ASSUME NEW p, NEW X, NEW C, Registry(p, X, C), NEW q, Alike(p, q)
  PROVE  Registry(q, X, C) /\ OwnedIn(q) = OwnedIn(p) /\ Live(q) = Live(p)
<1> USE DEF Alike
<1>1. Live(q) = Live(p) /\ \A d \in Devices : FdsOf(q, d) = FdsOf(p, d)
  BY Zenon DEF Live, FdsOf
<1>2. OwnedIn(q) = OwnedIn(p)
  BY <1>1, Zenon DEF OwnedIn
<1>3. SessionsOK(q)
  <2> SUFFICES ASSUME NEW d \in Live(q) PROVE SessionOK(q, d)
    BY Zenon DEF SessionsOK
  <2>1. SessionOK(p, d)
    BY <1>1, Zenon DEF Registry, SessionsOK
  <2>2. p.sessions[d].port \in Ports
    BY <2>1, Zenon DEF SessionOK, Session
  <2> QED BY <2>1, <2>2, Zenon DEF SessionOK
<1>4. AllApart(q)
  BY ApartBySessions, Zenon DEF Registry
<1>8. ClearOf(q, X, C)
  <2>1. AllApart(p) /\ ClearOf(p, X, C)
    BY Zenon DEF Registry
  <2>2. Live(q) = Live(p) /\ \A d : FdsOf(q, d) = FdsOf(p, d)
    BY <2>1, ApartBySessions, Zenon
  <2> QED BY <2>1, <2>2 DEF ClearOf
<1>5. PendingOK(q, X, C)
  BY <1>1, Zenon DEF Registry, PendingOK
<1>6. NoLeak(q, X)
  BY <1>1, Zenon DEF Registry, NoLeak, Live
<1>7. VhciMapOK(q) /\ TcpMapOK(q)
  BY <1>1, Zenon DEF Registry, VhciMapOK, TcpMapOK
<1> QED BY <1>1, <1>2, <1>3, <1>4, <1>5, <1>6, <1>7, <1>8, Zenon DEF Registry

(* extractPendingSocket: the socket is in transit. *)
LEMMA ExtractOK ==
  ASSUME NEW p, Registry(p, {}, {}), NEW fd \in Fds, p.pending[fd] # None,
         NEW q, q = extractPendingSocket(p, fd)
  PROVE  /\ Registry(q, {fd}, {p.pending[fd]}) /\ p.pending[fd] \in Conns
         /\ OwnedIn(q) \subseteq OwnedIn(p) /\ p.pending[fd] \in OwnedIn(p)
         /\ q.open = p.open /\ q.ports = p.ports /\ Live(q) = Live(p)
<1>1. p \in Process /\ p.pending \in [Fds -> Conns \cup {None}] /\ p.pending[fd] \in Conns
  <2>1. p \in Process
    BY Zenon DEF Registry
  <2>2. p.pending \in [Fds -> Conns \cup {None}]
    BY <2>1, Zenon DEF Process
  <2> QED BY <2>1, <2>2, Zenon
<1>2. /\ q \in Process
      /\ q.open = p.open /\ q.sessions = p.sessions /\ q.epoll = p.epoll
      /\ q.vhci_fd_map = p.vhci_fd_map /\ q.tcp_fd_map = p.tcp_fd_map
      /\ q.ports = p.ports /\ q.pending = [p.pending EXCEPT ![fd] = None]
  BY <1>1, Zenon DEF extractPendingSocket, Process
<1>3. Live(q) = Live(p) /\ \A d \in Devices : FdsOf(q, d) = FdsOf(p, d)
  BY <1>2, Zenon DEF Live, FdsOf
<1>4. q.pending[fd] = None /\ \A f \in Fds \ {fd} : q.pending[f] = p.pending[f]
  BY <1>1, <1>2, Zenon
<1>5. OwnedIn(q) \subseteq OwnedIn(p)
  BY <1>2, <1>3, <1>4 DEF OwnedIn
<1>6. p.pending[fd] \in OwnedIn(p)
  BY Zenon DEF OwnedIn
<1>7. SessionsOK(q) /\ ClearOf(q, {fd}, {p.pending[fd]})
  <2> SUFFICES ASSUME NEW d \in Live(q)
               PROVE  /\ SessionOK(q, d) /\ fd \notin FdsOf(q, d)
                      /\ q.sessions[d].conn # p.pending[fd]
    BY Zenon DEF SessionsOK, ClearOf
  <2>1. SessionOK(p, d) /\ d \in Devices
    BY <1>3, Zenon DEF Registry, SessionsOK, Live
  <2>2. PICK s : s = p.sessions[d]
    OBVIOUS
  <2>3. /\ s \in Session /\ s.tcp_fd \in Fds /\ s.conn \in Conns
        /\ s.vhci_fd # s.kernel_fd /\ s.vhci_fd # s.tcp_fd /\ s.kernel_fd # s.tcp_fd
        /\ {s.vhci_fd, s.kernel_fd, s.tcp_fd} \subseteq p.open
        /\ p.pending[s.vhci_fd] = None /\ p.pending[s.kernel_fd] = None
        /\ p.pending[s.tcp_fd] = None
        /\ s.vhci_fd \in p.epoll /\ s.tcp_fd \in p.epoll /\ p.ports[s.port]
        /\ p.vhci_fd_map[s.vhci_fd] = d /\ p.tcp_fd_map[s.tcp_fd] = d
    BY <2>1, <2>2, Zenon DEF SessionOK
  <2>4. s.vhci_fd \in Fds /\ s.kernel_fd \in Fds
    BY <2>3, Zenon DEF Session
  <2>5. /\ q.pending[s.vhci_fd] = None /\ q.pending[s.kernel_fd] = None
        /\ q.pending[s.tcp_fd] = None
    BY <1>4, <2>3, <2>4, Zenon
  <2>6. q.sessions[d] = s
    BY <1>2, <2>2, Zenon
  <2>7. SessionOK(q, d)
    BY <1>2, <2>3, <2>5, <2>6 DEF SessionOK
  <2>8. fd \notin FdsOf(q, d)
    BY <2>3, <2>6, Zenon DEF FdsOf
  <2>9. q.sessions[d].conn # p.pending[fd]
    BY <1>3, <2>2, <2>6, Zenon DEF Registry, PendingOK
  <2> QED BY <2>7, <2>8, <2>9, Zenon
<1>8. AllApart(q)
  BY <1>2, ApartBySessions, Zenon DEF Registry
<1>9. PendingOK(q, {fd}, {p.pending[fd]})
  <2> SUFFICES ASSUME NEW f \in Fds, q.pending[f] # None
               PROVE  /\ f \in q.open /\ f # fd /\ q.pending[f] # p.pending[fd]
                      /\ \A d \in Live(q) : q.sessions[d].conn # q.pending[f]
                      /\ \A g \in Fds : q.pending[g] = q.pending[f] => g = f
    BY Zenon DEF PendingOK
  <2>1. f # fd /\ q.pending[f] = p.pending[f]
    BY <1>4, Zenon
  <2>2. /\ f \in p.open
        /\ \A d \in Live(p) : p.sessions[d].conn # p.pending[f]
        /\ \A g \in Fds : p.pending[g] = p.pending[f] => g = f
    BY <2>1, Zenon DEF Registry, PendingOK
  <2> QED BY <1>2, <1>3, <1>4, <2>1, <2>2
<1>10. NoLeak(q, {fd})
  <2>1. q.open \subseteq Fds /\ Live(q) \subseteq Devices
    BY <1>2, Zenon DEF Process, Live
  <2> QED BY <1>2, <1>3, <1>4, <2>1 DEF Registry, NoLeak
<1>11. fd \in q.open
  BY <1>2, Zenon DEF Registry, PendingOK
<1>12. VhciMapOK(q) /\ TcpMapOK(q)
  BY <1>2, <1>3, Zenon DEF Registry, VhciMapOK, TcpMapOK
<1>13. Registry(q, {fd}, {p.pending[fd]})
  BY <1>2, <1>7, <1>8, <1>9, <1>10, <1>11, <1>12, Zenon DEF Registry
<1> QED BY <1>1, <1>2, <1>3, <1>5, <1>6, <1>13, Zenon

(* A socket in transit that goes out of scope is closed, and no trace of it
   is left. *)
LEMMA ReleaseOK ==
  ASSUME NEW t \in Fds, NEW c, NEW p, Registry(p, {t}, {c}), NEW q, q = CloseFds(p, {t})
  PROVE  Registry(q, {}, {}) /\ OwnedIn(q) = OwnedIn(p)
<1>1. p \in Process
  BY Zenon DEF Registry
<1>2. /\ q \in Process
      /\ q.open = p.open \ {t} /\ q.sessions = p.sessions /\ q.epoll = p.epoll \ {t}
      /\ q.vhci_fd_map = p.vhci_fd_map /\ q.tcp_fd_map = p.tcp_fd_map
      /\ q.ports = p.ports /\ q.pending = p.pending
  BY <1>1, Zenon DEF CloseFds, Process
<1>3. Live(q) = Live(p) /\ \A d \in Live(q) : FdsOf(q, d) = FdsOf(p, d)
  BY <1>2, Zenon DEF Live, FdsOf
<1>4. OwnedIn(q) = OwnedIn(p)
  BY <1>2, <1>3, Zenon DEF OwnedIn
<1>5. SessionsOK(q)
  <2> SUFFICES ASSUME NEW d \in Live(q) PROVE SessionOK(q, d)
    BY Zenon DEF SessionsOK
  <2>1. SessionOK(p, d) /\ t \notin FdsOf(p, d)
    BY <1>3, Zenon DEF Registry, SessionsOK, ClearOf
  <2>2. PICK s : s = p.sessions[d]
    OBVIOUS
  <2>3. /\ s \in Session /\ s.tcp_fd \in Fds /\ s.conn \in Conns
        /\ s.vhci_fd # s.kernel_fd /\ s.vhci_fd # s.tcp_fd /\ s.kernel_fd # s.tcp_fd
        /\ {s.vhci_fd, s.kernel_fd, s.tcp_fd} \subseteq p.open
        /\ p.pending[s.vhci_fd] = None /\ p.pending[s.kernel_fd] = None
        /\ p.pending[s.tcp_fd] = None
        /\ s.vhci_fd \in p.epoll /\ s.tcp_fd \in p.epoll /\ p.ports[s.port]
        /\ p.vhci_fd_map[s.vhci_fd] = d /\ p.tcp_fd_map[s.tcp_fd] = d
    BY <2>1, <2>2, Zenon DEF SessionOK
  <2>4. t \notin {s.vhci_fd, s.kernel_fd, s.tcp_fd}
    BY <2>1, <2>2, Zenon DEF FdsOf
  <2>5. {s.vhci_fd, s.kernel_fd, s.tcp_fd} \subseteq q.open
    BY <1>2, <2>3, <2>4, Zenon
  <2>6. s.vhci_fd \in q.epoll /\ s.tcp_fd \in q.epoll /\ q.sessions[d] = s
    BY <1>2, <2>2, <2>3, <2>4, Zenon
  <2> QED BY <1>2, <2>3, <2>5, <2>6 DEF SessionOK
<1>6. AllApart(q)
  BY <1>2, ApartBySessions, Zenon DEF Registry
<1>7. PendingOK(q, {}, {})
  <2> SUFFICES ASSUME NEW f \in Fds, q.pending[f] # None
               PROVE  /\ f \in q.open
                      /\ \A d \in Live(q) : q.sessions[d].conn # q.pending[f]
                      /\ \A g \in Fds : q.pending[g] = q.pending[f] => g = f
    BY Zenon DEF PendingOK
  <2>1. /\ f \in p.open /\ f # t
        /\ \A d \in Live(p) : p.sessions[d].conn # p.pending[f]
        /\ \A g \in Fds : p.pending[g] = p.pending[f] => g = f
    BY <1>2, Zenon DEF Registry, PendingOK
  <2> QED BY <1>2, <1>3, <2>1, Zenon
<1>8. NoLeak(q, {})
  BY <1>2, <1>3, Zenon DEF Registry, NoLeak
<1>9. VhciMapOK(q) /\ TcpMapOK(q)
  BY <1>2, <1>3, Zenon DEF Registry, VhciMapOK, TcpMapOK
<1>10. ClearOf(q, {}, {})
  BY Zenon DEF ClearOf
<1> QED BY <1>2, <1>4, <1>5, <1>6, <1>7, <1>8, <1>9, <1>10, Zenon DEF Registry

(* onTcpAccept: an accepted connection that nobody owns becomes pending. *)
LEMMA AcceptOK ==
  ASSUME NEW p, Registry(p, {}, {}), NEW fd \in FreeFds(p),
         NEW c \in Conns \ OwnedIn(p), NEW q, q = AddPending(p, fd, c)
  PROVE  Registry(q, {}, {}) /\ OwnedIn(q) \subseteq OwnedIn(p) \cup {c}
<1>1. p \in Process /\ fd \in Fds /\ fd \notin p.open /\ c # None
  BY HubAssumption, Zenon DEF Registry, FreeFds
<1>2. /\ q \in Process
      /\ q.open = p.open \cup {fd} /\ q.sessions = p.sessions /\ q.epoll = p.epoll
      /\ q.vhci_fd_map = p.vhci_fd_map /\ q.tcp_fd_map = p.tcp_fd_map
      /\ q.ports = p.ports /\ q.pending = [p.pending EXCEPT ![fd] = c]
  BY <1>1, Zenon DEF AddPending, Process
<1>3. Live(q) = Live(p) /\ \A d \in Live(q) : FdsOf(q, d) = FdsOf(p, d)
  BY <1>2, Zenon DEF Live, FdsOf
<1>4. q.pending[fd] = c /\ \A f \in Fds \ {fd} : q.pending[f] = p.pending[f]
  <2>1. p.pending \in [Fds -> Conns \cup {None}]
    BY <1>1, Zenon DEF Process
  <2> QED BY <1>1, <1>2, <2>1, Zenon
<1>5. OwnedIn(q) \subseteq OwnedIn(p) \cup {c}
  BY <1>2, <1>3, <1>4 DEF OwnedIn
<1>6. /\ \A f \in Fds : p.pending[f] # c
      /\ \A d \in Live(p) : p.sessions[d].conn # c
  BY <1>1, Zenon DEF OwnedIn
<1>7. SessionsOK(q)
  <2> SUFFICES ASSUME NEW d \in Live(q) PROVE SessionOK(q, d)
    BY Zenon DEF SessionsOK
  <2>1. SessionOK(p, d)
    BY <1>3, Zenon DEF Registry, SessionsOK
  <2>2. PICK s : s = p.sessions[d]
    OBVIOUS
  <2>3. /\ s \in Session /\ s.tcp_fd \in Fds /\ s.conn \in Conns
        /\ s.vhci_fd # s.kernel_fd /\ s.vhci_fd # s.tcp_fd /\ s.kernel_fd # s.tcp_fd
        /\ {s.vhci_fd, s.kernel_fd, s.tcp_fd} \subseteq p.open
        /\ p.pending[s.vhci_fd] = None /\ p.pending[s.kernel_fd] = None
        /\ p.pending[s.tcp_fd] = None
        /\ s.vhci_fd \in p.epoll /\ s.tcp_fd \in p.epoll /\ p.ports[s.port]
        /\ p.vhci_fd_map[s.vhci_fd] = d /\ p.tcp_fd_map[s.tcp_fd] = d
    BY <2>1, <2>2, Zenon DEF SessionOK
  <2>4. s.vhci_fd \in Fds /\ s.kernel_fd \in Fds
    BY <2>3, Zenon DEF Session
  <2>5. /\ q.pending[s.vhci_fd] = None /\ q.pending[s.kernel_fd] = None
        /\ q.pending[s.tcp_fd] = None
    BY <1>1, <1>4, <2>3, <2>4, Zenon
  <2>6. q.sessions[d] = s /\ p.open \subseteq q.open
    BY <1>2, <2>2, Zenon
  <2> QED BY <1>2, <2>3, <2>5, <2>6 DEF SessionOK
<1>8. AllApart(q)
  BY <1>2, ApartBySessions, Zenon DEF Registry
<1>9. PendingOK(q, {}, {})
  <2> SUFFICES ASSUME NEW f \in Fds, q.pending[f] # None
               PROVE  /\ f \in q.open
                      /\ \A d \in Live(q) : q.sessions[d].conn # q.pending[f]
                      /\ \A g \in Fds : q.pending[g] = q.pending[f] => g = f
    BY Zenon DEF PendingOK
  <2>1. CASE f = fd
    BY <1>2, <1>3, <1>4, <1>6, <2>1, Zenon
  <2>2. CASE f # fd
    <3>1. /\ f \in p.open
          /\ \A d \in Live(p) : p.sessions[d].conn # p.pending[f]
          /\ \A g \in Fds : p.pending[g] = p.pending[f] => g = f
      BY <1>4, <2>2, Zenon DEF Registry, PendingOK
    <3> QED BY <1>2, <1>3, <1>4, <1>6, <2>2, <3>1
  <2> QED BY <2>1, <2>2, Zenon
<1>10. NoLeak(q, {})
  <2>1. q.open \subseteq Fds
    BY <1>2, Zenon DEF Process
  <2> QED BY <1>1, <1>2, <1>3, <1>4, <2>1, Zenon DEF Registry, NoLeak
<1>11. VhciMapOK(q) /\ TcpMapOK(q)
  BY <1>2, <1>3 DEF Registry, VhciMapOK, TcpMapOK
<1>12. ClearOf(q, {}, {})
  BY Zenon DEF ClearOf
<1> QED BY <1>2, <1>5, <1>7, <1>8, <1>9, <1>10, <1>11, <1>12, Zenon DEF Registry

-----------------------------------------------------------------------------

(* The port attach() returns was free. *)
LEMMA AttachedPortFree ==
  ASSUME NEW ports, NEW written, AttachedPort(ports, written) # NoPort
  PROVE  AttachedPort(ports, written) \in FreePorts(ports)
<1>1. FreePorts(ports) # {} /\ AttachedPort(ports, written) = Min(FreePorts(ports))
  BY DEF AttachedPort
<1>2. FreePorts(ports) \subseteq Nat
  BY MaxPortsAssumption DEF FreePorts, Ports
<1> QED BY <1>1, <1>2, MinInSet, Zenon

(* A process changed only by a port that is now taken. *)
LEMMA MarkUsedOK ==
  ASSUME NEW p, Registry(p, {}, {}), NEW port \in Ports,
         NEW q, q = [p EXCEPT !.ports = MarkUsed(@, port)]
  PROVE  Registry(q, {}, {}) /\ OwnedIn(q) = OwnedIn(p)
<1>1. p \in Process
  BY Zenon DEF Registry
<1>2. MarkUsed(p.ports, port) \in PortTable
        /\ \A i \in Ports : p.ports[i] => MarkUsed(p.ports, port)[i]
  BY <1>1 DEF Process, PortTable, MarkUsed
<1>3. Alike(p, q)
  BY <1>1, <1>2 DEF Process, Alike
<1> QED BY <1>3, AlikeKeepsRegistry, Zenon

(* epollAdd of a descriptor changes nothing else. *)
LEMMA WatchIsAlike ==
  ASSUME NEW p \in Process, NEW t \in Fds
  PROVE  Alike(p, Watch(p, t)) /\ t \in Watch(p, t).epoll
<1> DEFINE q == Watch(p, t)
<1>1. /\ q \in Process
      /\ q.open = p.open /\ q.sessions = p.sessions /\ q.pending = p.pending
      /\ q.vhci_fd_map = p.vhci_fd_map /\ q.tcp_fd_map = p.tcp_fd_map
      /\ q.epoll = p.epoll \cup {t} /\ q.ports = p.ports
  BY Zenon DEF Watch, Process
<1> HIDE DEF q
<1>2. Alike(p, q) /\ t \in q.epoll
  BY <1>1, Zenon DEF Alike
<1> QED BY <1>2, Zenon DEF q

(* doUsbAttach, on every path: the device gets a session on the socket that
   was pending at client_fd, or nothing changes but perhaps a port. *)
LEMMA AttachOK ==
  ASSUME NEW p, Registry(p, {}, {}), NEW dev \in Devices \ Live(p), NEW fd,
         NEW attached, NEW q, q = doUsbAttach(p, dev, fd, attached)
  PROVE  Registry(q, {}, {}) /\ OwnedIn(q) \subseteq OwnedIn(p)
<1>1. PICK port : port = AttachedPort(p.ports, attached)
  OBVIOUS
<1>2. PICK t : t = fd % SinPortMod
  OBVIOUS
<1>3. CASE ~CanSocketpair(p) \/ port = NoPort
  BY <1>1, <1>3 DEF doUsbAttach
<1>4. CASE CanSocketpair(p) /\ port # NoPort /\ (t \notin Fds \/ p.pending[t] = None)
  <2>1. port \in Ports
    BY <1>1, <1>4, AttachedPortFree DEF FreePorts
  <2>2. q = [p EXCEPT !.ports = MarkUsed(@, port)]
    BY <1>1, <1>2, <1>4 DEF doUsbAttach
  <2> QED BY <2>1, <2>2, MarkUsedOK, Zenon
<1>5. CASE CanSocketpair(p) /\ port # NoPort /\ t \in Fds /\ p.pending[t] # None
  <2>1. PICK x, r, c : x = extractPendingSocket(p, t) /\ r = Watch(x, t) /\ c = p.pending[t]
    BY Zenon
  <2>2. /\ Registry(r, {t}, {c}) /\ c \in Conns /\ OwnedIn(r) \subseteq OwnedIn(p)
        /\ c \in OwnedIn(p) /\ r.open = p.open /\ r.ports = p.ports /\ Live(r) = Live(p)
        /\ t \in r.epoll
    <3>1. /\ Registry(x, {t}, {c}) /\ c \in Conns /\ OwnedIn(x) \subseteq OwnedIn(p)
          /\ c \in OwnedIn(p) /\ x.open = p.open /\ x.ports = p.ports /\ Live(x) = Live(p)
      BY <1>5, <2>1, ExtractOK, Zenon
    <3>2. x \in Process
      BY <3>1, Zenon DEF Registry
    <3>3. Alike(x, r) /\ t \in r.epoll
      BY <1>5, <2>1, <3>2, WatchIsAlike, Zenon
    <3>4. Registry(r, {t}, {c}) /\ OwnedIn(r) = OwnedIn(x) /\ Live(r) = Live(x)
      BY <3>1, <3>3, AlikeKeepsRegistry, Zenon
    <3>5. r.open = x.open /\ r.ports = x.ports
      BY <2>1, <3>2, Zenon DEF Watch, Process
    <3> QED BY <3>1, <3>3, <3>4, <3>5, Zenon
  <2>3. CanSocketpair(r)
    BY <1>5, <2>2, Zenon DEF CanSocketpair, FreeFds
  <2>4. port \in FreePorts(r.ports)
    BY <1>1, <1>5, <2>2, AttachedPortFree, Zenon
  <2>5. q = StartSession(r, dev, port, t, c)
    BY <1>1, <1>2, <1>5, <2>1 DEF doUsbAttach
  <2>6. Registry(q, {}, {}) /\ OwnedIn(q) \subseteq OwnedIn(r) \cup {c}
    BY <1>5, <2>2, <2>3, <2>4, <2>5, StartKeepsRegistry, Zenon
  <2> QED BY <2>2, <2>6
<1> QED BY <1>3, <1>4, <1>5, Zenon

(* A CONNECT packet. *)
LEMMA ConnectOK ==
  ASSUME NEW p, Registry(p, {}, {}), NEW fd, NEW dev \in Devices,
         NEW detached \in BOOLEAN, NEW attached \in BOOLEAN,
         NEW q, q = onConnectPacket(p, fd, dev, detached, attached)
  PROVE  Registry(q, {}, {}) /\ OwnedIn(q) \subseteq OwnedIn(p)
<1>1. PICK r : r = onDisconnect(p, dev, detached)
  OBVIOUS
<1>2. Registry(r, {}, {}) /\ OwnedIn(r) \subseteq OwnedIn(p) /\ dev \in Devices \ Live(r)
  BY <1>1, DisconnectOK, Zenon
<1>3. q = IF r.pending[fd] # None THEN doUsbAttach(r, dev, fd, attached) ELSE r
  BY <1>1, Zenon DEF onConnectPacket
<1>4. CASE r.pending[fd] # None
  BY <1>2, <1>3, <1>4, AttachOK
<1>5. CASE r.pending[fd] = None
  BY <1>2, <1>3, <1>5
<1> QED BY <1>4, <1>5, Zenon

(* The first half of a USB reset: the session is out of the registry and its
   TCP socket is in transit. *)
LEMMA KeepSocketOK ==
  ASSUME NEW p, Registry(p, {}, {}), NEW dev \in Live(p),
         NEW k, k = removeKeepingSocket(p, dev)
  PROVE  /\ p.sessions[dev].tcp_fd \in Fds /\ p.sessions[dev].conn \in Conns
         /\ Registry(k, {p.sessions[dev].tcp_fd}, {p.sessions[dev].conn})
         /\ Live(k) = Live(p) \ {dev}
         /\ OwnedIn(k) \cup {p.sessions[dev].conn} \subseteq OwnedIn(p)
         /\ k.sessions = [p.sessions EXCEPT ![dev] = None] /\ k.pending = p.pending
         /\ p.sessions[dev].tcp_fd \in k.epoll
<1>1. p \in Process /\ dev \in Devices /\ SessionOK(p, dev)
  BY Zenon DEF Registry, SessionsOK, Live
<1>2. PICK s : s = p.sessions[dev]
  OBVIOUS
<1>3. /\ s \in Session /\ s.tcp_fd \in Fds /\ s.conn \in Conns
      /\ s.vhci_fd # s.tcp_fd /\ s.kernel_fd # s.tcp_fd
      /\ {s.vhci_fd, s.kernel_fd, s.tcp_fd} \subseteq p.open
      /\ p.vhci_fd_map[s.vhci_fd] = dev /\ p.tcp_fd_map[s.tcp_fd] = dev
      /\ s.tcp_fd \in p.epoll
  BY <1>1, <1>2, Zenon DEF SessionOK
<1>4. PICK s2 : s2 = [s EXCEPT !.tcp_fd = NoFd, !.conn = None]
  OBVIOUS
<1>5. /\ s2 \in Session /\ s2.vhci_fd = s.vhci_fd /\ s2.kernel_fd = s.kernel_fd
      /\ s2.tcp_fd = NoFd /\ s2.port = s.port /\ s2 # None
  BY <1>3, <1>4, NoneIsNoSession, Zenon DEF Session
<1>6. PICK r : r = [p EXCEPT !.sessions[dev].tcp_fd = NoFd, !.sessions[dev].conn = None,
                            !.epoll = @ \ {p.sessions[dev].vhci_fd},
                            !.ports = freePort(@, p.sessions[dev].port)]
  OBVIOUS
<1>7. /\ freePort(p.ports, s.port) \in PortTable
      /\ \A i \in Ports \ {s.port} : freePort(p.ports, s.port)[i] = p.ports[i]
  BY <1>1, Zenon DEF freePort, Process, PortTable
<1>8. /\ r.open = p.open /\ r.epoll = p.epoll \ {s.vhci_fd}
      /\ r.rx = p.rx /\ r.eof = p.eof
      /\ r.ports = freePort(p.ports, s.port) /\ r.pending = p.pending
      /\ r.vhci_fd_map = p.vhci_fd_map /\ r.tcp_fd_map = p.tcp_fd_map
  BY <1>1, <1>2, <1>6 DEF Process
<1>9. r.sessions = [p.sessions EXCEPT ![dev] = s2]
  BY <1>1, <1>2, <1>4, <1>6, Zenon DEF Process
<1>10. r.sessions \in [Devices -> Session \cup {None}] /\ r.sessions[dev] = s2
  BY <1>1, <1>5, <1>9 DEF Process
<1>11. r \in Process
  <2>1. r = [open |-> r.open, epoll |-> r.epoll, rx |-> r.rx, eof |-> r.eof,
             ports |-> r.ports, sessions |-> r.sessions,
             vhci_fd_map |-> r.vhci_fd_map, tcp_fd_map |-> r.tcp_fd_map,
             pending |-> r.pending]
    BY <1>1, <1>6, Zenon DEF Process
  <2> QED BY <1>1, <1>7, <1>8, <1>10, <2>1, Zenon DEF Process
<1>12. k = removeSession(r, dev)
  BY <1>6, Zenon DEF removeKeepingSocket
<1>13. k \in Process /\ RemovedFrom(r, k, dev)
  BY <1>1, <1>5, <1>10, <1>11, <1>12, RemoveFields, Zenon
<1>14. Taken(p, k, dev, {s.tcp_fd}, {s.conn})
  <2>1. FdsOf(r, dev) = {s.vhci_fd, s.kernel_fd, NoFd}
        /\ FdsOf(p, dev) = {s.vhci_fd, s.kernel_fd, s.tcp_fd}
    BY <1>2, <1>5, <1>10 DEF FdsOf
  <2>2. NoFd \notin Fds /\ p.open \subseteq Fds /\ p.epoll \subseteq Fds
    BY <1>1, HubAssumption DEF NoFd, Fds, Process
  <2>3. k.open = p.open \ (FdsOf(p, dev) \ {s.tcp_fd})
    BY <1>3, <1>8, <1>13, <2>1, <2>2 DEF RemovedFrom
  <2>4. \A f \in Fds \ FdsOf(p, dev) : f \in p.epoll => f \in k.epoll
    BY <1>8, <1>13, <2>1, <2>2, Zenon DEF RemovedFrom
  <2>5. \A i \in Ports \ {p.sessions[dev].port} : k.ports[i] = p.ports[i]
    BY <1>2, <1>7, <1>8, <1>13 DEF RemovedFrom
  <2>6. k.pending = p.pending /\ k.sessions = [p.sessions EXCEPT ![dev] = None]
    BY <1>1, <1>8, <1>9, <1>13 DEF RemovedFrom, Process
  <2>7. \A f \in Fds : k.vhci_fd_map[f] =
           IF p.vhci_fd_map[f] = dev THEN None ELSE p.vhci_fd_map[f]
    <3>1. p.vhci_fd_map \in [Fds -> Devices \cup {None}] /\ s.vhci_fd \in Fds
      BY <1>1, <1>3 DEF Process, Session
    <3>2. k.vhci_fd_map = [p.vhci_fd_map EXCEPT ![s.vhci_fd] = None]
      BY <1>5, <1>8, <1>10, <1>13, Zenon DEF RemovedFrom
    <3> QED BY <1>2, <3>1, <3>2, VhciEntry
  <2>8. \A f \in Fds : IF p.tcp_fd_map[f] = dev THEN k.tcp_fd_map[f] \in {None, Freed}
                        ELSE k.tcp_fd_map[f] = p.tcp_fd_map[f]
    <3>1. \A f \in Fds : f # r.sessions[dev].tcp_fd
      BY <1>5, <1>10, <2>2, Zenon
    <3>2. k.tcp_fd_map = [f \in Fds |-> IF p.tcp_fd_map[f] = dev THEN Freed
                                        ELSE p.tcp_fd_map[f]]
      BY <1>8, <1>13, <3>1 DEF RemovedFrom
    <3> QED BY <3>2
  <2> QED BY <1>2, <2>3, <2>4, <2>5, <2>6, <2>7, <2>8, Zenon DEF Taken
<1>15. /\ Registry(k, {s.tcp_fd}, {s.conn}) /\ Live(k) = Live(p) \ {dev}
       /\ OwnedIn(k) \cup {s.conn} \subseteq OwnedIn(p)
  BY <1>13, <1>14, TakenKeepsRegistry, Zenon
<1>16. k.sessions = [p.sessions EXCEPT ![dev] = None] /\ k.pending = p.pending
  BY <1>14, Zenon DEF Taken
<1>17. s.tcp_fd \in k.epoll
  <2>1. FdsOf(r, dev) = {s.vhci_fd, s.kernel_fd, NoFd}
    BY <1>5, <1>10, Zenon DEF FdsOf
  <2>2. NoFd \notin Fds
    BY HubAssumption DEF NoFd, Fds
  <2> QED BY <1>3, <1>8, <1>13, <2>1, <2>2, Zenon DEF RemovedFrom
<1> QED BY <1>2, <1>3, <1>15, <1>16, <1>17, Zenon

(* A USB reset, on every path: the device is back on the connection it had,
   or that connection is closed. *)
LEMMA ResetOK ==
  ASSUME NEW p, Registry(p, {}, {}), NEW dev \in Live(p), NEW attached,
         NEW q, q = usbReset(p, dev, attached)
  PROVE  Registry(q, {}, {}) /\ OwnedIn(q) \subseteq OwnedIn(p)
<1>1. PICK t, c, k : /\ t = p.sessions[dev].tcp_fd /\ c = p.sessions[dev].conn
                     /\ k = removeKeepingSocket(p, dev)
  BY Zenon
<1>2. /\ t \in Fds /\ c \in Conns /\ Registry(k, {t}, {c}) /\ t \in k.epoll
      /\ Live(k) = Live(p) \ {dev} /\ OwnedIn(k) \cup {c} \subseteq OwnedIn(p)
  BY <1>1, KeepSocketOK, Zenon
<1>3. PICK port : port = AttachedPort(k.ports, attached)
  OBVIOUS
<1>4. q = IF CanSocketpair(k) /\ port # NoPort
          THEN StartSession(k, dev, port, t, c)
          ELSE CloseFds(k, {t})
  BY <1>1, <1>3 DEF usbReset
<1>5. CASE CanSocketpair(k) /\ port # NoPort
  <2>1. port \in FreePorts(k.ports) /\ dev \in Devices \ Live(k)
    BY <1>2, <1>3, <1>5, AttachedPortFree DEF Live
  <2>2. q = StartSession(k, dev, port, t, c)
    BY <1>4, <1>5, Zenon
  <2>3. Registry(q, {}, {}) /\ OwnedIn(q) \subseteq OwnedIn(k) \cup {c}
    BY <1>2, <1>5, <2>1, <2>2, StartKeepsRegistry, Zenon
  <2> QED BY <1>2, <2>3
<1>6. CASE ~(CanSocketpair(k) /\ port # NoPort)
  <2>1. q = CloseFds(k, {t})
    BY <1>4, <1>6, Zenon
  <2>2. Registry(q, {}, {}) /\ OwnedIn(q) = OwnedIn(k)
    BY <1>2, <2>1, ReleaseOK, Zenon
  <2> QED BY <1>2, <2>2
<1> QED BY <1>5, <1>6, Zenon
=============================================================================
