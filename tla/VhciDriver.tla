----------------------------- MODULE VhciDriver -----------------------------
(***************************************************************************)
(* The daemon's table of virtual USB ports (daemon/src/usbip/VhciDriver).  *)
(* ports_[i] is TRUE while the daemon regards port i as taken.  A sysfs    *)
(* write may fail at any time; its outcome is the argument `written'.      *)
(***************************************************************************)
EXTENDS Integers, FiniteSetsExt

CONSTANT MaxPorts               \* max_ports_, 8 in the code

ASSUME MaxPortsAssumption == MaxPorts \in Nat \ {0}

Ports == 0 .. MaxPorts - 1
NoPort == -1

PortTable == [Ports -> BOOLEAN]

FreePorts(ports) == {i \in Ports : ~ports[i]}

(* Mutants: the search runs one port too far, or does not look at the table. *)
AttachedPortOffByOne(ports, written) ==
  IF written THEN Min(FreePorts(ports) \cup {MaxPorts}) ELSE NoPort
AttachedPortFirst(ports, written) == IF written THEN 0 ELSE NoPort

(* The port attach() returns: the first free one, provided the write of the
   attach file succeeds. *)
AttachedPort(ports, written) ==
  IF FreePorts(ports) # {} /\ written THEN Min(FreePorts(ports)) ELSE NoPort

(* Mutant: the table is not updated. *)
MarkUsedForgotten(ports, port) == ports

MarkUsed(ports, port) == [ports EXCEPT ![port] = TRUE]

(* A failed write leaves the port marked as taken. *)
detach(ports, port, written) ==
  IF port \in Ports /\ ports[port] /\ written
  THEN [ports EXCEPT ![port] = FALSE]
  ELSE ports

(* No sysfs write: the kernel has let go of the port already. *)
freePort(ports, port) ==
  IF port \in Ports THEN [ports EXCEPT ![port] = FALSE] ELSE ports

(* The tables detachAll() can leave behind: any port whose write failed is
   still marked as taken. *)
detachAll(ports) == {t \in PortTable : \A i \in Ports : t[i] => ports[i]}

=============================================================================
