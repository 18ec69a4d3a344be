# wirelessHub in TLA+

wirelessHub makes a USB device plugged into an ESP32 appear on a Linux machine.
The repository has two programs:

* the **daemon** (`daemon/src`, C++): one thread, one epoll loop. It answers UDP
  discovery, accepts TCP connections, and for every announced device keeps a
  session: a vhci-hcd port, a socketpair to the kernel driver, the device's TCP
  connection;
* the **firmware** (`esp-codes/main`, C, FreeRTOS): `wifi_manager` joins a
  network or opens a captive portal, `hub_client` finds a daemon,
  `device_session` opens and closes the device's session, `usb_driver` talks to
  the device, `log_forwarder` sends log lines and `crash_reporter` reports the
  log of a crashed boot. The tasks tell each other what they know through event
  groups.

This directory holds a model of both, TLC runs over it, and TLAPS proofs about
the daemon.

## Inventory

| component | state | operations | what is hard about it |
|---|---|---|---|
| main loop | epoll set, batch, `g_running` | accept, TCP and vhci events, hang-ups, signal, shutdown | stale events of a batch, blocking reads, a USB reset in several steps that may fail |
| HubServer | `sessions_`, `vhci_fd_map_`, `tcp_fd_map_`, `pending_tcp_socks_` | CONNECT, DISCONNECT, RAW_DATA, LOG, add/remove session | descriptor reuse, dangling map entries, who owns a connection |
| VhciDriver | `ports_` | attach, detach, freePort, detachAll | failing sysfs writes |
| PassthroughHandler | socketpair, sequence number | kernel to device, device to kernel | blocking descriptor, SIGPIPE |
| TcpSocket | stream position | sendExactly, recvExactly | partial frames |
| wifi_manager | event bits, retry count, servers, NVS | boot, events, portal | bits changed in several calls, restarts, event queue |
| hub_client | `s_hub`, event bits | discover, withdraw | lossy network, WiFi lost at any point |
| log_forwarder | queue, socket, back-off | hook, sender | any task logs, bounded queue, reconnects |
| crash_reporter | RTC ring, pending report | append, init, send | a crash between any two statements, two writers |
| device_session | session bits, reply socket, shared event socket | control, up and down tasks | three tasks and a shared socket without lock |
| usb_driver | device handle, transfers, semaphores | control, in, out, plug, unplug | late completions, teardown under use |

`UdpSocket`, `Log.h` and `usbip_proto.h` have no state of their own.
`TapDevice` and `usb_passthrough` are named by the repository's README and have
no source. `tests/WasdMouseTest.cpp` is an interactive tool.

## Modules

Daemon, each module extending the one before:

* `VhciDriver`: the port table as functions of the table; the outcome of a sysfs
  write is an argument.
* `HubServer`: the process as one record (open and watched descriptors, ports,
  HubServer's four maps) and HubServer's methods as functions of it. A
  `tcp_fd_map_` entry whose session was destroyed is `Freed`; looking it up may
  alias any device's session, or fault.
* `Callbacks`: `doUsbAttach`, the disconnect callback and the USB reset of
  `main.cpp`, with their error paths.
* `Daemon`: the loop. `EpollWait` takes a batch of at most `MAX_EVENTS` events;
  each later step dispatches one event by a whole handler, while peers, the
  kernel driver and signals move in between. `blocked` is the device in whose
  `onVhciReadable` the thread sits. Descriptors are allocated lowest first, as
  the kernel does; `SinPortMod` is the 2^16 of the port field that carries a
  descriptor. A packet may arrive in parts: `HALF_HEADER` and `HALF_PAYLOAD`
  leave `recvExactly` waiting in the middle of a frame, `HEADER` is a header
  without its payload, which `readTcpPacket` takes for the end. A signal sets
  `g_running` at any point and ends a kernel read with EINTR. `AcceptWatched` is FALSE for the code as committed, in which
  nothing happens after accept (run `DaemonCommitted`), and TRUE for the contract
  `HubServer.h` states; the other runs use TRUE, since only then a session
  exists: all they show, the violations `DaemonPortLeak` and `DaemonBlocked`
  included, is about a daemon in which that is repaired. The theorems hold for both.
* `RegistryProofs`, `DaemonProofs`: see below.

Firmware, each layer over the abstract specification of the layer below:

* `LinkBits`: what a pair of bits "up" and "lost" promises: never both, and a
  loss reported between two ups. `DaemonLink` adds the address. `DaemonFlag` is
  what a task sees that polls flag and address instead of the bits.
* `WifiManager` implements `LinkBits` (`ImplementsLink`): the manager task, the
  event loop, the DNS and HTTP tasks, the driver, a user of the portal and
  restarts with the NVS kept. Each call on the event group is a step.
* `HubClient` runs over `LinkBits` and implements `DaemonLink`
  (`ImplementsDaemonLink`) and `DaemonFlag` (`ImplementsDaemonFlag`). The network is a set of datagrams that are lost,
  repeated and reordered; the daemon's answer is `onUdpReadable`. The socket of
  an attempt is closed at its end, and what is on the way to it is lost.
* `LogForwarder` runs over `DaemonFlag`. Each task that logs goes through the
  hook in three steps (serial line, allocation, queue), so that several are
  inside it at once. The sender dials with the address of that moment; a
  connection is cut at any time, `send()` blocks while its buffer is full, and
  may take a part of a packet, which the code takes for all of it (`Torn`).
* `DeviceSession` runs over `DaemonLink`: per device `device_session_start`, a
  control, a receiving and a forwarding task, and the event connection the
  control tasks share, where every access to `s_event_sock` between blocking
  calls is a step. A socket is its number, and a closed number is given out
  again, to a reply socket or to the event connection. `Settled` is the one
  timing assumption: in the 1.5 s of the teardown, and before a new discovery,
  the receiving task gets from reading `s->sock` to its `recvfrom()`.
* `CrashReporter`: the ring written, and cleared at boot, statement by
  statement, resets between any two of them, RTC memory kept or lost.

`MC*.tla` instantiate the modules for TLC. `PROJECT.json` maps each definition
to its source lines.

A FreeRTOS task blocked in `xEventGroupWaitBits` is released by the call that
sets the bit. In the models it leaves when it runs and still sees the bit, so it
may miss a pulse that a blocked task would catch: the models have more
behaviours than the board here, and the properties hold in all of them.

## Runs

Passing runs (`expect: pass`):

| run | checks | bounds |
|---|---|---|
| `DaemonOneDevice` | type, ports, descriptors, ownership, served sessions, pointers, `ConnectionKept` | 1 device, 2 connections, 4 descriptors, 1 port, all commands and parts of packets |
| `DaemonTwoDevices` | ports, descriptors, pointers | 2 devices, 2 connections, 6 descriptors, 2 ports, CONNECT |
| `DaemonThreeConnections` | `SessionsServed` | 1 device, 3 connections, 5 descriptors, batches of 1, CONNECT |
| `DaemonServed` | `PendingServed` under fairness | 1 device, 2 connections, CONNECT, RAW_DATA and half headers |
| `Wifi` | bits against radio, fallback, refinement of `LinkBits`, `ComesUp` under fairness | 5 retries, 3 queued events, 2 restarts |
| `Hub` | `DiscoveryCompletes`, `LossWithdrawsDaemon` under fairness; refinement of `DaemonLink` and `DaemonFlag` | 2 hosts, 3 losses of WiFi |
| `Log` | heap, order; `QueueDrains` under fairness | 2 tasks, 2 lines each, queue of 2, buffer of 1, 1 loss of the daemon |
| `CrashReport` | `ReportIsTail` | ring of 3, 9 characters, 3 resets, one task logging |
| `Session` | bits, sockets and event stream; `LossEndsSession`, `SessionComesUp` under fairness | 1 device (`app_main` starts one), 2 socket numbers, 1 host, 2 losses |

Why the bounds are enough for the cases of interest: four descriptors are one
session and one more connection, so that both success and exhaustion of accept,
socketpair and reset occur, and every freed number is reused; six descriptors
hold two sessions; a third connection and a fifth descriptor let the socketpair
of a session take the number under which a failed USB reset left a dead
`tcp_fd_map_` entry; with one port a leaked port exhausts the table, with two a
session may start beside a leaked port; a ring of three wraps three times in nine characters, with
resets inside every statement; two losses make a session end, come back and end
again on the same event connection; `WIFI_MAX_RETRY` has its real value where
the count matters. `MaxQueue` is one packet per connection: a second one only
waits. Four log lines over a queue of two
fill it, are dropped and leave one in the sender's hands, and a buffer of one
packet makes `send()` block; with two socket numbers, every number closed is
the next one given out. Descriptors wider than `sin_port` have no run:
the theorems hold for every `SinPortMod`. The system may stop (`CHECK_DEADLOCK FALSE`) in
`WifiManager`, where a portal nobody visits waits for ever, and at the bounds of
`CrashReporter` (characters, resets) and `LogForwarder` (lines, losses).

Violation runs show what a comment or header promises and the code does not
keep; `PROJECT.json` quotes the lines.

| run | what TLC shows |
|---|---|
| `DaemonCommitted` | an accepted socket is never watched, so its CONNECT is never read |
| `DaemonPortLeak` | a TCP hang-up or handler error leaves the port taken |
| `DaemonBlocked` | the loop stays inside a read of a drained socketpair |

Disagreements without a run of their own. The modules state the promise as a
property that no run lists; TLC refutes it when it is put into the configuration
of the run named.

The last two need other constants: a second task that logs (`Others = {w}`), and
two devices with three socket numbers (`MaxDrops = 0` is enough).

| property | with | promise | what the code does |
|---|---|---|---|
| `NoDeadEntries` | `DaemonOneDevice` | `HubServer.h:73` "erases the session from the maps" | a USB reset whose re-attach fails leaves a `tcp_fd_map_` entry to a destroyed session |
| `ConnectKeepsConnection` | `DaemonOneDevice` | `HubServer.cpp:168` "closing old one first" | CONNECT on the session's own connection closes it and starts no new session |
| `EmptyIsNotClosed` | `DaemonOneDevice` | `TcpSocket.cpp:77` "Clean EAGAIN, no data yet" | a payload that is late ends the session |
| `SurvivesKernelClose` | `DaemonOneDevice` | `PassthroughHandler.cpp:56` logs "write to kernel failed" | the write raises SIGPIPE and ends the daemon |
| `KernelSideFound` | `DaemonThreeConnections` | `HubServer.h:76` "Session lookups for main's vhci HUP handling" | a dead `tcp_fd_map_` entry under the number of a session's socketpair end hides the session from its kernel side |
| `AuthFailIsLast` | `Wifi` | `wifi_manager.h:58` "last disconnect was an authentication failure" | the bit survives a disconnect for another reason |
| `DnsKeepsServing` | `Wifi` | `wifi_manager.c:64` "Replies to every DNS query" | a datagram shorter than 12 bytes ends the task |
| `FoundBitHasAddress` | `Hub` | `hub_client.h:46` "Prefer waiting on DAEMON_FOUND_BIT" | the address is zeroed before the bit is cleared |
| `DelayCapped` | `Log` | `log_forwarder.c:106` "max 10s" | the delay reaches 16 s |
| `EarlyLinesDropped` | `Log` | `log_forwarder.h:13` "silently dropped" | lines from before the discovery are queued and sent |
| `DialsFoundDaemon` | `Log` | `hub_client.h:52` "Valid only after hub_client_daemon_found() returns true" | the sender dials after the daemon was withdrawn |
| `ReportIsPreviousBoot` | `CrashReport` | `crash_reporter.h:5` "Call at the very beginning of app_main" | this boot's first lines enter the last boot's report |
| `ActiveMeansConnectSent` | `Session` | `device_session.h:11` "CMD_DEVICE_EVENT CONNECT sent" | the session is active although its CONNECT could not be sent |
| `ReportChronological` | `CrashReport` | `crash_reporter.c:93` "in chronological order" | after a crash inside an append, or between the stores that clear the ring, the order is broken |
| `StaysInRing` | `CrashReport` | `crash_reporter.h:15` "Appends the formatted log line to the RTC ring buffer" | two tasks logging at once store behind the end of the ring |
| `NoEventSocketLeak` | `Session` | `device_session.h:57` "Can be called multiple times for different device_ids" | two control tasks opening `s_event_sock` at once leave one socket open |

## Fairness

* Daemon: weak fairness of the loop's steps that wait for nobody (the operating
  system runs the process). A send to a device inside the kernel's read loop
  waits for the peer, a write to the socketpair for the kernel (`PacedByOthers`),
  the rest of a frame for the peer: nothing is assumed of these, nor of signals.
  `PendingServed` has the premise that the loop is out of such calls again and
  again (`LoopFree`).
* WifiManager: weak fairness of the manager and event-loop tasks (FreeRTOS
  schedules them) and of the driver ending each connection attempt.
* HubClient: weak fairness of the task; strong fairness of a broadcast that goes
  out, of a daemon's answer and of its reception: of infinitely many attempts
  some get through. Without the last three a network that loses everything is
  a counterexample to any discovery.
* LogForwarder: weak fairness of the sender's steps, with `connect()` returning;
  strong fairness of a connect that a daemon's address makes possible. `send()`
  has no timeout and may block for as long as the daemon does not read:
  `QueueDrains` has the premise that it is not blocked for ever.
* DeviceSession: weak fairness of the tasks (`connect()`, `send()` and the
  transfers return), strong fairness of opening the
  reply socket. The hub is not fair: it may be silent for ever.

## Proofs

`DaemonProofs` proves, for every set of devices and connections, every number of
descriptors, ports and queued packets, every batch size, every width of
`sin_port` and both values of `AcceptWatched`:

| theorem | statement |
|---|---|
| `Inductive` | `Spec => []IInv` |
| `TypeCorrect` | `Spec => []TypeOK` |
| `PortsAreExclusive` | `Spec => []PortsExclusive` |
| `DescriptorsAccountedFor` | `Spec => []FdLedger` |
| `ConnectionsOwnedOnce` | `Spec => []ConnOwnedOnce` |
| `SessionsStayServed` | `Spec => []SessionsServed`: the loop's lookup leads from a session's TCP descriptor to it, and from its socketpair end to it or to a dead entry, never to another session |
| `PointersAreSound` | `Spec => []NoStrayPointers` |
| `ConnectionsAreKept` | `Spec => ConnectionKept`: a session's connection changes only to a pending one |

The assumptions are the ones the modules state on their constants: natural
bounds, and special values apart from the sets they are not in. The argument:
`Registry(p, X, C)` of `RegistryProofs` says that process `p` is consistent
while the descriptors `X` and connections `C` are held by a local variable of a
handler. The handlers pass through states in which the invariants of the runs
fail (a session removed, its socket moved to a local variable, a pending socket
extracted), so each function of the process has a lemma from `Registry` with one
pair `X, C` to `Registry` with another; composing them gives each handler.
`IInv` adds that `blocked` names a live session (a signal removes it) and
that connections in the backlog are distinct and belong to nobody, without which
accept could give one connection to two owners. `ConnectionsAreKept` follows
from `IInv` action by action: only CONNECT and the USB reset write `conn`.

Only model-checked: liveness, the refinements of the firmware and its
invariants.

## Not modelled

* `usb_driver`: its transfers are callbacks of the USB host library, whose rules
  are outside the repository; `DeviceSession` has the presence of a device.
* The transfers of `usb_handle_submit`, the fragments of `send_raw` and
  `reasm_push`: data handling inside one task.
* The byte layout of packets, `detect_level`, the pages of the portal, and
  `UdpSocket`, `Log.h`, `usbip_proto.h`, which have no state of their own.
* Both ends in one module: `DeviceSession` does not keep the host its event
  connection leads to, so that a CONNECT sent to a daemon that was replaced is
  not told apart.
* A pulse: WiFi or daemon lost and back while a task is not waiting for it. The
  models have it, and the code then goes on with the old address;
  `LossWithdrawsDaemon` and `LossEndsSession` are about a loss that lasts.
