SPECIFICATION Spec
CONSTANTS
  MaxPorts = 2
  Devices = {d1, d2}
  Conns = {c1, c2}
  MaxFd = 6
  None = None
  Freed = Freed
  MAX_EVENTS = 16
  SinPortMod = 65536
  MaxQueue = 1
  Commands = {"CONNECT"}
  AcceptWatched = TRUE
SYMMETRY Symmetry
INVARIANT PortsExclusive
INVARIANT FdLedger
INVARIANT NoStrayPointers
