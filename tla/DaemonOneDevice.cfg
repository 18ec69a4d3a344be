SPECIFICATION Spec
CONSTANTS
  MaxPorts = 1
  Devices = {d1}
  Conns = {c1, c2}
  MaxFd = 4
  None = None
  Freed = Freed
  MAX_EVENTS = 16
  SinPortMod = 65536
  MaxQueue = 1
  Commands = {"CONNECT", "DISCONNECT", "RAW_DATA", "LOG", "HALF_HEADER", "HEADER", "HALF_PAYLOAD"}
  AcceptWatched = TRUE
SYMMETRY Symmetry
INVARIANT TypeOK
INVARIANT PortsExclusive
INVARIANT FdLedger
INVARIANT ConnOwnedOnce
INVARIANT SessionsServed
INVARIANT NoStrayPointers
PROPERTY ConnectionKept
