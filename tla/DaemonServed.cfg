SPECIFICATION FairSpec
CONSTANTS
  MaxPorts = 1
  Devices = {d1}
  Conns = {c1, c2}
  MaxFd = 4
  None = None
  Freed = Freed
  MAX_EVENTS = 16
  SinPortMod = 65536
  MaxQueue = 1
  Commands = {"CONNECT", "RAW_DATA", "HALF_HEADER"}
  AcceptWatched = TRUE
PROPERTY PendingServed
