SPECIFICATION Spec
CONSTANTS
  MaxPorts = 2
  Devices = {d1}
  Conns = {c1}
  MaxFd = 4
  None = None
  Freed = Freed
  MAX_EVENTS = 16
  SinPortMod = 65536
  MaxQueue = 1
  Commands = {"CONNECT"}
  AcceptWatched = TRUE
PROPERTY CleanupFreesPort
