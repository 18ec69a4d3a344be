SPECIFICATION Spec
CONSTANTS
  MaxPorts = 1
  Devices = {d1}
  Conns = {c1, c2, c3}
  MaxFd = 5
  None = None
  Freed = Freed
  MAX_EVENTS = 1
  SinPortMod = 65536
  MaxQueue = 1
  Commands = {"CONNECT"}
  AcceptWatched = TRUE
SYMMETRY Symmetry
INVARIANT SessionsServed
