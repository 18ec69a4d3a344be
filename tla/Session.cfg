SPECIFICATION FairSpec
CONSTANTS
    Devices = {d0}
    Hosts = {h1}
    NoAddr = NoAddr
    Socks = {s1, s2}
    NoSock = NoSock
    MaxDrops = 2
INVARIANTS
    TypeOK
    ActiveHasSocket
    ReceivesOnReplySocket
    StreamAlternates
PROPERTIES
    LossEndsSession
    SessionComesUp
