SPECIFICATION FairSpec
CONSTANTS
    Hosts = {h1, h2}
    NoAddr = NoAddr
    MaxDrops = 3
INVARIANT TypeOK
PROPERTIES
    ImplementsDaemonLink
    ImplementsDaemonFlag
    DiscoveryCompletes
    LossWithdrawsDaemon
