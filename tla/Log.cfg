SPECIFICATION FairSpec
CONSTANTS
    Hosts = {h1}
    NoAddr = NoAddr
    MaxLosses = 1
    Tasks = {t1, t2}
    MaxLines = 2
    LOG_QUEUE_LEN = 2
    SendBuffer = 1
    Torn = Torn
CHECK_DEADLOCK FALSE
INVARIANTS
    TypeOK
    HeapLedger
    InOrderOnce
PROPERTIES
    QueueDrains
