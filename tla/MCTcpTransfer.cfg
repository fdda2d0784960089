SPECIFICATION Spec
CONSTANTS
    SeqSpace = 16
    MaxIn = 3
    MaxOut = 4
    Ssthresh = 3
    MaxCwnd = 4
    MaxRetrans = 2
    MaxConnectRetries = 1
    Iss <- TwoChildren
    MaxWrites <- ClientWritesFour
    Bursts = {4}
    MaxFaults = 2
    Closers = {}
    EarlyWrite = FALSE
    Scarce = {}
CHECK_DEADLOCK FALSE
INVARIANTS TypeOK StreamPrefix AckedIsReceived SackIsTrue Synchronised
