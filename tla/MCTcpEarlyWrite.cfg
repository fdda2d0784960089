SPECIFICATION Spec
CONSTANTS
    SeqSpace = 16
    MaxIn = 2
    MaxOut = 3
    Ssthresh = 3
    MaxCwnd = 4
    MaxRetrans = 2
    MaxConnectRetries = 1
    Iss <- OneChild
    MaxWrites <- ClientWritesThree
    Bursts = {1}
    MaxFaults = 1
    Closers = {}
    EarlyWrite = TRUE
    Scarce = {}
CHECK_DEADLOCK FALSE
INVARIANT AckedIsReceived
