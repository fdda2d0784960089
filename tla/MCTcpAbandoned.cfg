SPECIFICATION Spec
CONSTANTS
    SeqSpace = 16
    MaxIn = 2
    MaxOut = 3
    Ssthresh = 3
    MaxCwnd = 4
    MaxRetrans = 2
    MaxConnectRetries = 1
    Iss <- FarFromWrap
    MaxWrites <- ServerWritesOne
    Bursts = {1}
    MaxFaults = 1
    Closers = {"C", "S"}
    EarlyWrite = FALSE
    Scarce = {}
CHECK_DEADLOCK FALSE
INVARIANT NeverAbandoned
