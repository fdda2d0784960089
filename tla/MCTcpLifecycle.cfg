SPECIFICATION FairSpec
CONSTANTS
    SeqSpace = 16
    MaxIn = 2
    MaxOut = 3
    Ssthresh = 3
    MaxCwnd = 4
    MaxRetrans = 2
    MaxConnectRetries = 1
    Iss <- TwoChildren
    MaxWrites <- ClientWritesOne
    Bursts = {1}
    MaxFaults = 1
    Closers = {"C", "S"}
    EarlyWrite = FALSE
    Scarce = {"frame", "timer"}
CHECK_DEADLOCK FALSE
PROPERTIES ConnectEnds ClosingEnds Delivered
