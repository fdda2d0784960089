SPECIFICATION LinkSpec
CONSTANTS
    ArpHosts = {"a", "b"}
    ArpMacs = {"m"}
    ArpFrames = {"f", "g"}
    ArpPending = 1
    ArpTimeout = 1
    ArpRate = 1
    ArpMaxFail = 2
    SlaacIps = {1}
    ProbeNb = 2
    AnnounceNb = 1
    MaxConflicts = 2
    MaxConflictsFail = 3
    ConflictWrap = 4
    SlaacOrphans = 1
    Neighbours = {"g"}
    Gateway = "g"
    Remote = "x"
    NdHws = {"m"}
    NdFrames = {"e", "f"}
    NdQueued = 1
    MaxSolicit = 1
    V4Addrs = {"a4", "b4"}
    LocalAddrs = {"l1", "l2"}
    GlobalAddrs = {"g1"}
    DadRetrans = 1
    FragDatagrams <- MCFragDatagrams
    FragOld = 2
    NatHosts = {"a", "b"}
    NatPorts = {1, 2}
    NatLocal = {1}
    NatDay = 2
    NatTimers = 1
\* Where no timer is pending and no frame is left the models stop.
CHECK_DEADLOCK FALSE
INVARIANTS LinkTypeOK ArpConsistent NdNoFrameStranded IpNoDangling FragIntact NatReplies
PROPERTY LinkTimersEnd
