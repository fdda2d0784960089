SPECIFICATION FairSpec
CONSTANTS
    Hosts = {"h1", "h2"}
    PoolSize = 2
    Retries = 1
    MaxXid = 2
    MaxFaults = 2
CHECK_DEADLOCK FALSE
INVARIANTS TypeOK AddressPerHost LinkIsLease NeverStranded
PROPERTIES Binds Renews
