SPECIFICATION FairSpec
CONSTANTS
    Hosts = {"h1"}
    PoolSize = 1
    Retries = 1
    MaxXid = 1
    MaxFaults = 1
CHECK_DEADLOCK FALSE
PROPERTY LeaseEnds
