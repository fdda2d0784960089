SPECIFICATION ServicesSpec
CONSTANTS
    Parts = {"mdns"}
    DefaultTimer = 1
    MaxTerminate = 1
    MaxConfigure = 2
    MaxFailure = 1
    MaxDialtime = 1
    PppAddrs = {1}
    AuthProtocols = {"none", "PAP", "CHAP"}
    TftpMaxRetry = 3
    TftpWrap = 3
    TftpTimers = 3
    DnsIds = {1, 2}
    DnsRequests = {"v4", "v6", "n1", "n2"}
    DnsServers = {"a"}
    DefaultNs = "d"
    MaxRetrans = 2
    DnsTimers = 2
    MdnsOwn <- MCMdnsOwn
    MdnsClaims <- MCMdnsClaims
    MdnsHostname <- MCMdnsHost
    MdnsPeers = {"q"}
    MdnsData = {1}
    MdnsTtl = 1
    ProbeCount = 1
    AnnounceCount = 2
    CookieTimeout = 4
    MdnsSuffixes = 2
    MdnsCookies = 2
    MdnsContests = 1
CHECK_DEADLOCK FALSE
PROPERTY MdnsProbedFirst
