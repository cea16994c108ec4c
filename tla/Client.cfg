SPECIFICATION ClientSpec
INVARIANT
    StreamsOk
PROPERTIES
    StreamsEnd
    DocumentsFetched
    ConsensusOk
CHECK_DEADLOCK FALSE
CONSTANTS
    NULL = NULL
    Names = {"h1", "h2", "i1", "i2", "v"}
    Ip = {"i1", "i2", "v"}
    Virtuals = {"v"}
    Exits = {"x1", "x2"}
    MAX_REWRITES = 3
    MAX_DNS_AGE = 3
    DNS_TTL = 3
    TrackExpire = 3
    TIME_MAX = 99
    StCircs = {1, 2}
    OldDns = {}
    KnownExits = {"x2"}
    Automaps = {"h2"}
    PlainNames = {}
    TrackedHosts = {}
    Internal = {}
    BadNames = {}
    SocksTimeout = 1
    RetryTimeout = 1
    RetryLater = 1
    MaxCircuitDirtiness = 2
    NewCircuitPeriod = 1
    CircuitIdleTimeout = 2
    MAX_RESOLVE_FAILURES = 2
    TRACKHOSTEXITS_RETRIES = 1
    SidSpace = 4
    StMaxTime = 4
