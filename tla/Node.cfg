SPECIFICATION NodeSpec
INVARIANTS
    LookupsUnderWay
    
    DescriptorsFound
    
    
PROPERTIES
    ConfigSound
    
    GuardsKept
CHECK_DEADLOCK FALSE
CONSTANTS
    NULL = NULL
    DnsStreams = {c1, c2}
    Relays = {r1, r2}
    Torrcs <- Files
    Settings <- Commands
    CmdLine <- CommandLine
    MAX_PORT = 9
    BANDWIDTH_CAP = 2000000
    MIN_BANDWIDTH = 20
    MIN_REND_POST = 600
    MAX_DIR_PERIOD = 86400
    MIN_BUILD_TIMEOUT = 30
    MIN_DIRTINESS = 10
    MIN_VOTE_SECONDS = 20
    MIN_DIST_SECONDS = 20
    MIN_VOTE_INTERVAL = 300
    FD_LIMIT = 4000
    PortsAtRisk = {1}
    LogMayFail = TRUE
    DirMayBreak = TRUE
    MaxCommands = 2
    MaxTroubles = 1
SYMMETRY Sym
