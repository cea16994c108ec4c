SPECIFICATION BankFairSpec
INVARIANTS
    AcceptedOnce
    TablesInStep
    
    Conserved
PROPERTIES
    BankLive
CONSTANTS
    u1 = u1  u2 = u2  r1 = r1  r2 = r2  k1 = k1  k2 = k2
    c1 = c1  c2 = c2  c3 = c3  c4 = c4  m1 = m1  m2 = m2
    Users = {u1, u2}
    Relays = {r1, r2}
    Owner <- MCOneOwnerEach
    Conns = {k1, k2}
    Coins = {c1, c2, c3, c4}
    IntervalOf <- MCIntervalOf
    Outstanding = {c1, c2}
    Datagrams = {m1, m2}
    Pays <- MCPays
    StartBalance <- MCStart
    FirstInterval = 1
    MaxInterval = 3
    MaxMsgnum = 1
    MaxBatch = 1
    MAX_SIZE = 1
    Serialized = TRUE
    DbFaults = FALSE
    MaxRestarts = 0
