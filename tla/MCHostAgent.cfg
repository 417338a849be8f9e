SPECIFICATION MCSpec
CONSTANTS
    n1 = n1
    n2 = n2
    p1 = p1
    p2 = p2
    g1 = g1
    g2 = g2
    here = here
    there = there
    core = core
    root = root
    k1 = k1
    k2 = k2
    NoKeys = NoKeys
    NoFile = NoFile
    NoEntry = NoEntry
    Elsewhere = Elsewhere
    Networks = {n1, n2}
    Pools = {p1, p2}
    PoolsOf <- MCPoolsOf
    NetworkStates <- MCNetworkStates
    Addresses = {here, there}
    MaxTrouble = 2
    Users = {core, root}
    LoginUsers = {core}
    Listings <- MCListings
    HostNetwork = n1
    HostPool = p1
INVARIANTS TypeOK OwnKeys
PROPERTIES KeepsWorkingKeys PathHeals KeysArrive
