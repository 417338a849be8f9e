SPECIFICATION MCSpec
CONSTANTS
    g10 = g10
    g11 = g11
    server1 = server1
    server2 = server2
    ip1 = ip1
    ip2 = ip2
    ip3 = ip3
    blue = blue
    red = red
    None = None
    Namespaces = {g10, g11}
    Hosts = {server1, server2}
    Labels = {blue, red}
    MaxChanges = 2
    MaxFailures = 1
    Namespace <- MCNamespace
    Addresses <- MCAddresses
    Leases <- MCLeases
INVARIANTS TypeOK Tracked
PROPERTIES Heals
