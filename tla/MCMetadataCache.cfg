SPECIFICATION Spec
CONSTANTS
    ip1 = ip1
    ip2 = ip2
    amo = amo
    bmh = bmh
    refresh = refresh
    pods = pods
    Wildcard = Wildcard
    IPs = {ip1, ip2}
    Writers = {amo, bmh, refresh, pods}
    Cancellable = {amo, bmh, refresh}
    Requests = {}
    Refreshers = {pods}
    RuleOrder <- MCRuleOrder
    IdentityStates <- MCIdentityStates
    BmhStates <- MCBmhStates
    ContainerStates <- MCContainerStates
    Target <- MCTarget
INVARIANTS TypeOK Coherent NoRevokedEntry OwedRebuild OnlyPermittedLogins EveryPermittedLogin OnlyPermittedSudo
