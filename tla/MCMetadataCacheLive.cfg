SPECIFICATION FairSpec
CONSTANTS
    ip1 = ip1
    ip2 = ip2
    amo = amo
    bmh = bmh
    refresh = refresh
    pods = pods
    Wildcard = Wildcard
    IPs = {ip2}
    Writers = {bmh, pods}
    Cancellable = {bmh}
    Requests = {req}
    Refreshers = {pods}
    RuleOrder <- MCRuleOrder
    IdentityStates <- MCIdentityStates
    BmhStates <- MCBmhStates
    ContainerStates <- MCContainerStates
    Target <- MCTarget
PROPERTIES RefusedOnlyIfUnresolvable Recurs Answered ServesAtOnce
