SPECIFICATION FairSpec
CONSTANTS
    amo = amo
    bmh = bmh
    pods = pods
    req = req
    debug = debug
    Tasks = {amo, bmh, pods, debug}
    Role <- MCRole
PROPERTIES RefreshRecurs
