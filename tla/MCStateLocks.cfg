SPECIFICATION FairSpec
CONSTANTS
    amo = amo
    bmh = bmh
    pods = pods
    req = req
    debug = debug
    Tasks = {amo, bmh, req}
    Role <- MCRole
INVARIANTS TypeOK NoCircularWait
PROPERTIES EveryoneServed RefreshRecurs
