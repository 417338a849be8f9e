SPECIFICATION Spec
CONSTANTS
    Keys = {server1, server2}
    Vals = {t1, t2}
    NoVal = NoVal
    Torn = Torn
    Handlers = {req1, req2}
SYMMETRY Symmetric
INVARIANTS TypeOK SavesCurrent AloneSaveLands
