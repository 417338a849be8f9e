SPECIFICATION Spec
CONSTANTS
    users = users
    rules = rules
    alice = alice
    bob = bob
    v1 = v1
    v2 = v2
    NoVal = NoVal
    Keys = {alice, bob}
    Vals = {v1, v2}
    MaxChanges = 3
    BucketOrder <- MCBucketOrder
    Static <- MCStatic
INVARIANTS TypeOK PutsServed DeletesServed
