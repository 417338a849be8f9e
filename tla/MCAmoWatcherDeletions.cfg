SPECIFICATION FairSpec
CONSTANTS
    users = users
    rules = rules
    alice = alice
    bob = bob
    v1 = v1
    v2 = v2
    NoVal = NoVal
    Keys = {bob}
    Vals = {v1}
    MaxChanges = 1
    BucketOrder <- MCBucketOrder
    Static <- MCStatic
PROPERTIES DeletionsTakeEffect
