\* One VM on the static table, one worker VM on its own copy.
CONSTANTS
    PublicNames <- MCPublicNames
    PrivateNames <- MCPrivateNames
    Values <- MCValues
    VMs = {main, worker}
    StaticUsers = {main}
    CompactSize = 4
    CompactHashSizeMask = 1
    HashBound = 3
    MaxArrays = 2
    Static = Static
    NoKey = NoKey

SPECIFICATION Spec

INVARIANTS
    TypeOK
    LookupCorrect
    IterationComplete
    NoDanglingTable
    NoLeakedTable
