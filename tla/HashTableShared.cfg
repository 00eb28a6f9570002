\* Two VMs, each on its own thread, on the same static table.
CONSTANTS
    PublicNames <- MCPublicNames
    PrivateNames <- MCPrivateNames
    Values <- MCValues
    VMs = {main, worker}
    StaticUsers = {main, worker}
    CompactSize = 4
    CompactHashSizeMask = 1
    HashBound = 3
    MaxArrays = 3
    Static = Static
    NoKey = NoKey

SPECIFICATION Spec

INVARIANT NoLeakedTable
