SPECIFICATION Spec
CONSTANTS
    i1 = i1
    i2 = i2
    k1 = k1
    k2 = k2
    b1 = b1
    b2 = b2
    Invokers = {i1, i2}
    Queued = {i1}
    Codes = {k1, k2}
    Containers = {b1, b2}
    Reserved = {0, 1}
    MaxConcurrency = 1
    MaxVersion = 1
    MaxInstance = 2
    MaxOps = 2
    MaxInvokes = 2
    Qualifiers = {0, 2}
INVARIANT PoolSound
INVARIANT DeploymentsKept
INVARIANT NoStaleEnvironment
INVARIANT NoMissedRelease
CHECK_DEADLOCK FALSE
SYMMETRY Perms
