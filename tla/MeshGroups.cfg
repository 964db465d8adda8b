SPECIFICATION PartsSpec
CONSTANTS
    t1 = t1
    t2 = t2
    d1 = d1
    d2 = d2
    u1 = u1
    u2 = u2
    g1 = g1
    g2 = g2
    c1 = c1
    c2 = c2
    k1 = k1
    None = None
    Threads <- TwoThreads
    Devices <- TwoDevices
    Users <- TwoUsers
    Admins <- FirstIsAdmin
    GroupIds <- TwoGroups
    ClaimIds <- OneClaim
    Codes <- OneCode
    MaxDevices = 1
    MaxVersion = 2
    Ops <- AllOps
SYMMETRY PartsSymmetry
INVARIANTS SerialMembership GroupWithinLimit MembersOfLiveGroups
PROPERTY ImplementsMembership
CHECK_DEADLOCK FALSE
