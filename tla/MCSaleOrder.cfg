SPECIFICATION FairSpec
CONSTANTS
    o1 = o1
    o2 = o2
    a1 = a1
    a2 = a2
    w1 = w1
    w2 = w2
    u1 = u1
    u2 = u2
    p1 = p1
    p2 = p2
    None = None
    Order = {o1}
    Claim = {a1, a2}
    Worker = {w1, w2}
    MaxVoidRequests = 2
    Upload = {u1}
    Cleaner = {p1, p2}
    CleanupBatch = 1
    MaxMediaFaults = 2
INVARIANT ClaimsMatchSales
INVARIANT LinkedInTimeIsKept
PROPERTY VoidsAreApproved
PROPERTY ReviewIsFinal
PROPERTY OrphanIsCleaned
CHECK_DEADLOCK FALSE
