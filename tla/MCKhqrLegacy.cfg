SPECIFICATION Spec
CONSTANTS
    b1 = b1
    b2 = b2
    m1 = m1
    m2 = m2
    i1 = i1
    i2 = i2
    old1 = old1
    new1 = new1
    new2 = new2
    e1 = e1
    UnknownBranch = UnknownBranch
    NoIntent = NoIntent
    NoSale = NoSale
    NoMd5 = NoMd5
    NoEvent = NoEvent
    NoMsg = NoMsg
    Branch = {b1}
    Md5 = {m1, m2}
    Intent = {i1}
    LegacySale = {old1}
    NewSale = {}
    Event = {e1}
    EventMd5 <- MCOne
    Expiring <- MCNoAttempt
    MaxAttempts = 2
INVARIANT PaidIntentHasProof
INVARIANT SoldIffAnnounced
PROPERTY FinalizedIsFinal
CHECK_DEADLOCK FALSE
