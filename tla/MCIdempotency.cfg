SPECIFICATION FairSpec
CONSTANTS
    r1 = r1
    r2 = r2
    r3 = r3
    r4 = r4
    here = here
    there = there
    p1 = p1
    p2 = p2
    d1 = d1
    Nobody = Nobody
    Request = {r1, r2, r3, r4}
    Scope = {here, there}
    ScopeOf <- MCScopeOf
    Body = {p1, p2}
    BodyOf <- MCBodyOf
    DedupeKey = {d1}
    DedupeOf <- MCDedupeOf
INVARIANT OneHandlerPerKey
INVARIANT SuccessIsBacked
INVARIANT OneAcknowledgedEffect
INVARIANT KeyAnnounced
PROPERTY CompletedIsFinal
PROPERTY KeyIsReleased
CHECK_DEADLOCK FALSE
