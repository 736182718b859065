SPECIFICATION Spec
CONSTANTS
    s1 = s1
    k1 = k1
    k2 = k2
    c1 = c1
    c2 = c2
    p1 = p1
    i1 = i1
    a1 = a1
    d1 = d1
    d2 = d2
    Unread = Unread
    Sale = {s1}
    Tender = {1}
    Session = {k1, k2}
    Closer = {c1, c2}
    CashCommand = {}
    Item = {i1}
    StockCommand = {}
    Recipe <- MCOneRecipe
    Quantity = {1}
    Dispatcher = {d1}
    BatchSize = 2
    MaxTime = 1
    MaxFaults = 0
    MaxAnnounced = 2
CHECK_DEADLOCK FALSE
INVARIANT CashBookedOnce
PROPERTY CloseIsFinal
