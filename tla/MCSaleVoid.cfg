SPECIFICATION Spec
CONSTANTS
    s1 = s1
    k1 = k1
    k2 = k2
    c1 = c1
    c2 = c2
    p1 = p1
    i1 = i1
    a1 = a1
    d1 = d1
    d2 = d2
    Unread = Unread
    Sale = {s1}
    Tender = {1}
    Session = {k1}
    Closer = {}
    CashCommand = {}
    Item = {i1}
    StockCommand = {}
    Recipe <- MCRecipe
    Quantity = {1}
    Dispatcher = {d1}
    BatchSize = 2
    MaxTime = 0
    MaxFaults = 0
    MaxAnnounced = 1
CHECK_DEADLOCK FALSE
INVARIANT ReversalCompensates
