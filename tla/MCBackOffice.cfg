SPECIFICATION Spec
CONSTANTS
    w1 = w1
    w2 = w2
    k1 = k1
    k2 = k2
    x = x
    y = y
    b1 = b1
    b2 = b2
    p1 = p1
    p2 = p2
    i1 = i1
    i2 = i2
    g1 = g1
    Nobody = Nobody
    Account = {x, y}
    Branch = {b1}
    Clerk = {w1, w2}
    Site = {b1, b2}
    Draft = {x, y}
    Opener = {w1, w2}
    Caller = {w1, w2}
    MaxSessions = 2
    MaxCodes = 1
    MaxAttempts = 1
    MaxPasswords = 1
    FixedOtp = TRUE
    Worker = {x}
    Clock = {1, 2}
    Desk = {w1, w2}
    Workplace <- MCWorkplace
    MaxPunches = 3
    Target = {x}
    Slot = {1}
    Pattern = {p1}
    Instance = {i1, i2}
    Planner = {w1, w2}
    PageLimit = 1
    Rule = {p1, p2}
    MaxTime = 1
    Schedule <- MCSchedule
    MaxWrites = 3
    Marketer = {y}
    MenuItem = {i1}
    Dish = {i1}
    Category = {p1}
    Shop = {b1}
    Group = {g1}
    Option = {p1, p2}
    GroupOf <- MCGroupOf
    Price = {0, 1}
    Use <- MCUse
    Choice <- MCChoice
    Editor = {w1, w2}
    MaxEdits = 3
    Shelf = {p1}
    Good = {i1}
    Batch = {g1}
    Keeper = {w1, w2}
    Level = {0, 1}
    MaxOrders = 5
    Lines <- MCLines
    Rate = {4100, 4013}
    Naming <- MCNaming
    Request = {w1, w2}
    Key = {k1, k2}
    Actor = {x, y}
    Row <- MCRow
    Outlet = {b1, b2}
    Place <- MCPlace
    Owner <- MCOwner
    Till = {i1}
    Claim = {i2}
    Person = {x}
    Cashier <- MCCashier
    Delivery = {w1, w2}
    MaxFeed = 2
SYMMETRY Symmetry
INVARIANT MembershipsAgree
INVARIANT BranchesArePaid
INVARIANT AccountsSafe
INVARIANT WorkforceSafe
INVARIANT MenuSafe
INVARIANT CatalogSafe
INVARIANT BillsSafe
INVARIANT FeedsSafe
INVARIANT NoticesSafe
CHECK_DEADLOCK FALSE
