SPECIFICATION ClickSpec
CONSTANTS
    c1 = c1
    c2 = c2
    w1 = w1
    w2 = w2
    promo = promo
    Clicks = {c1, c2}
    Links = {promo}
    Visitors = {c1, c2}
    LinkOf <- MCLinkOf
    VisitorOf <- MCVisitorOf
    Limit <- MCLimit
    NoLimit = NoLimit
    Rollups = {w1, w2}
    BatchSize = 2
    MaxReceive = 2
    MaxDay = 2
INVARIANTS ClickTypeOK CountedOnce SketchesKeepVisitors CounterNeverAhead HardCap DeliveredOrDead
PROPERTIES LedgerSpec
SYMMETRY ClickSymmetry
CHECK_DEADLOCK FALSE
