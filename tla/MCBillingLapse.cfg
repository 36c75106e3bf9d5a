SPECIFICATION BillingFairSpec
CONSTANTS
    s1 = s1
    h1 = h1
    h2 = h2
    NoSub = NoSub
    Plans = {1}
    Offers = {1}
    Grants = {}
    Subs = {s1}
    Handlers = {h1}
    Replays = TRUE
    MaxEvents = 2
    MaxRequests = 0
    MaxTime = 1
    Grace = 1
    Period = 1
PROPERTIES LapsesToFree
CHECK_DEADLOCK FALSE
