SPECIFICATION BillingSpec
CONSTANTS
    s1 = s1
    h1 = h1
    h2 = h2
    NoSub = NoSub
    Plans = {1, 2}
    Offers = {1}
    Grants = {2}
    Subs = {s1}
    Handlers = {h1, h2}
    Replays = FALSE
    MaxEvents = 2
    MaxRequests = 1
    MaxTime = 1
    Grace = 1
    Period = 1
INVARIANTS BillingTypeOK MovedOnce ProcessedMeansMoved PaidPlanIsEarned
SYMMETRY RequestSymmetry
CHECK_DEADLOCK FALSE
