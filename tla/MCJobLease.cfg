SPECIFICATION FairSpec
CONSTANTS
    p1 = p1
    p2 = p2
    p3 = p3
    Passes = {p1, p2, p3}
    Nobody = Nobody
    Ttl = 4
    Ceiling = 7
INVARIANTS TypeOK MutualExclusion
PROPERTIES LeaseLostOnlyByLapse JobKeepsRunning
