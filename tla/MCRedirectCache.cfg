SPECIFICATION Spec
CONSTANTS
    q1 = q1
    q2 = q2
    Requests = {q1, q2}
    Ttl = 2
    Ceiling = 2
    MaxVersion = 3
INVARIANTS TypeOK BoundedStaleness NewLinkAnswers EvictedStaysGone
SYMMETRY RequestSymmetry
