SPECIFICATION Spec
CONSTANTS
    w1 = w1
    w2 = w2
    home = home
    NoRedirect = NoRedirect
    Workers = {w1, w2}
    Rows = {1, 2}
    MaxAttempts = 1
    BatchSize = 2
    Overrun = TRUE
    MaxRetries = 0
    Redirects = {NoRedirect, home}
    MaxId = 2
    MaxVersion = 3
INVARIANTS TypeOK NoSilentDivergence AttemptsBounded
PROPERTIES StoredNeverOlder
CONSTRAINT OneStray
SYMMETRY DrainSymmetry
CHECK_DEADLOCK FALSE
