SPECIFICATION Spec
CONSTANTS
    w1 = w1
    w2 = w2
    plain = plain
    other = other
    gated = gated
    None = None
    Workers = {w1}
    Rows = {1, 2, 3}
    MaxAttempts = 2
    BatchSize = 3
    Overrun = FALSE
    MaxRetries = 1
    Contents = {plain, gated, other}
    Eligible = {plain}
    Unannounced <- CleanAndPending
    IndexLags = TRUE
    MaxId = 1
INVARIANTS TypeOK LinkSinceLastRow EdgeSinceLastRow
CHECK_DEADLOCK FALSE
