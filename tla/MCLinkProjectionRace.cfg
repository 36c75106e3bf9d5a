SPECIFICATION Spec
CONSTANTS
    w1 = w1
    w2 = w2
    plain = plain
    other = other
    gated = gated
    None = None
    Workers = {w1, w2}
    Rows = {1, 2}
    MaxAttempts = 2
    BatchSize = 1
    Overrun = FALSE
    MaxRetries = 0
    Contents = {plain, other}
    Eligible = {plain, other}
    Unannounced = {}
    IndexLags = FALSE
    MaxId = 1
INVARIANTS LinkSinceLastRow
CHECK_DEADLOCK FALSE
