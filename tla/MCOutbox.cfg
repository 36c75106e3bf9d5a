SPECIFICATION OutboxFairSpec
CONSTANTS
    w1 = w1
    w2 = w2
    Workers = {w1, w2}
    Rows = {1, 2, 3}
    MaxAttempts = 2
    BatchSize = 2
    Overrun = FALSE
    MaxRetries = 1
INVARIANTS OutboxTypeOK OneHandler
PROPERTIES EveryRowSettles
CHECK_DEADLOCK FALSE
