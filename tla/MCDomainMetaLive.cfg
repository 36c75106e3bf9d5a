SPECIFICATION FairSpec
CONSTANTS
    w1 = w1
    w2 = w2
    home = home
    NoRedirect = NoRedirect
    Workers = {w1}
    Rows = {1, 2}
    MaxAttempts = 2
    BatchSize = 1
    Overrun = FALSE
    MaxRetries = 1
    Redirects = {NoRedirect, home}
    MaxId = 1
    MaxVersion = 2
PROPERTIES HostConverges
CHECK_DEADLOCK FALSE
