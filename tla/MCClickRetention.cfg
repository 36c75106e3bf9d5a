SPECIFICATION FairSpec
CONSTANTS
    r1 = r1
    r2 = r2
    Rows = {r1, r2}
    KeepOf <- MCKeepOf
    Install = 2
    Back = 1
    Ahead = 0
    Lag = 1
    MaxDrops = 2
    MaxRetained = 2
    MaxDay = 4
INVARIANTS TypeOK InsertSurvivesAttach
PROPERTIES KeptForItsWindow CapDropsOnlyExcess LedgerSpec ExpiredGoes
CHECK_DEADLOCK FALSE
