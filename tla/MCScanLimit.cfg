CONSTANTS
    Keys <- MCKeys
    Writers <- MCWriters
    w1 = w1
    w2 = w2
    Tomb = Tomb
    Stamps = {0, 1, 2}
    TsMax = 3
    MaxWrites = 3
    UseWal = TRUE
    FreshStamps = TRUE
SPECIFICATION RSpec
CHECK_DEADLOCK FALSE
INVARIANT
    ScanLimitCapsEmitted
