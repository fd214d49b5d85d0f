CONSTANTS
    NItems = 2
    Settle = 1
    StableFrames = 6
    Timeout = 2
    Payments <- OtherPayments
    MaxOnTray = 2
    MaxPayments = 2
    MaxMishaps = 0
SPECIFICATION FairSpec
PROPERTIES
    MissingIsNoticed
CHECK_DEADLOCK FALSE
