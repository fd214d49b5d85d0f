CONSTANTS
    NItems = 2
    Settle = 1
    StableFrames = 6
    Timeout = 2
    Payments <- OtherPayments
    MaxOnTray = 2
    MaxPayments = 2
    MaxMishaps = 1
SPECIFICATION FairSpec
INVARIANTS
    HonestNeverAccused
    OneWarning
    ReadingsFollowTrays
PROPERTIES
    HonestIsCompleted
    CompleteWasOnTray
CHECK_DEADLOCK FALSE
