CONSTANTS
    IdleTimeout = 5
    Window = 5
    MaxGap = 5

SPECIFICATION FairSpec
INVARIANTS TypeOK IInv
PROPERTIES NoHourWasted IdleIsTornDown TeardownIsEarned
