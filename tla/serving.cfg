CONSTANTS
    Server = {s1}
    MaxNodes = 1
    MaxWaiting = 1
    Permanent = 0
    Faults = {"reject", "slow", "flap", "rejoin", "reregister"}

SPECIFICATION ServingSpec
PROPERTIES TeardownEnds JobsAreServed
