CONSTANTS
    Server = {s1}
    MaxNodes = 1
    MaxWaiting = 1
    Permanent = 1
    Faults = {"reject", "lost", "crash", "vanish", "slow", "lag", "partial", "flap", "rejoin", "reregister"}

SPECIFICATION Spec
INVARIANTS TypeOK IInv NoServerForgotten
PROPERTIES TeardownOrder TornDownOnlyWhenSeenIdle
