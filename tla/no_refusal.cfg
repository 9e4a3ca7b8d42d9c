CONSTANTS
    Server = {s1}
    MaxNodes = 1
    MaxWaiting = 1
    Permanent = 1
    Faults = {"lost", "crash", "vanish", "slow", "flap", "rejoin"}

SPECIFICATION Spec
INVARIANTS NoStaleRunner RunnersAccounted ListingHolds
PROPERTIES OrphanServerGone StuckHadNoRunner
