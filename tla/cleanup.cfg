CONSTANTS
    Server = {s1}
    MaxNodes = 1
    MaxWaiting = 1
    Permanent = 0
    Faults = {"reject", "lost", "crash", "vanish", "slow", "lag"}

SPECIFICATION FairSpec
PROPERTIES GoneIsForgotten StuckIsDeleted OrphanIsRemoved
