CONSTANTS
    Server = {s1}
    MaxNodes = 1
    MaxWaiting = 1
    Permanent = 0
    Faults = {"crash"}

SPECIFICATION ServingSpec
PROPERTY ProvisioningEnds
