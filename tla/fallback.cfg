CONSTANTS
    Types <- ThreeTypes
    Locations <- OneLocation
    Server = {s1}
    MaxNodes = 2
    MaxJobs = 2
    Cooldown = 2

SPECIFICATION FairSpec
INVARIANTS TypeOK IInv
PROPERTIES PreferredFirst CooldownHasCause VanishedIsBlamed CooldownIsKept
           StockIsFound ReturnsToPreferred
