CONSTANTS
    Server = {s1, s2}
    MaxNodes = 1
    MaxWaiting = 1
    Permanent = 0
    Faults = {"slow", "lag"}

SPECIFICATION Spec
SYMMETRY Identical
INVARIANTS GrowthWithinMax AliveWithinMax AliveIsTracked
