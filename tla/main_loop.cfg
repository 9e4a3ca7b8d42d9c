CONSTANTS
    Id = {1, 2}
    PerPage = 1
    Stale = 2

SPECIFICATION Spec
INVARIANTS TypeOK NoneTwice MissesBounded IndicesStayValid OneEntryEach
           IInv
PROPERTIES VisitedOnce OutageIsNoticed RecoveryIsNoticed
