CONSTANT Node = {n1, n2}

SPECIFICATION Spec
INVARIANT NoStaleSeries
