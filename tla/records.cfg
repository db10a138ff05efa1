\* Two contacts and two samples of one user, of which any three are posted, and
\* a walk by pages of one row.
\* All requests may be answered: the system then stops.
SPECIFICATION Spec
CONSTANTS
    a1 = a1
    a2 = a2
    s1 = s1
    s2 = s2
    w1 = w1
    n1 = n1
    n2 = n2
    Adds = {a1, a2}
    Samples = {s1, s2}
    Walks = {w1}
    Phones = {n1, n2}
    Limit = 1
    CommitBeforeResponse = TRUE
    MaxTime = 1
    MaxFaults = 1
SYMMETRY Symmetry
CONSTRAINT ThreeWrites
INVARIANTS
    TypeOK
    NoneSkipped
    RefusalHasHolder
    ListedInRequestOrder
PROPERTIES
    KeepsBook
CHECK_DEADLOCK FALSE
