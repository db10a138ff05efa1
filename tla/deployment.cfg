\* Two containers, four starts, with fair processes; when all have ended and
\* the starts are used up, the system stops.
SPECIFICATION FairSpec
CONSTANTS
    c1 = c1
    c2 = c2
    Containers = {c1, c2}
    MaxStarts = 4
INVARIANTS
    TypeOK
    ServesItsSchema
    ConflictMeansUpgraded
PROPERTIES
    KeepsHistory
    EveryStartEnds
CHECK_DEADLOCK FALSE
