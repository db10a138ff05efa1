\* Two overlapping requests of two users about one event, fair threads.
\* All requests may be answered: the system then stops.
SPECIFICATION FairSpec
CONSTANTS
    r1 = r1
    r2 = r2
    u1 = u1
    u2 = u2
    e1 = e1
    Requests = {r1, r2}
    Users = {u1, u2}
    Events = {e1}
    NoOne = NoOne
    CommitBeforeResponse = TRUE
INVARIANTS
    TypeOK
    OwnerOnly
    LegalUnlessOverlapped
PROPERTIES
    KeepsRegister
    NeverReactivated
    EveryRequestEnds
CHECK_DEADLOCK FALSE
