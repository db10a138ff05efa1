\* A retry after a failed commit tells the contacts again.
SPECIFICATION Spec
CONSTANTS
    r1 = r1
    r2 = r2
    k1 = k1
    c1 = c1
    Requests = {r1, r2}
    Keys = {k1}
    NoKey = NoKey
    Contacts = {c1}
    NoEvent = NoEvent
    CommitBeforeResponse = TRUE
    MaxCrashes = 1
INVARIANTS
    NotifiedOncePerKey
CHECK_DEADLOCK FALSE
