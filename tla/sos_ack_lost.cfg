\* The commit after the response: an answered event may be undone.
SPECIFICATION Spec
CONSTANTS
    r1 = r1
    k1 = k1
    c1 = c1
    Requests = {r1}
    Keys = {k1}
    NoKey = NoKey
    Contacts = {c1}
    NoEvent = NoEvent
    CommitBeforeResponse = FALSE
    MaxCrashes = 1
INVARIANTS
    AckedIsNeverLost
CHECK_DEADLOCK FALSE
