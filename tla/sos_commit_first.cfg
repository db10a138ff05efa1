\* Three requests of one user, the commit before the response (FastAPI < 0.118), fair threads.
\* All requests may be answered: the system then stops.
SPECIFICATION FairSpec
CONSTANTS
    r1 = r1
    r2 = r2
    r3 = r3
    k1 = k1
    c1 = c1
    Requests = {r1, r2, r3}
    Keys = {k1}
    NoKey = NoKey
    Contacts = {c1}
    NoEvent = NoEvent
    CommitBeforeResponse = TRUE
    MaxCrashes = 1
INVARIANTS
    TypeOK
    OneEventPerKey
    AnswersAgree
    AckedIsDurable
    ConflictOnlyWithoutAccount
    RepeatedOnlyAfterRollback
    DurableIsFannedOut
PROPERTIES
    RetryNeverRecreates
    KeepsPromise
    EveryRequestEnds
CHECK_DEADLOCK FALSE
