\* Two registrations, a login and a profile request, the response first, fair threads.
\* All requests may be answered: the system then stops.
SPECIFICATION FairSpec
CONSTANTS
    g1 = g1
    g2 = g2
    l1 = l1
    p1 = p1
    w1 = w1
    w2 = w2
    lower = lower
    upper = upper
    other = other
    mailbox = mailbox
    otherbox = otherbox
    Registrations = {g1, g2}
    Logins = {l1}
    Profiles = {p1}
    Addresses <- OneSpelling
    Emails <- Mailboxes
    Normal <- OneSpelled
    Passwords = {w1, w2}
    Nobody = Nobody
    Lifetime = 1
    CommitBeforeResponse = FALSE
    MaxTime = 2
    MaxFaults = 0
INVARIANTS
    TypeOK
    TokenReachesItsOwner
    ExpiredIsRefused
    TokenHonoured
PROPERTIES
    EveryRequestEnds
CHECK_DEADLOCK FALSE
