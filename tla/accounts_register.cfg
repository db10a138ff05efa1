\* Three registrations and a login, the commit before the response.
\* All requests may be answered: the system then stops.
SPECIFICATION Spec
CONSTANTS
    g1 = g1
    g2 = g2
    g3 = g3
    l1 = l1
    w1 = w1
    w2 = w2
    lower = lower
    upper = upper
    other = other
    mailbox = mailbox
    otherbox = otherbox
    Registrations = {g1, g2, g3}
    Logins = {l1}
    Profiles = {}
    Addresses <- Spellings
    Emails <- Mailboxes
    Normal <- Spelled
    Passwords = {w1, w2}
    Nobody = Nobody
    Lifetime = 1
    CommitBeforeResponse = TRUE
    MaxTime = 0
    MaxFaults = 1
SYMMETRY RequestSymmetry
INVARIANTS
    RefusalHasHolder
PROPERTIES
    KeepsRegistry
    RegisteredCanLogIn
CHECK_DEADLOCK FALSE
