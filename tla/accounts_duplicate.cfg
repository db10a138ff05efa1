\* Two registrations of one mailbox, nothing fails.
\* All requests may be answered: the system then stops.
SPECIFICATION Spec
CONSTANTS
    g1 = g1
    g2 = g2
    l1 = l1
    p1 = p1
    w1 = w1
    lower = lower
    upper = upper
    other = other
    mailbox = mailbox
    otherbox = otherbox
    Registrations = {g1, g2}
    Logins = {l1}
    Profiles = {p1}
    Addresses <- TwoSpellings
    Emails <- Mailboxes
    Normal <- TwoSpelled
    Passwords = {w1}
    Nobody = Nobody
    Lifetime = 1
    CommitBeforeResponse = TRUE
    MaxTime = 1
    MaxFaults = 0
SYMMETRY RequestSymmetry
INVARIANTS
    DuplicateIsConflict
CHECK_DEADLOCK FALSE
