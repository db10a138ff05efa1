\* Two overlapping updates: the second commit reopens a resolved event.
SPECIFICATION Spec
CONSTANTS
    r1 = r1
    r2 = r2
    u1 = u1
    e1 = e1
    Requests = {r1, r2}
    Users = {u1}
    Events = {e1}
    NoOne = NoOne
    CommitBeforeResponse = TRUE
PROPERTIES
    TerminalIsFinal
CHECK_DEADLOCK FALSE
