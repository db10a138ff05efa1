\* A protected request, a public one, a liveness probe and two effects of
\* the status page share one connection and two threads; fair server.
\* All requests may be answered: the system then stops.
SPECIFICATION FairSpec
CONSTANTS
    p1 = p1
    q1 = q1
    l1 = l1
    e1 = e1
    e2 = e2
    Protected = {p1}
    Public = {q1}
    Ready = {e1, e2}
    Live = {l1}
    Threads = 2
    Conns = 1
    MaxOutages = 1
    None = None
INVARIANTS
    TypeOK
    NothingLeaks
    ShowsTheLatest
    OkWasTrue
PROPERTIES
    EveryRequestEnds
    StatusSettles
CHECK_DEADLOCK FALSE
