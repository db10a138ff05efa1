\* Requests that wait for each other's threads and connections.
\* All requests may be answered: the system then stops.
SPECIFICATION Spec
CONSTANTS
    p1 = p1
    p2 = p2
    l1 = l1
    Protected = {p1, p2}
    Public = {}
    Ready = {}
    Live = {l1}
    Threads = 1
    Conns = 1
    MaxOutages = 0
    None = None
INVARIANTS
    LiveWhileServing
CHECK_DEADLOCK FALSE
