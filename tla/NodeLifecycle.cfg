CONSTANTS
    MaxAttempts = 10
    p1 = p1
    p2 = p2
    q1 = q1
    Peers = {p1, p2}
    NewSqueaks = {q1}
    NONE = NONE

SPECIFICATION Spec
INVARIANT TypeOK
PROPERTY StartRunningReturns
PROPERTY ForwardedToSubscribers

\* start_running raising ends the process: nothing runs after it.
CHECK_DEADLOCK FALSE
