\* One widget that holds position 1 and reconnects.
SPECIFICATION Spec
CONSTANTS
    c1 = c1
    c2 = c2
    b1 = b1
    b2 = b2
    Conns = {c1, c2}
    Browsers = {b1}
    NoConn = NoConn
    Owner <- OneOwner
    Kind <- Widgets
    Wants <- WantAll
    QueueSize = 3
    DrainPage = 1
    ResumePage = 1
    MaxResume = 2
    InitialHead = 2
    Held <- FirstHoldsOne
    MaxHead = 3
    MaxFaults = 0
INVARIANT ReconnectLosesNothing
\* Commits and connections are bounded: at last nothing is left to do.
CHECK_DEADLOCK FALSE
