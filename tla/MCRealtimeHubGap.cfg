\* A dashboard (b1) and a widget (b2) that connect once each; nothing is lost on
\* the way.
SPECIFICATION Spec
CONSTANTS
    c1 = c1
    c2 = c2
    b1 = b1
    b2 = b2
    Conns = {c1, c2}
    Browsers = {b1, b2}
    NoConn = NoConn
    Owner <- TwoOwners
    Kind <- Mixed
    Wants <- WantAll
    QueueSize = 3
    DrainPage = 1
    ResumePage = 1
    MaxResume = 2
    InitialHead = 1
    Held <- HoldNothing
    MaxHead = 2
    MaxFaults = 0
INVARIANT NothingPassedOver
\* Commits and connections are bounded: at last nothing is left to do.
CHECK_DEADLOCK FALSE
