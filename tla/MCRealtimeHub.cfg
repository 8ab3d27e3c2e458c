\* A dashboard that resumes from 1 of 2 events and a visitor's widget; one more
\* event, one failing query.  Pages of one row, so that one signal and one replay
\* take several; a queue of one frame, so that it overflows.
SPECIFICATION FairSpec
CONSTANTS
    c1 = c1
    c2 = c2
    b1 = b1
    b2 = b2
    Conns = {c1, c2}
    Browsers = {b1, b2}
    NoConn = NoConn
    Owner <- TwoOwners
    Kind <- Mixed
    Wants <- FirstWantsAll
    QueueSize = 1
    DrainPage = 1
    ResumePage = 1
    MaxResume = 2
    InitialHead = 2
    Held <- FirstHoldsOne
    MaxHead = 3
    MaxFaults = 1
INVARIANTS TypeOK DrainedMeansGiven ResumedMeansComplete
PROPERTY SignalsConverge
\* Commits and connections are bounded: at last nothing is left to do.
CHECK_DEADLOCK FALSE
