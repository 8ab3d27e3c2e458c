\* Three transactions race for two counter rows; pages of 2 so that a reader
\* needs several, 4 sequences so that two transactions of 2 events overlap with
\* rollbacks.
SPECIFICATION FairSpec
CONSTANTS
    Workspaces = {w1, w2}
    Txs = {t1, t2, t3}
    Readers = {r1}
    Types = {created}
    NoWorkspace = NoWorkspace
    PageLimit = 2
    MaxSequence = 4
    MaxPerTx = 2
INVARIANTS TypeOK NoEventBehindCursor SignalsMatchLog
PROPERTIES ImplementsCommittedLog EventuallyRead
