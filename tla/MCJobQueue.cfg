\* One crash or failed write, one lease that expires under a live worker, one
\* admin retry.
SPECIFICATION FairSpec
CONSTANTS
    Jobs = {j1, j2}
    Workers = {w1, w2}
    Keys = {k1}
    NoKey = NoKey
    NoJob = NoJob
    MaxAttempts = 2
    MaxFaults = 1
    MaxOverruns = 1
    MaxRetries = 1
INVARIANTS TypeOK ExclusiveRun OneLivePerKey AttemptsWithinBudget
PROPERTIES TerminalStays EventuallyFinal
\* The set of job ids is finite: once every row is final or pruned, nothing is left.
CHECK_DEADLOCK FALSE
