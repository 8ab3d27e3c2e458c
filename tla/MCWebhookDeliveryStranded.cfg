\* A replay whose second statement fails.
SPECIFICATION WSpec
CONSTANTS
    Jobs = {d1}
    Workers = {w1}
    Keys = {d1}
    NoKey = NoKey
    NoJob = NoJob
    MaxAttempts = 2
    MaxFaults = 0
    MaxOverruns = 0
    MaxRetries = 0
    Threshold = 2
    MaxDBFaults = 1
    MaxUpdates = 0
INVARIANT PendingRetryable
\* Delivery ids are finite: once each is settled and its job pruned, nothing is left.
CHECK_DEADLOCK FALSE
