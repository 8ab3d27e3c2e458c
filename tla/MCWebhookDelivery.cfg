\* One delivery, two workers; two lost workers, two failing statements, one admin
\* retry, two updates of the endpoint; every lease outlasts its Deliver.
SPECIFICATION WFairSpec
CONSTANTS
    Jobs = {d1}
    Workers = {w1, w2}
    Keys = {d1}
    NoKey = NoKey
    NoJob = NoJob
    MaxAttempts = 2
    MaxFaults = 2
    MaxOverruns = 0
    MaxRetries = 1
    Threshold = 2
    MaxDBFaults = 2
    MaxUpdates = 2
INVARIANTS WTypeOK NoNeedlessResend NoneStranded
PROPERTIES SettledStays EventuallySettled
\* Delivery ids are finite: once each is settled and its job pruned, nothing is left.
CHECK_DEADLOCK FALSE
