\* Two processes compete for one checkpoint; one crash or lost session; an
\* archive of two events is imported while the workspace is quiet.
SPECIFICATION FairSpec
CONSTANTS
    Procs = {p1, p2}
    Workspaces <- OneWorkspace
    NoProc = NoProc
    NoWorkspace = NoWorkspace
    Poison <- NoPoison
    Archive <- TwoEvents
    QuietImport = TRUE
    LateFailure = FALSE
    MaxCounter = 4
    MaxFaults = 1
    MaxImports = 2
    PageLimit = 2
    Pages = 2
    ReconcileLimit = 1
INVARIANTS TypeOK CheckpointCoversHandled ImportedNeverHandled AppendNeverCollides
PROPERTIES CheckpointMonotone EventuallyHandled
\* The log is bounded: once everything is handled the system may stop.
CHECK_DEADLOCK FALSE
