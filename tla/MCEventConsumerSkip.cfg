\* An import into a workspace with live traffic.
SPECIFICATION Spec
CONSTANTS
    Procs = {p1}
    Workspaces <- OneWorkspace
    NoProc = NoProc
    NoWorkspace = NoWorkspace
    Poison <- NoPoison
    Archive <- TwoEvents
    QuietImport = FALSE
    LateFailure = FALSE
    MaxCounter = 3
    MaxFaults = 0
    MaxImports = 1
    PageLimit = 2
    Pages = 1
    ReconcileLimit = 1
INVARIANT CheckpointCoversHandled
\* The log is bounded: once everything is handled the system may stop.
CHECK_DEADLOCK FALSE
