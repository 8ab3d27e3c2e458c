\* As many poisoned workspaces as one reconcile takes.
SPECIFICATION FairSpec
CONSTANTS
    Procs = {p1}
    Workspaces <- TwoWorkspaces
    NoProc = NoProc
    NoWorkspace = NoWorkspace
    Poison <- FirstPoisoned
    Archive <- NoArchive
    QuietImport = FALSE
    LateFailure = FALSE
    MaxCounter = 2
    MaxFaults = 0
    MaxImports = 0
    PageLimit = 2
    Pages = 1
    ReconcileLimit = 1
PROPERTY EventuallyHandled
\* The log is bounded: once everything is handled the system may stop.
CHECK_DEADLOCK FALSE
