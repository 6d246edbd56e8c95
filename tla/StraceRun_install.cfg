SPECIFICATION Spec
CONSTANTS
    d = d
    Install = install
    Launcher = launcher
    Daemons = {d}
    None = None
    settlePolls = 3
    deadlineMs = 6
    maxIters = 8
    LauncherPolls = 2
    Delays <- MCDelays
    capBytes = 3
    pendingMaxBytes = 3
    MaxBytes = 6
CONSTRAINT Shapes
INVARIANTS
    RootIsInstall
    TailExact
PROPERTY
    RunReturns
