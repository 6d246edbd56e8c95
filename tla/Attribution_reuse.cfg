SPECIFICATION Spec
CONSTANTS
    Pids = {r, a, b}
    Root = r
    Pkgs = {home, dep}
    RootPkg = home
    Allowed <- Steps
    MaxSteps = 7
    Unattributed = Unattributed
    None = None
CONSTRAINT Trees
SYMMETRY Symm
INVARIANTS PromptTrue ParkedTrue BypassExact SeededReported RootNeverForged
