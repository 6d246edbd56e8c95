SPECIFICATION Spec
CONSTANTS
    Pids = {r, a, b, c}
    Root = r
    w = w
    d = d
    Dirs <- MCDirs
    WorkDir = w
    Below <- MCBelow
    Allowed <- Calls
    MaxCalls = 5
    None = None
CONSTRAINT Trees
SYMMETRY Symm
INVARIANTS ResolvedTrue ExecTrue ReplayTrue
PROPERTY StampedResolves
