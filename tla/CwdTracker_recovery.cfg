SPECIFICATION Spec
CONSTANTS
    Pids = {r, a, b}
    Root = r
    w = w
    d = d
    Dirs <- MCDirs
    WorkDir = w
    Below <- MCBelow
    Allowed <- Unshares
    MaxCalls = 5
    None = None
SYMMETRY Symm
INVARIANT RecoveryNeverWrong
