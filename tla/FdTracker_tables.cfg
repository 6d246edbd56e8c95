SPECIFICATION Spec
CONSTANTS
    Pids = {r, a, b}
    Root = r
    x = x
    y = y
    Fds <- MCFds
    Dirs <- MCDirs
    Ranges <- MCRanges
    Allowed <- Calls
    MaxCalls = 6
    None = None
CONSTRAINT Tables
SYMMETRY Symm
INVARIANTS PrivateTrue InOrderExact SharedSeenByParent
