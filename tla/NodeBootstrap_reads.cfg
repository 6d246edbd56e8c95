SPECIFICATION Spec
CONSTANTS
    r = r
    a = a
    x = x
    y = y
    Pids = {r, a}
    Root = r
    Items = {x, y}
    Allowed <- MCCalls
    MaxCalls = 5
    None = None
CONSTRAINT Reads
SYMMETRY Symm
INVARIANTS FileReadsKept PromptExact
