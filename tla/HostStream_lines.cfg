SPECIFICATION Spec
CONSTANTS
    stdout = stdout
    stderr = stderr
    Streams = {stdout, stderr}
    MaxWritten = 3
    MaxLine = 1
INVARIANTS
    OnlyWholeLines
    EveryLineOnce
PROPERTY
    Resolves
