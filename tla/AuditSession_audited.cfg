SPECIFICATION MCSpec
CONSTANTS
    NoLock = NoLock
    NoDoc = NoDoc
    a = a
    b = b
    c = c
    root = root
    Scripts = {a, b, c}
    Root = root
    BypassScripts = {b}
    QuietScripts = {c}
    Stamps = {"old", "new"}
    DnsOnline = {"resolve", "error", "hang"}
    MCModes = {"check", "update"}
    MCInstall = {TRUE, FALSE}
    MCRequested = {"auto", "firecracker", "docker", "bare"}
    MCBun = {FALSE, TRUE}
    MCGates = {TRUE, FALSE}
    MCPrepare = {FALSE}
    MCTrees <- OneTree
    MCLocks <- SomeLocks
INVARIANT
    HostRunsOnlyAudited
