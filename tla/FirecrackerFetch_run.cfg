SPECIFICATION FetchSpec
CONSTANTS
    rootfs = rootfs
    tgz = tgz
    vmlinux = vmlinux
    Early = {rootfs}
    Late = {tgz, vmlinux}
    Tgz = tgz
    Image = rootfs
    Kernel = vmlinux
    Sizes = {0, 1, 3}
    MaxBlocks = 3
    MaxRuns = 2
    MaxMeddling = 2
CONSTRAINT Bounded
INVARIANT
    ExtractExact
PROPERTIES
    StartsPinned
    ExtractSettles
CHECK_DEADLOCK FALSE
