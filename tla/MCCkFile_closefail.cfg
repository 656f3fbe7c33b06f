\* Linux close(2) may fail and still releases the descriptor.
CONSTANTS
    f1 = f1
    f2 = f2
    p1 = p1
    p2 = p2
    Files <- MCFiles
    Paths <- MCPaths
    Fds <- MCFds
    MaxInodes = 2
    MaxSize = 1
    CloseMayFail = TRUE
    Concurrent = FALSE

SPECIFICATION Spec
INVARIANT FdOwnership
SYMMETRY Symmetry
