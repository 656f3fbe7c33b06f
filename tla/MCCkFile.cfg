\* Single-threaded use, close(2) never fails: the contract the spec states.
CONSTANTS
    f1 = f1
    f2 = f2
    p1 = p1
    p2 = p2
    Files <- MCFiles
    Paths <- MCPaths
    Fds <- MCFds
    MaxInodes = 2
    MaxSize = 2
    CloseMayFail = FALSE
    Concurrent = FALSE

SPECIFICATION Spec
INVARIANT TypeOK
INVARIANT FdOwnership
INVARIANT PositionIntegrity
PROPERTY RenameNeverOverwrites
SYMMETRY Symmetry
