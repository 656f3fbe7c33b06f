\* Single-threaded use, close(2) never fails: CkFile implements FileContract.
CONSTANTS
    f1 = f1
    f2 = f2
    p1 = p1
    p2 = p2
    Files <- MCFiles
    Paths <- MCPaths
    Fds <- MCFds
    MaxInodes = 2
    MaxSize = 2
    CloseMayFail = FALSE
    Concurrent = FALSE

SPECIFICATION Spec
PROPERTY ContractRefined
SYMMETRY Symmetry
