\* Files used from two threads: Rename's stat(2) and rename(2) interleave.
CONSTANTS
    f1 = f1
    f2 = f2
    p1 = p1
    p2 = p2
    Files <- MCFiles
    Paths <- MCPaths
    Fds <- MCFds
    MaxInodes = 2
    MaxSize = 1
    CloseMayFail = FALSE
    Concurrent = TRUE

SPECIFICATION Spec
PROPERTY RenameNeverOverwrites
SYMMETRY Symmetry
