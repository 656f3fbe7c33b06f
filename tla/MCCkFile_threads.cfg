\* Each File on its own thread, close(2) never fails: Rename's two system calls interleave with the other thread's calls.
CONSTANTS
    f1 = f1
    f2 = f2
    p1 = p1
    p2 = p2
    Files <- MCFiles
    Paths <- MCPaths
    Fds <- MCFds
    MaxInodes = 2
    MaxSize = 1
    CloseMayFail = FALSE
    Concurrent = TRUE

SPECIFICATION Spec
PROPERTY PathFollowsFile
SYMMETRY Symmetry
