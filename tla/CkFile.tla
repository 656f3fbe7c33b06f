------------------------------- MODULE CkFile -------------------------------
(***************************************************************************)
(* ckcore::File on Linux (src/src/linux/file.cc) over the POSIX layer it   *)
(* calls.  A File object owns at most one descriptor number (file_handle_, *)
(* -1 when absent) and a path (file_path_).  Several File objects share    *)
(* one process: one descriptor table (lowest free number first, as open(2) *)
(* requires) and one directory mapping paths to inodes.  Each File object  *)
(* is used by one thread, which also makes the static calls attributed to  *)
(* it.  With Concurrent = FALSE the threads never overlap inside a call;   *)
(* with Concurrent = TRUE the two system calls of Rename interleave with   *)
(* the calls of other threads.                                             *)
(*                                                                         *)
(* Data is abstracted to lengths: an inode has a size, an open descriptor  *)
(* an inode, a position and a mode.  Byte values are not modelled.         *)
(***************************************************************************)
EXTENDS Integers, FiniteSets, FiniteSetsExt

CONSTANTS
    Files,          \* File objects (model values)
    Paths,          \* path names (model values)
    Fds,            \* descriptor numbers the process may still allocate
    MaxInodes,      \* bound: number of files open(O_CREAT) may create
    MaxSize,        \* bound: largest file size and file position
    CloseMayFail,   \* whether close(2) may return -1 (EIO, EINTR)
    Concurrent      \* whether Files are used from different threads

ASSUME Fds \subseteq Nat /\ Fds # {}
ASSUME MaxInodes \in Nat \ {0} /\ MaxSize \in Nat \ {0}
ASSUME CloseMayFail \in BOOLEAN /\ Concurrent \in BOOLEAN

NoInode == 0
Inodes  == 1..MaxInodes
Modes   == {"READ", "WRITE"}                   \* ckOPEN_READ, ckOPEN_WRITE
Whences == {"BEGIN", "CURRENT", "END"}         \* ckFILE_BEGIN, ...
Sizes   == 0..MaxSize

\* An entry of the kernel descriptor table; ClosedFd marks a free number.
OpenFile == [ino : Inodes, pos : Sizes, mode : Modes]
ClosedFd == [ino |-> NoInode, pos |-> 0, mode |-> "NONE"]

\* The arguments of a File's thread outside a two-step rename.
NoArg == [from |-> "none", to |-> "none"]

VARIABLES
    (* File objects *)
    alive,      \* File objects constructed and not yet destroyed
    path,       \* file_path_
    handle,     \* file_handle_ (-1 when no descriptor is held)
    (* the operating system *)
    dir,        \* path -> inode linked there, or NoInode
    isize,      \* inode -> size in bytes
    nextIno,    \* next inode number open(O_CREAT) allocates
    ofd,        \* descriptor number -> OpenFile or ClosedFd
    (* the thread of each File inside a two-step Rename *)
    pc,         \* "idle", "rename" (File::Rename), "srename" (static)
    arg,        \* [from, to] of the rename in progress
    (* observation: what the caller of each File has been told *)
    callerPos   \* file position the caller can derive from return values

osVars   == <<dir, isize, nextIno, ofd>>
fileVars == <<alive, path, handle>>
obsVars  == <<callerPos>>
vars     == <<fileVars, osVars, pc, arg, obsVars>>

TypeOK ==
    /\ alive \subseteq Files
    /\ path \in [Files -> Paths]
    /\ handle \in [Files -> Fds \cup {-1}]
    /\ dir \in [Paths -> Inodes \cup {NoInode}]
    /\ isize \in [Inodes -> Sizes]
    /\ nextIno \in 1..MaxInodes + 1
    /\ ofd \in [Fds -> OpenFile \cup {ClosedFd}]
    /\ pc \in [Files -> {"idle", "rename", "srename"}]
    /\ arg \in [Files -> [from : Paths, to : Paths] \cup {NoArg}]
    /\ callerPos \in [Files -> Sizes]

-----------------------------------------------------------------------------
(***************************************************************************)
(* The POSIX calls file.cc makes, as operators on the descriptor table     *)
(* `tab` they act on.  close(2) on Linux releases the number even when it  *)
(* returns -1 ("the file descriptor is released even if close returns an   *)
(* error"), so a failed close frees the slot and still reports failure.    *)
(***************************************************************************)
CloseOutcomes == IF CloseMayFail THEN BOOLEAN ELSE {TRUE}

SysClose(tab, fd, succeeds) ==
    IF tab[fd] = ClosedFd THEN [tab |-> tab, rc |-> -1]            \* EBADF
    ELSE [tab |-> [tab EXCEPT ![fd] = ClosedFd],
          rc  |-> IF succeeds THEN 0 ELSE -1]

\* lseek(2): the new offset, or -1 (EBADF, or EINVAL before offset 0).
SysLseek(tab, fd, distance, whence) ==
    IF tab[fd] = ClosedFd THEN -1
    ELSE LET base == CASE whence = "BEGIN"   -> 0
                       [] whence = "CURRENT" -> tab[fd].pos
                       [] whence = "END"     -> isize[tab[fd].ino]
             new  == base + distance
         IN IF new < 0 THEN -1 ELSE new

\* open(2) with O_RDONLY, or O_CREAT | O_WRONLY: the lowest free number.
SysOpen(tab, p, mode) ==
    LET free   == {d \in Fds : tab[d] = ClosedFd}
        exists == dir[p] # NoInode
        ino    == IF exists THEN dir[p] ELSE nextIno
    IN IF free = {} \/ (mode = "READ" /\ ~exists)               \* EMFILE, ENOENT
       THEN [fd |-> -1, tab |-> tab, dir |-> dir, next |-> nextIno]
       ELSE [fd  |-> Min(free),
             tab |-> [tab EXCEPT ![Min(free)] =
                         [ino |-> ino, pos |-> 0, mode |-> mode]],
             dir |-> [dir EXCEPT ![p] = ino],
             next |-> IF exists THEN nextIno ELSE nextIno + 1]

\* rename(2): replaces an existing target atomically.
SysRename(from, to) ==
    IF dir[from] = NoInode THEN [ok |-> FALSE, dir |-> dir]          \* ENOENT
    ELSE IF from = to THEN [ok |-> TRUE, dir |-> dir]
    ELSE [ok |-> TRUE, dir |-> [dir EXCEPT ![to] = dir[from], ![from] = NoInode]]

\* File::Exist(const Path &), lines 298-302: stat(2) succeeds.
StaticExist(p) == dir[p] # NoInode

-----------------------------------------------------------------------------
\* Mutant: Close stores 0 instead of -1 after close(2) succeeded.
CloseResetsToZero(f, succeeds) ==
    IF handle[f] = -1 THEN [tab |-> ofd, h |-> -1, ret |-> FALSE]
    ELSE LET r == SysClose(ofd, handle[f], succeeds)
         IN [tab |-> r.tab, h |-> IF r.rc = 0 THEN 0 ELSE handle[f], ret |-> r.rc = 0]

\* Mutant: Close forgets to reset file_handle_ after close(2) succeeded.
CloseKeepsHandle(f, succeeds) ==
    IF handle[f] = -1 THEN [tab |-> ofd, h |-> -1, ret |-> FALSE]
    ELSE LET r == SysClose(ofd, handle[f], succeeds)
         IN [tab |-> r.tab, h |-> handle[f], ret |-> r.rc = 0]

(***************************************************************************)
(* File::Close, lines 76-88, as the value it leaves: the table, the new    *)
(* file_handle_ and the result.  Open, Remove, Rename and ~File call it.   *)
(***************************************************************************)
Close(f, succeeds) ==
    IF handle[f] = -1 THEN [tab |-> ofd, h |-> -1, ret |-> FALSE]
    ELSE LET r == SysClose(ofd, handle[f], succeeds)
         IN [tab |-> r.tab,
             h   |-> IF r.rc = 0 THEN -1 ELSE handle[f],
             ret |-> r.rc = 0]

\* File::Test, lines 94-97: a descriptor number is held.
Test(f) == handle[f] # -1

\* Thread t may run: it is inside a call, or no other thread is.
MayRun(t) == Concurrent \/ \A u \in Files \ {t} : pc[u] = "idle"

Idle(f) == pc[f] = "idle" /\ MayRun(f)

\* callerPos is only meaningful while f holds a descriptor; 0 otherwise.
ForgetPos(f, h) ==
    callerPos' = IF h = -1 THEN [callerPos EXCEPT ![f] = 0] ELSE callerPos

-----------------------------------------------------------------------------
\* File::File(path), lines 29-31: record the path, no descriptor.
Construct(f, p) ==
    /\ f \notin alive /\ Idle(f)
    /\ alive' = alive \cup {f}
    /\ path' = [path EXCEPT ![f] = p]
    /\ handle' = [handle EXCEPT ![f] = -1]
    /\ callerPos' = [callerPos EXCEPT ![f] = 0]
    /\ UNCHANGED <<osVars, pc, arg>>

\* File::~File, lines 37-40: Close() with its result ignored.
Destroy(f) ==
    /\ f \in alive /\ Idle(f)
    /\ \E ok \in CloseOutcomes :
         LET c == Close(f, ok) IN
         /\ ofd' = c.tab
         /\ handle' = [handle EXCEPT ![f] = c.h]
         /\ ForgetPos(f, c.h)
    /\ alive' = alive \ {f}
    /\ UNCHANGED <<path, dir, isize, nextIno, pc, arg>>

\* Mutant: Open(WRITE) passes O_TRUNC, emptying an existing file.
OpenTruncates(f, mode) ==
    /\ f \in alive /\ Idle(f)
    /\ mode = "WRITE" /\ dir[path[f]] = NoInode => nextIno \in Inodes
    /\ \E ok \in CloseOutcomes :
         LET c == Close(f, ok) IN
         IF handle[f] # -1 /\ ~c.ret
         THEN /\ ofd' = c.tab
              /\ UNCHANGED <<handle, dir, nextIno, callerPos, isize>>
         ELSE LET o == SysOpen(c.tab, path[f], mode) IN
              /\ ofd' = o.tab
              /\ dir' = o.dir
              /\ nextIno' = o.next
              /\ handle' = [handle EXCEPT ![f] = o.fd]
              /\ isize' = IF o.fd # -1 /\ mode = "WRITE"
                           THEN [isize EXCEPT ![o.dir[path[f]]] = 0] ELSE isize
              /\ callerPos' = [callerPos EXCEPT ![f] = 0]
    /\ UNCHANGED <<alive, path, pc, arg>>

(***************************************************************************)
(* File::Open, lines 49-69.  A held descriptor is closed first and a       *)
(* failed Close aborts the call; otherwise open(2) sets file_handle_,      *)
(* -1 included.                                                            *)
(***************************************************************************)
Open(f, mode) ==
    /\ f \in alive /\ Idle(f)
    /\ mode = "WRITE" /\ dir[path[f]] = NoInode => nextIno \in Inodes
    /\ \E ok \in CloseOutcomes :
         LET c == Close(f, ok) IN
         IF handle[f] # -1 /\ ~c.ret
         THEN /\ ofd' = c.tab
              /\ UNCHANGED <<handle, dir, nextIno, callerPos>>
         ELSE LET o == SysOpen(c.tab, path[f], mode) IN
              /\ ofd' = o.tab
              /\ dir' = o.dir
              /\ nextIno' = o.next
              /\ handle' = [handle EXCEPT ![f] = o.fd]
              /\ callerPos' = [callerPos EXCEPT ![f] = 0]
    /\ UNCHANGED <<alive, path, isize, pc, arg>>

\* File::Close, lines 76-88, called by the user.
CloseCall(f) ==
    /\ f \in alive /\ Idle(f)
    /\ \E ok \in CloseOutcomes :
         LET c == Close(f, ok) IN
         /\ ofd' = c.tab
         /\ handle' = [handle EXCEPT ![f] = c.h]
         /\ ForgetPos(f, c.h)
    /\ UNCHANGED <<alive, path, dir, isize, nextIno, pc, arg>>

(***************************************************************************)
(* File::Seek, lines 109-127: -1 without a descriptor, else lseek(2).  The *)
(* target must stay within the MaxSize bound.                              *)
(***************************************************************************)
Seek(f, distance, whence) ==
    /\ f \in alive /\ Idle(f)
    /\ LET r == IF handle[f] = -1 THEN -1
                ELSE SysLseek(ofd, handle[f], distance, whence)
       IN /\ r <= MaxSize
          /\ ofd' = IF r = -1 THEN ofd
                    ELSE [ofd EXCEPT ![handle[f]].pos = r]
          /\ callerPos' = IF r = -1 THEN callerPos
                          ELSE [callerPos EXCEPT ![f] = r]
    /\ UNCHANGED <<fileVars, dir, isize, nextIno, pc, arg>>

\* File::Tell, lines 134-142: lseek(fd, 0, SEEK_CUR); a query.
Tell(f) == IF handle[f] = -1 THEN -1 ELSE SysLseek(ofd, handle[f], 0, "CURRENT")

(***************************************************************************)
(* File::Read, lines 153-159, and File::Write, lines 169-175: -1 without a *)
(* descriptor, else read(2)/write(2).  The kernel may transfer fewer bytes *)
(* than asked, or fail (EBADF on a closed number or the wrong access mode, *)
(* EIO); a short count is returned to the caller and not retried.          *)
(***************************************************************************)
Transfer(f, count, mode, r) ==
    LET fd == handle[f] IN
    /\ IF r <= 0 THEN UNCHANGED <<ofd, isize, callerPos>>
       ELSE /\ ofd' = [ofd EXCEPT ![fd].pos = @ + r]
            /\ isize' = IF mode = "READ" THEN isize
                        ELSE [isize EXCEPT ![ofd[fd].ino] =
                                 Max({@, ofd[fd].pos + r})]
            /\ callerPos' = [callerPos EXCEPT ![f] = @ + r]

Usable(f, mode) ==
    handle[f] # -1 /\ ofd[handle[f]] # ClosedFd /\ ofd[handle[f]].mode = mode

Read(f, count) ==
    /\ f \in alive /\ Idle(f)
    /\ \E r \in IF ~Usable(f, "READ") THEN {-1}
                ELSE LET fd == ofd[handle[f]]
                         avail == Max({0, isize[fd.ino] - fd.pos})
                     IN {-1} \cup IF avail = 0 THEN {0} ELSE 1..Min({count, avail}) :
         Transfer(f, count, "READ", r)
    /\ UNCHANGED <<fileVars, dir, nextIno, pc, arg>>

Write(f, count) ==
    /\ f \in alive /\ Idle(f)
    /\ Usable(f, "WRITE") => ofd[handle[f]].pos + count <= MaxSize
    /\ \E r \in IF ~Usable(f, "WRITE") THEN {-1} ELSE {-1} \cup 1..count :
         Transfer(f, count, "WRITE", r)
    /\ UNCHANGED <<fileVars, dir, nextIno, pc, arg>>

\* File::Exist, lines 181-190: fstat(2) on a held number, else stat(2); a query.
Exist(f) == IF handle[f] # -1 THEN ofd[handle[f]] # ClosedFd ELSE StaticExist(path[f])

\* File::Remove, lines 198-203: Close() with its result ignored, then unlink(2).
Remove(f) ==
    /\ f \in alive /\ Idle(f)
    /\ \E ok \in CloseOutcomes :
         LET c == Close(f, ok) IN
         /\ ofd' = c.tab
         /\ handle' = [handle EXCEPT ![f] = c.h]
         /\ ForgetPos(f, c.h)
    /\ dir' = [dir EXCEPT ![path[f]] = NoInode]
    /\ UNCHANGED <<alive, path, isize, nextIno, pc, arg>>

(***************************************************************************)
(* File::Rename, lines 212-227, in its two steps: the stat(2) of the new   *)
(* path, which refuses an existing target, and then Close() with its       *)
(* result ignored followed by rename(2), which sets file_path_ on success. *)
(***************************************************************************)
\* Mutant: the stat(2) of the target is left out.
RenameCheckNoExist(f, to) ==
    /\ f \in alive /\ Idle(f)
    /\ pc' = [pc EXCEPT ![f] = "rename"]
    /\ arg' = [arg EXCEPT ![f] = [from |-> path[f], to |-> to]]
    /\ UNCHANGED <<fileVars, osVars, obsVars>>

RenameCheck(f, to) ==
    /\ f \in alive /\ Idle(f)
    /\ IF StaticExist(to)
       THEN UNCHANGED <<pc, arg>>
       ELSE /\ pc' = [pc EXCEPT ![f] = "rename"]
            /\ arg' = [arg EXCEPT ![f] = [from |-> path[f], to |-> to]]
    /\ UNCHANGED <<fileVars, osVars, callerPos>>

\* Mutant: file_path_ is set without checking what rename(2) returned.
RenameFinishIgnoresResult(f) ==
    /\ pc[f] = "rename" /\ MayRun(f)
    /\ \E ok \in CloseOutcomes :
         LET c == Close(f, ok) IN
         /\ ofd' = c.tab
         /\ handle' = [handle EXCEPT ![f] = c.h]
         /\ ForgetPos(f, c.h)
    /\ dir' = SysRename(path[f], arg[f].to).dir
    /\ path' = [path EXCEPT ![f] = arg[f].to]
    /\ pc' = [pc EXCEPT ![f] = "idle"]
    /\ arg' = [arg EXCEPT ![f] = NoArg]
    /\ UNCHANGED <<alive, isize, nextIno>>

RenameFinish(f) ==
    /\ pc[f] = "rename" /\ MayRun(f)
    /\ \E ok \in CloseOutcomes :
         LET c == Close(f, ok) IN
         /\ ofd' = c.tab
         /\ handle' = [handle EXCEPT ![f] = c.h]
         /\ ForgetPos(f, c.h)
    /\ LET r == SysRename(path[f], arg[f].to) IN
       /\ dir' = r.dir
       /\ path' = IF r.ok THEN [path EXCEPT ![f] = arg[f].to] ELSE path
    /\ pc' = [pc EXCEPT ![f] = "idle"]
    /\ arg' = [arg EXCEPT ![f] = NoArg]
    /\ UNCHANGED <<alive, isize, nextIno>>

\* File::Size(const Path &), lines 390-397: st_size from stat(2), or -1.
StaticSize(p) == IF dir[p] = NoInode THEN -1 ELSE isize[dir[p]]

SetPos(tab, fd, r) == IF r = -1 THEN tab ELSE [tab EXCEPT ![fd].pos = r]

\* The three lseek(2) calls of File::Size on a held number: Tell(), then
\* Seek(0, END) for the size, then Seek(saved, BEGIN).
SizeSeeks(f) ==
    LET fd   == handle[f]
        cur  == SysLseek(ofd, fd, 0, "CURRENT")
        size == SysLseek(ofd, fd, 0, "END")
        tab1 == SetPos(ofd, fd, size)
        back == SysLseek(tab1, fd, cur, "BEGIN")
    IN [size |-> size, tab1 |-> tab1, back |-> back, tab |-> SetPos(tab1, fd, back)]

\* Mutant: the final Seek(saved, BEGIN) is left out.
SizeCallNoRestore(f) ==
    IF handle[f] = -1 THEN [tab |-> ofd, ret |-> StaticSize(path[f])]
    ELSE [tab |-> SizeSeeks(f).tab1, ret |-> SizeSeeks(f).size]

(***************************************************************************)
(* File::Size, lines 279-291, as the table it leaves and the value it      *)
(* returns: the static form without a descriptor, else the three seeks.   *)
(***************************************************************************)
SizeCall(f) ==
    IF handle[f] = -1 THEN [tab |-> ofd, ret |-> StaticSize(path[f])]
    ELSE [tab |-> SizeSeeks(f).tab, ret |-> SizeSeeks(f).size]

Size(f) ==
    /\ f \in alive /\ Idle(f)
    /\ ofd' = SizeCall(f).tab
    /\ UNCHANGED <<fileVars, dir, isize, nextIno, pc, arg, callerPos>>

(***************************************************************************)
(* File::Time(const Path &), lines 342-360, and File::Access(const Path &, *)
(* FileMode), lines 371-383: whether stat(2) and access(2) succeed.        *)
(* Timestamps are not modelled, so localtime_r does not fail; every file   *)
(* is created by this process with S_IRUSR | S_IWUSR, so access(2) grants  *)
(* R_OK and W_OK on any file that exists.                                  *)
(***************************************************************************)
StaticTime(p) == dir[p] # NoInode

StaticAccess(p, mode) == mode \in Modes /\ dir[p] # NoInode

\* File::Time, lines 237-260: fstat(2) on a held number, else the static form.
Time(f) == IF handle[f] # -1 THEN ofd[handle[f]] # ClosedFd ELSE StaticTime(path[f])

\* File::Access, lines 270-273: always the static form on file_path_.
Access(f, mode) == StaticAccess(path[f], mode)

\* File::Remove(const Path &), lines 311-314: unlink(2).
StaticRemove(t, p) ==
    /\ Idle(t)
    /\ dir' = [dir EXCEPT ![p] = NoInode]
    /\ UNCHANGED <<fileVars, isize, nextIno, ofd, pc, arg, callerPos>>

\* File::Rename(old, new), lines 324-331: stat(2) of new, then rename(2).
StaticRenameCheck(t, from, to) ==
    /\ Idle(t)
    /\ IF StaticExist(to)
       THEN UNCHANGED <<pc, arg>>
       ELSE /\ pc' = [pc EXCEPT ![t] = "srename"]
            /\ arg' = [arg EXCEPT ![t] = [from |-> from, to |-> to]]
    /\ UNCHANGED <<fileVars, osVars, callerPos>>

StaticRenameFinish(t) ==
    /\ pc[t] = "srename" /\ MayRun(t)
    /\ LET r == SysRename(arg[t].from, arg[t].to) IN
       /\ dir' = r.dir
    /\ pc' = [pc EXCEPT ![t] = "idle"]
    /\ arg' = [arg EXCEPT ![t] = NoArg]
    /\ UNCHANGED <<fileVars, isize, nextIno, ofd, callerPos>>

-----------------------------------------------------------------------------
Distances == -MaxSize..MaxSize
Counts    == 1..MaxSize

Init ==
    /\ alive = {}
    /\ path = [f \in Files |-> CHOOSE p \in Paths : TRUE]
    /\ handle = [f \in Files |-> -1]
    /\ dir = [p \in Paths |-> NoInode]
    /\ isize = [i \in Inodes |-> 0]
    /\ nextIno = 1
    /\ ofd = [d \in Fds |-> ClosedFd]
    /\ pc = [f \in Files |-> "idle"]
    /\ arg = [f \in Files |-> NoArg]
    /\ callerPos = [f \in Files |-> 0]

Next ==
    \E f \in Files :
        \/ \E p \in Paths : Construct(f, p)
        \/ Destroy(f)
        \/ \E m \in Modes : Open(f, m)
        \/ CloseCall(f)
        \/ \E d \in Distances, w \in Whences : Seek(f, d, w)
        \/ \E n \in Counts : Read(f, n) \/ Write(f, n)
        \/ Remove(f)
        \/ \E p \in Paths : RenameCheck(f, p)
        \/ RenameFinish(f)
        \/ Size(f)
        \/ \E p \in Paths : StaticRemove(f, p)
        \/ \E p, q \in Paths : StaticRenameCheck(f, p, q)
        \/ StaticRenameFinish(f)

Spec == Init /\ [][Next]_vars

-----------------------------------------------------------------------------
(***************************************************************************)
(* Properties.                                                             *)
(***************************************************************************)

(***************************************************************************)
(* Descriptor ownership (spec 3, 5 and 9): the file_handle_ values of the  *)
(* live File objects and the open numbers of the descriptor table match    *)
(* one to one.  No File holds a number the kernel has freed or handed to   *)
(* another File (a later Close, Open, Remove, Rename or ~File would close  *)
(* the other File's descriptor), and no open descriptor is left without an *)
(* owner (leaked by Open's reopen, Destroy or a failed Close).             *)
(***************************************************************************)
FdOwnership ==
    /\ \A f \in alive : handle[f] # -1 => ofd[handle[f]] # ClosedFd
    /\ \A f, g \in alive : f # g /\ handle[f] # -1 => handle[f] # handle[g]
    /\ \A d \in Fds : ofd[d] # ClosedFd => \E f \in alive : handle[f] = d

(***************************************************************************)
(* Position integrity (spec 8.2 and 8.5): while a File holds a descriptor, *)
(* Tell() returns the position its caller derives from the values Open,    *)
(* Seek, Read and Write returned; Size, which saves the position, seeks to *)
(* the end and back, leaves it where it was.                               *)
(***************************************************************************)
PositionIntegrity ==
    \A f \in alive : Tell(f) # -1 => Tell(f) = callerPos[f]

(***************************************************************************)
(* Rename never overwrites (spec 6 and 8.5): once a path names a file, no  *)
(* step makes it name a different file; it keeps its inode or is removed.  *)
(* File::Rename and the static Rename guard rename(2) with a stat(2) of    *)
(* the target, and open(O_CREAT) creates only where nothing is linked.     *)
(***************************************************************************)
RenameNeverOverwrites ==
    [][\A p \in Paths : dir[p] # NoInode => dir'[p] \in {dir[p], NoInode}]_dir

(***************************************************************************)
(* A File's path follows its file (file.cc lines 212-227: file_path_ is    *)
(* set only when rename(2) succeeded): when a live File's path changes,    *)
(* the old path named a file and the new path names that same file after   *)
(* the step.  Another thread may unlink or move the file between Rename's  *)
(* stat(2) and its rename(2), which then fails and must leave the path.    *)
(***************************************************************************)
PathFollowsFile ==
    [][\A f \in alive :
         path'[f] # path[f] => dir[path[f]] # NoInode /\ dir'[path'[f]] = dir[path[f]]
      ]_<<path, dir>>

=============================================================================
