----------------------------- MODULE FileContract -----------------------------
(***************************************************************************)
(* What ckcore::File promises its callers when Files are used from one     *)
(* thread and close(2) succeeds: each File is closed or open on a file     *)
(* (an inode) with a position of its own and an access mode, and every     *)
(* method is one atomic step on that view.  Descriptor numbers, the        *)
(* two system calls of Rename, and the three lseek(2) calls of Size do not *)
(* appear here; CkFile, which has them, is shown to implement this module  *)
(* by the refinement mapping of MCCkFileRefines.                           *)
(*                                                                         *)
(* A call that fails (EBADF, EINVAL, ENOENT on read, a refused rename, a   *)
(* read at end of file) changes nothing, so it is a stuttering step here.  *)
(***************************************************************************)
EXTENDS Integers, FiniteSets, FiniteSetsExt

CONSTANTS Files, Paths, MaxInodes, MaxSize

VARIABLES
    alive,  \* File objects constructed and not yet destroyed
    path,   \* the path each File is bound to
    cur,    \* File -> Closed, or the file it has open: [ino, pos, mode]
    names,  \* path -> inode linked there, or NoInode
    size,   \* inode -> size in bytes
    used    \* inodes open(O_CREAT) has created so far

vars == <<alive, path, cur, names, size, used>>

NoInode == 0
Inodes  == 1..MaxInodes
Modes   == {"READ", "WRITE"}
Sizes   == 0..MaxSize
Closed  == [ino |-> NoInode, pos |-> 0, mode |-> "NONE"]
Handle  == [ino : Inodes, pos : Sizes, mode : Modes]

TypeOK ==
    /\ alive \subseteq Files
    /\ path \in [Files -> Paths]
    /\ cur \in [Files -> Handle \cup {Closed}]
    /\ names \in [Paths -> Inodes \cup {NoInode}]
    /\ size \in [Inodes -> Sizes]
    /\ used \subseteq Inodes

Init ==
    /\ alive = {}
    /\ path = [f \in Files |-> CHOOSE p \in Paths : TRUE]
    /\ cur = [f \in Files |-> Closed]
    /\ names = [p \in Paths |-> NoInode]
    /\ size = [i \in Inodes |-> 0]
    /\ used = {}

IsOpen(f) == cur[f] # Closed

\* The File releases what it has open; a closed File stays closed.
Release(f) == cur' = [cur EXCEPT ![f] = Closed]

-----------------------------------------------------------------------------
Construct(f, p) ==
    /\ f \notin alive
    /\ alive' = alive \cup {f}
    /\ path' = [path EXCEPT ![f] = p]
    /\ UNCHANGED <<cur, names, size, used>>

Destroy(f) ==
    /\ f \in alive
    /\ alive' = alive \ {f}
    /\ Release(f)
    /\ UNCHANGED <<path, names, size, used>>

\* Close on an open File; on a closed one it returns false and is a stutter.
Close(f) ==
    /\ f \in alive /\ IsOpen(f)
    /\ Release(f)
    /\ UNCHANGED <<alive, path, names, size, used>>

\* Open of a path that names a file, at position 0 (no O_TRUNC, no O_APPEND).
OpenExisting(f, mode) ==
    /\ f \in alive /\ names[path[f]] # NoInode
    /\ cur' = [cur EXCEPT ![f] = [ino |-> names[path[f]], pos |-> 0, mode |-> mode]]
    /\ UNCHANGED <<alive, path, names, size, used>>

\* Open(WRITE) of a path that names nothing creates a new empty file there.
OpenCreate(f) ==
    /\ f \in alive /\ names[path[f]] = NoInode
    /\ \E i \in Inodes \ used :
         /\ names' = [names EXCEPT ![path[f]] = i]
         /\ used' = used \cup {i}
         /\ cur' = [cur EXCEPT ![f] = [ino |-> i, pos |-> 0, mode |-> "WRITE"]]
    /\ UNCHANGED <<alive, path, size>>

\* Open(READ) of a path that names nothing fails, and the File ends closed.
OpenMissing(f) ==
    /\ f \in alive /\ names[path[f]] = NoInode
    /\ Release(f)
    /\ UNCHANGED <<alive, path, names, size, used>>

\* Seek to a non-negative offset relative to the start, the position or the end.
Seek(f, distance, whence) ==
    /\ f \in alive /\ IsOpen(f)
    /\ LET base == CASE whence = "BEGIN"   -> 0
                     [] whence = "CURRENT" -> cur[f].pos
                     [] whence = "END"     -> size[cur[f].ino]
       IN /\ base + distance \in Sizes
          /\ cur' = [cur EXCEPT ![f].pos = base + distance]
    /\ UNCHANGED <<alive, path, names, size, used>>

\* Read of k bytes, 1 <= k <= the bytes left, on a File open for reading.
Read(f, k) ==
    /\ f \in alive /\ IsOpen(f) /\ cur[f].mode = "READ"
    /\ k <= size[cur[f].ino] - cur[f].pos
    /\ cur' = [cur EXCEPT ![f].pos = @ + k]
    /\ UNCHANGED <<alive, path, names, size, used>>

\* Write of k bytes at the position; the file grows when it passes the end.
Write(f, k) ==
    /\ f \in alive /\ IsOpen(f) /\ cur[f].mode = "WRITE"
    /\ cur[f].pos + k \in Sizes
    /\ cur' = [cur EXCEPT ![f].pos = @ + k]
    /\ size' = [size EXCEPT ![cur[f].ino] = Max({@, cur[f].pos + k})]
    /\ UNCHANGED <<alive, path, names, used>>

\* Remove closes the File and unlinks its path; an open file keeps its inode.
Remove(f) ==
    /\ f \in alive
    /\ Release(f)
    /\ names' = [names EXCEPT ![path[f]] = NoInode]
    /\ UNCHANGED <<alive, path, size, used>>

\* A rename to a free path closes the File and moves its file, if it has one.
Rename(f, to) ==
    /\ f \in alive /\ names[to] = NoInode
    /\ Release(f)
    /\ IF names[path[f]] # NoInode
       THEN /\ names' = [names EXCEPT ![to] = names[path[f]], ![path[f]] = NoInode]
            /\ path' = [path EXCEPT ![f] = to]
       ELSE UNCHANGED <<names, path>>
    /\ UNCHANGED <<alive, size, used>>

StaticRemove(p) ==
    /\ names' = [names EXCEPT ![p] = NoInode]
    /\ UNCHANGED <<alive, path, cur, size, used>>

StaticRename(from, to) ==
    /\ names[to] = NoInode /\ names[from] # NoInode
    /\ names' = [names EXCEPT ![to] = names[from], ![from] = NoInode]
    /\ UNCHANGED <<alive, path, cur, size, used>>

-----------------------------------------------------------------------------
Next ==
    \/ \E f \in Files :
         \/ \E p \in Paths : Construct(f, p) \/ Rename(f, p)
         \/ Destroy(f) \/ Close(f) \/ Remove(f)
         \/ \E m \in Modes : OpenExisting(f, m)
         \/ OpenCreate(f) \/ OpenMissing(f)
         \/ \E d \in -MaxSize..MaxSize, w \in {"BEGIN", "CURRENT", "END"} :
              Seek(f, d, w)
         \/ \E k \in 1..MaxSize : Read(f, k) \/ Write(f, k)
    \/ \E p \in Paths : StaticRemove(p)
    \/ \E p, q \in Paths : StaticRename(p, q)

Spec == Init /\ [][Next]_vars

=============================================================================
