--------------------------- MODULE MCCkFileRefines ---------------------------
(***************************************************************************)
(* CkFile implements FileContract.  The refinement mapping forgets the     *)
(* descriptor numbers: a File's abstract open file is the table entry its  *)
(* file_handle_ names, the directory and inode sizes are the abstract      *)
(* ones, and the inodes created are those below nextIno.  pc, arg and the  *)
(* observation variables have no abstract counterpart.                     *)
(***************************************************************************)
EXTENDS MCCkFile

OpenView ==
    [f \in Files |-> IF handle[f] = -1 THEN ClosedFd ELSE ofd[handle[f]]]

Contract == INSTANCE FileContract
              WITH cur <- OpenView, names <- dir, size <- isize,
                   used <- 1..nextIno - 1

(***************************************************************************)
(* Every step of File's methods, with their system calls on the shared     *)
(* descriptor table (Open's Close-then-open(2), Size's three lseek(2)s,    *)
(* Rename's stat(2) and rename(2), short reads and writes, failed calls),  *)
(* is a step of the atomic contract or leaves the contract's view alone:   *)
(* no descriptor is leaked or shared so that a later open(2) fails or a    *)
(* File reads another's position.                                          *)
(***************************************************************************)
ContractRefined == Contract!Spec

=============================================================================
