------------------------------ MODULE CkSeekWidth ------------------------------
(***************************************************************************)
(* File::Seek (src/src/linux/file.cc lines 109-127) at the width of its    *)
(* integers.  The method takes and returns tint64, but lseek(2) takes and  *)
(* returns off_t, whose width is fixed by                                  *)
(* the build: 64 bits with _FILE_OFFSET_BITS=64 or on a 64-bit target, 32  *)
(* bits on a 32-bit target without it.  The repository does not fix the    *)
(* build, so OffBits is a parameter.  The distance is converted to off_t   *)
(* by truncation to OffBits bits (two's complement); lseek(2) fails with   *)
(* EINVAL before offset 0 and with EOVERFLOW past the largest off_t.       *)
(*                                                                         *)
(* One File holds one descriptor on a file of FileSize bytes.  DistBits    *)
(* stands for the 64 bits of tint64 and OffBits for off_t, scaled down.    *)
(***************************************************************************)
EXTENDS Integers

CONSTANTS
    DistBits,   \* width of tint64 (scaled)
    OffBits,    \* width of off_t in the build (scaled)
    FileSize,   \* size of the open file
    Distances   \* the tint64 distances callers pass

ASSUME OffBits \in Nat /\ DistBits \in Nat /\ 2 <= OffBits /\ OffBits <= DistBits
ASSUME Distances \subseteq -(2^(DistBits - 1))..2^(DistBits - 1) - 1

OffMax  == 2^(OffBits - 1) - 1
Whences == {"BEGIN", "CURRENT", "END"}

\* The implicit conversion of a tint64 to off_t: the low OffBits bits, signed.
ToOff(d) ==
    LET m == d % 2^OffBits IN IF m > OffMax THEN m - 2^OffBits ELSE m

VARIABLES
    pos,    \* the descriptor's file offset
    req,    \* the last Seek: [d, base], base the offset whence named
    ret     \* what that Seek returned

vars == <<pos, req, ret>>

TypeOK ==
    /\ pos \in 0..OffMax
    /\ req \in [d : Distances \cup {0}, base : 0..OffMax]
    /\ ret \in -1..OffMax

\* The offset SEEK_SET, SEEK_CUR and SEEK_END count from.
Base(whence) ==
    CASE whence = "BEGIN" -> 0 [] whence = "CURRENT" -> pos [] whence = "END" -> FileSize

\* lseek(2) on the open descriptor: the new offset, or -1.
SysLseek(distance, whence) ==
    LET new == Base(whence) + distance
    IN IF new < 0 \/ new > OffMax THEN -1 ELSE new             \* EINVAL, EOVERFLOW

\* File::Seek, lines 109-127: lseek(file_handle_, distance, whence).
Seek(distance, whence) ==
    /\ ret' = SysLseek(ToOff(distance), whence)
    /\ pos' = IF ret' = -1 THEN pos ELSE ret'
    /\ req' = [d |-> distance, base |-> Base(whence)]

Init ==
    /\ pos = 0
    /\ req = [d |-> 0, base |-> 0]
    /\ ret = 0

Next == \E d \in Distances, w \in Whences : Seek(d, w)

Spec == Init /\ [][Next]_vars

-----------------------------------------------------------------------------
(***************************************************************************)
(* A successful Seek lands where it was asked to (spec 6: offsets are      *)
(* 64-bit): when File::Seek does not return -1, it returns, and the file   *)
(* pointer is at, the base whence names plus the distance passed.          *)
(***************************************************************************)
SeekHonoursDistance == ret # -1 => ret = req.base + req.d /\ pos = ret

=============================================================================
