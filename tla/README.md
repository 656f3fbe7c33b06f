# TLA+ models of ckcore's File

This directory holds TLA+ models of the ckcore library's file abstraction
(`src/src/linux/file.cc`, the POSIX back-end of `ckcore::File`) and of
`File::temp`, and the TLC configurations that check the models.

## 1. Inventory

### Components

| Component | Source | State | Operations |
|---|---|---|---|
| File object | `src/src/linux/file.cc`, declared in `src/include/ckcore/windows/file.hh` | `file_handle_` (descriptor number, `-1` when absent), `file_path_` | `File(path)`, `~File`, `Open`, `Close`, `Test`, `Seek`, `Tell`, `Read`, `Write`, `Exist`, `Remove`, `Rename`, `Time`, `Access`, `Size` |
| Static File operations | `file.cc` lines 298-397 | none of their own | `Exist`, `Remove`, `Rename`, `Time`, `Access`, `Size` on a path |
| POSIX layer (environment) | the system calls `file.cc` makes | per-process descriptor table (number → open file: inode, offset, access mode), directory (path → inode), inode sizes | `open`, `close`, `lseek`, `read`, `write`, `stat`, `fstat`, `unlink`, `rename`, `access` |
| Windows back-end | `windows/file.hh` (declaration only) | `HANDLE`, path | no implementation in the repository |
| `temp()` | declared in `windows/file.hh` lines 78-79 | none of its own; the temporary directory | modelled from the spec in `CkTemp` |
| `hidden()`, `name()` | declared in `windows/file.hh` | — | not implemented in any source present |
| Conversion helpers `ckcore::convert` | `src/tests/convert.hh` (test only) | none | implementation absent; out of scope (spec 1), not modelled |

### How they interact

* A File object calls the POSIX layer directly. It has no locks and no callbacks.
* Several File objects in one process share two things: the descriptor table
  and the directory.
* `open(2)` always returns the lowest free descriptor number. A number that
  one File gives back is therefore handed to the next File that opens.
* `close(2)` on Linux releases the number even when it returns an error.
* `rename(2)` atomically replaces an existing target.
* Several methods make more than one system call:
  * `Open` = `Close` + `open`;
  * `Remove` = `Close` + `unlink`;
  * `Rename` = `stat` + `Close` + `rename`;
  * `Size` = three `lseek`s.

  These calls are atomic only when a single thread uses the Files.

### What is hard

* **Failure inside a composite call.** `Open`, `Remove`, `Rename` and `~File` all
  call `Close`. `Open` aborts when that `Close` fails; the others ignore the
  result. A failed `close(2)` frees the number but `File` keeps it, so the
  number is stale.
* **Check-then-act.** `Rename` tests the target with `stat(2)` and then calls
  `rename(2)`. A target created in between is overwritten.
* **Position bookkeeping.** `Size` saves the position, seeks to the end and
  seeks back. `Seek` can fail with EINVAL. Reads and writes can be short.
* **Ownership across objects.** Every open descriptor should belong to exactly
  one live File. Reuse of the lowest free number makes a stale handle
  dangerous.

### What makes it correct

* **Ownership:** the live Files' handles and the open descriptors are in
  one-to-one correspondence (spec §3, §5, §9).
* **Position:** `Tell()` equals what the caller can derive from the values
  that `Open`, `Seek`, `Read` and `Write` returned (spec §8.2, scenario 5).
* **No overwrite:** a path that names a file is never re-pointed to another
  file; it can only lose its file (spec §6, §8.5).
* **Path follows the file:** a File's `file_path_` changes only when
  `rename(2)` succeeded, so the new path names the file the old one named.
  Another thread can unlink the file between `Rename`'s `stat(2)` and its
  `rename(2)`; `rename(2)` then fails and the path must stay.
* **Contract:** every method is one atomic step on a File's view (closed, or
  open on a file with its own position), whatever system calls it makes.
* **64-bit offsets:** a successful `Seek` lands at base + distance (spec §6).
* **Temporary files:** a caller writing to the File `temp` gave it writes to
  a file its own `open(2)` created.
* **Round trip:** bytes written to an empty file read back the same (spec §8.3).
  Byte values are not modelled; what the round trip rests on (positions,
  sizes, no truncation) is covered by the position and contract properties.

## 2. Modules

### `CkFile.tla`: File objects over the POSIX layer

This module models `file.cc`.

Constants:
* `Files`, `Paths`: File objects and path names.
* `Fds`: the descriptor numbers left free.
* `MaxInodes`, `MaxSize`: the bounds.
* `CloseMayFail`: whether `close(2)` may fail.
* `Concurrent`: whether Files are used from several threads.

Variables and what they stand for in the code:

| Variable | Code |
|---|---|
| `alive` | File objects constructed and not destroyed |
| `path[f]` | `file_path_` |
| `handle[f]` | `file_handle_` (`-1` absent) |
| `ofd` | kernel descriptor table: number → `[ino, pos, mode]` or `ClosedFd` |
| `dir`, `isize`, `nextIno` | directory, inode sizes, next inode `O_CREAT` allocates |
| `pc`, `arg` | a thread inside the two steps of a `Rename` (instance or static) |
| `callerPos` | observation only: the position the caller derives from returned values (0 while the File holds no descriptor) |

Each method is one action, with every call it makes inside the action. The
exception is `Rename`, whose `stat(2)` and `rename(2)` are two actions
(`RenameCheck`, `RenameFinish`; `StaticRenameCheck`, `StaticRenameFinish`).
That split is what lets another thread interleave between them.

The system calls are operators over the descriptor table:
* `SysOpen` takes the lowest free number; it fails with EMFILE or ENOENT.
* `SysClose` frees the number even on failure (Linux).
* `SysLseek` fails with EBADF, or with EINVAL before offset 0.
* `SysRename` replaces its target.

`Close(f, ok)` is `File::Close` as a value (table, new handle, result); the
actions that call `Close` use it. `SizeCall(f)` is `File::Size` the same way
(table after the three seeks, returned size). `Read` and `Write` choose any count from 1
to the request, or −1, which models short transfers and I/O errors. Reading
on a write-only descriptor returns −1 (EBADF), as `O_WRONLY` makes it. `Test`,
`Tell`, `Exist`, `Time`, `Access` and their static forms are query
operators. Timestamps and permission bits are abstracted: `Time` succeeds when
`fstat(2)`/`stat(2)` does (`localtime_r` does not fail on modelled times), and
`Access` when the path names a file (every file is created by the process
with `S_IRUSR | S_IWUSR`).

With `Concurrent = FALSE`, `MayRun` lets no thread start a call while another
is inside one. This is single-threaded use, so every method is atomic. With
`Concurrent = TRUE` another thread may run between `Rename`'s two steps. The
other methods need no split: apart from `Close`, which touches only the
File's own descriptor, each makes a single system call on shared state
(`open`, `unlink`), so running another thread between their calls gives no
outcome an atomic step does not.

### `FileContract.tla`: the abstract contract

This is the same File objects, seen as the caller sees them with one thread
and a `close(2)` that succeeds. Each File is `Closed` or holds
`[ino, pos, mode]`, and there is a directory `names` and sizes `size`. There
are no descriptor numbers. Every method is one atomic action:
* `OpenExisting`, `OpenCreate`, `OpenMissing`;
* `Close`, `Seek`, `Read`, `Write`, `Remove`, `Rename`;
* `StaticRemove`, `StaticRename`, `Construct`, `Destroy`.

A failed call (EBADF, EINVAL, a refused rename, a read at end of file) and
`Size` change nothing, so they are stuttering steps.

### `MCCkFileRefines.tla`: CkFile implements FileContract

`Contract == INSTANCE FileContract WITH cur <- OpenView, names <- dir,
size <- isize, used <- 1..nextIno - 1`. Here `OpenView[f]` is the table
entry `file_handle_` names, or `ClosedFd`. `ContractRefined == Contract!Spec`
is checked as a PROPERTY.

The mapping hides the descriptor numbers, so some bugs are invisible to it.
A failed `Open` that leaves the File closed looks like a `Close`, so a
descriptor leak is not a refinement failure; `FdOwnership` catches it. What
the refinement does catch is any step that changes the contract's view in a
way no method may:
* an `Open` that truncates;
* a `Rename` that moves `file_path_` without moving the file;
* a write that shrinks a file.

A `Size` that leaves the position at the end looks like `Seek(0, END)`;
`PositionIntegrity` catches that.

### `CkSeekWidth.tla` + `MCCkSeekWidth.tla`: Seek at integer width

This module covers `File::Seek` on one open descriptor. The `tint64`
distance is converted to `off_t` of `OffBits` bits by two's-complement
truncation. Then `lseek(2)` fails before offset 0 (EINVAL) and past the
largest `off_t` (EOVERFLOW). The widths are scaled: 8 bits for `tint64`,
8 or 5 for `off_t`. `MCCkSeekWidth` supplies the distances, since a cfg
cannot hold negative numbers.

### `CkTemp.tla` + `MCCkTemp.tla`: temporary names (modelled from the spec)

`temp()` is only declared. The spec (4, temp) describes it, and `CkTemp`
models that description:
* `Generate` draws a candidate name. Any name may come up, as with a
  random suffix.
* `Check` probes the name with the static `Exist` (`stat(2)`). A free name
  is returned without being created. A taken one is drawn again while
  fewer than `MaxTries` probes were made. After that temp returns an
  unusable File (`NoName`).
* `OpenWrite` is the caller's `File::Open(WRITE)` from `file.cc`. Its
  `open(O_CREAT | O_WRONLY)` creates the name if it is free and otherwise
  opens what is there.

`creator` records which caller's `open(2)` created each name, or `NoOwner`
for a file already in the directory. `MCCkTemp` uses two callers and two
names. `Init` lets any subset of the names be taken already, so the
"every candidate taken" case is reached.

### `MCCkFile.tla`: instantiation for TLC

* Two File objects `f1`, `f2` and two paths `p1`, `p2`, as model values.
* Descriptor numbers `3..4`: the numbers after stdin, stdout and stderr.
* Symmetry over Files and over Paths. It is sound because no definition
  distinguishes two Files or two Paths. The initial `path` of a File that
  is not yet constructed is never read.
* Descriptor numbers and inode numbers are not symmetric: allocation is
  lowest-first.

## 3. Runs

| Run | cfg | Expect | Checks |
|---|---|---|---|
| `contract` | `MCCkFile.cfg` | pass | `TypeOK`, `FdOwnership`, `PositionIntegrity`, `RenameNeverOverwrites`; single thread, `close(2)` succeeds, `MaxSize = 2`, `MaxInodes = 2` (149,626 distinct states, under half a minute) |
| `close_failure` | `MCCkFile_closefail.cfg` | violation | `FdOwnership` when `close(2)` may fail (Linux semantics) |
| `rename_race` | `MCCkFile_race.cfg` | violation | `RenameNeverOverwrites` with Files on two threads |
| `threads` | `MCCkFile_threads.cfg` | pass | `PathFollowsFile` with each File on its own thread, so another thread can run between `Rename`'s `stat(2)` and `rename(2)` (`MaxSize = 1`; 173,374 states, about 20 s) |
| `refinement` | `MCCkFile_refines.cfg` | pass | `ContractRefined`: CkFile implements FileContract (`MaxInodes = 2`, `MaxSize = 2`; 149,626 states, about a minute) |
| `seek_off32` | `MCCkSeekWidth_off32.cfg` | violation | `SeekHonoursDistance` with an `off_t` narrower than `tint64` |
| `temp` | `MCCkTemp.cfg` | pass | `TypeOK` of the `temp` loop, whose probe counter stays within `MaxTries` (830 states) |
| `temp_race` | `MCCkTemp_race.cfg` | violation | `TempFileExclusive` with two callers of `temp` |

The `contract` run uses the conditions under which the spec promises the
properties. Under them:
* ownership of descriptors holds through reopen, remove, rename and
  destruction;
* positions survive `Size`, failed seeks and short transfers;
* no rename replaces a file.

The four violation runs are disagreements between the code and the spec;
`PROJECT.json` "findings" records each one:
1. **`close_failure`.** When Linux's `close(2)` fails it frees the number,
   but `File::Close` keeps it. The File then refers to a descriptor it no
   longer owns. The next `open(2)` in the process reuses that number, and the
   File's next `Close`/`Open`/`Remove`/`Rename`/`~File` closes it.
2. **`rename_race`.** A file created between `Rename`'s `stat(2)` and
   `rename(2)` is overwritten.
3. **`seek_off32`.** `Seek` hands its 64-bit distance to `lseek(2)`. On a
   32-bit build without `_FILE_OFFSET_BITS=64`, `off_t` has 32 bits and the
   distance is truncated. `Seek(2^32, BEGIN)` then succeeds at offset 0
   (scaled: `Seek(32, BEGIN)` with a 5-bit `off_t` returns 0).
4. **`temp_race`.** Two callers draw the same free name. `temp` creates
   nothing, and `Open(WRITE)` has no `O_EXCL`. The second caller's Open
   opens the file the first one created, and both write into it. The spec
   asks that collisions be avoided but gives `temp` no way to reserve a
   name.

The other pass runs show the following:
* **`threads`**: `file_path_` moves only with the file even when another
  thread unlinks or creates files between `Rename`'s two system calls; the
  race breaks no-overwrite (`rename_race`) but not the File's own path.
* **`refinement`**: the descriptor-level model implements the atomic
  contract, with Open's close-then-open, Size's three seeks, Rename's two
  steps and short transfers.
* **`temp`**: the collision loop's states are well formed, its probe
  counter included, also when every name is already taken.

**Bounds.**
* Two Files and two descriptor numbers are the smallest setting in which a
  number passes from one File to another.
* Two paths are the smallest with a rename target.
* `MaxSize = 2` makes short transfers (1 of 2 bytes), seeks before offset 0
  and `Size` on a non-empty file reachable.
* `MaxInodes = 2` lets both paths hold distinct files, so rename over an
  existing file is possible.

The violation runs and `threads` use `MaxSize = 1`: their traces, and
`PathFollowsFile`, depend on paths and inodes, not on sizes. `refinement`
uses the same `MaxSize = 2` as `contract`, so short transfers and `Size` on
a non-empty file are checked against the contract as well.

For `seek_off32`, distances of 32 and 33 exceed a 5-bit `off_t`, -11 goes
before the start from every base, and 1 and 3 are the in-range steps.

**Fairness.** ckcore's File is a passive library: nothing in the code
schedules calls, so no module assumes fairness or states a liveness
property. `temp` has no implementation in the repository, so whether its
loop terminates is not a question the source can answer; the model bounds
it at `MaxTries` from the spec's description.

## 4. Not modelled, and why

* A refused `Rename` on an open File. It returns before `Close()` when the
  target exists, so the File stays open, against spec scenario 6. A single
  call shows this, and that scenario is a seed test, so no model run is
  spent on it.

* Crash and restart: the library persists nothing of its own. Each
  change to the directory is one system call (`open(O_CREAT)`, `unlink`,
  `rename`), which is atomic, and a crash frees every descriptor. A crash
  between two steps therefore leaves a state the model already reaches.
* Files sharing a path: after one File renames the file away, another
  File's `Remove` acts on its stale path. The spec (5) leaves this to the
  caller, so it is listed as a hazard with no property.
* The Windows back-end, `hidden()` and `name()`: there is no
  implementation in the repository, and the spec says nothing of them
  that has state. `temp()` has no implementation either, but the spec
  describes its loop, so `CkTemp` models it from the spec.
* Timestamps and permission bits: `Time` and `Access` are modelled only by
  whether they succeed.
* Byte contents: abstracted to sizes. The round trip rests on position and
  size bookkeeping, and on `Open` not truncating; `PositionIntegrity` and
  `ContractRefined` cover these.
* The conversion helpers (`convert.hh`): the spec (1) puts them out of
  scope and the repository has only their unit test, so any model of the
  routines would be invented.
* `Exist()` of an open File against `File::Exist` of its path: the spec
  defines the instance form through `fstat(2)`, which stays true after
  another call unlinks the path, and limits agreement of the two forms
  (8.6) to Files with no handle; the code does what the spec says.
* Instance and static queries agreeing while the path names the File's
  file: both forms are the same `stat`/`fstat` of the same inode in one
  atomic step, so the agreement holds by construction of the model and
  checking it shows nothing about the code.
* Copying a File: the header `file.cc` is compiled against is not in the
  repository (only the Windows declaration is), so whether the class is
  copyable cannot be read from the source.
* A byte-content module for the round trip of spec 8.3. The round trip
  follows from three facts, each already checked:
  * the position bookkeeping (`PositionIntegrity`);
  * `Open` keeping the size (`ContractRefined` against an `Open` that
    truncates);
  * writes growing the file.
  Byte values would multiply the states without adding a case.

## 5. Plan

Done:
* `CkFile` + `MCCkFile`;
* `FileContract` + `MCCkFileRefines`;
* `CkSeekWidth`;
* `CkTemp` + `MCCkTemp`.

Nothing more of the repository can be modelled faithfully (see 4). The
larger instance left unchecked is three Files. `contract` with three Files
and `MaxSize = 1` passes in about two minutes (884,722 states) when run
by hand, but it is not a run of its own. Most cases of interest take two
Files, and three-File runs would not fit the time budget next to the
other runs.
