# A TLA+ development of encfs4win

encfs4win is EncFS, an encrypting FUSE file system, ported to Windows on top of
the Dokan driver. A file operation comes in from the driver on one of Dokan's
worker threads, is translated into FUSE calls by *fuse4win*
(`src/fuse4win-070d3a2e43de/src`), and is served by *encfs*
(`src/encfs/encfs`), which stores encrypted files and names in an ordinary
directory. A program in the tray (`src/encfs/encfs/win`) keeps a list of
volumes and mounts each in a process of its own. This directory holds TLA+
modules for the parts whose correctness depends on state, order, concurrency or
arithmetic, TLC configurations that check them on small instances, and TLAPS
proofs of the main safety properties.

Line numbers below refer to `fusemain.cpp`, `fusemain.h`, `docanfuse.cpp` and
`utils.cpp` of fuse4win and to the files of `src/encfs/encfs` and its `win`.

## 1. The system

    tray program: maingui.cpp, drives.cpp, config.cpp (registry), subprocess.cpp
        | starts, watches and ends one process per drive
        v
    encfs: main.cpp, initFS (FileUtils.cpp): configuration, volume key
    application -> Dokan driver -> docanfuse.cpp (callbacks, names by utils.cpp)
        -> fusemain.cpp: impl_fuse_context    path/handle translation
             impl_file_locks   map path -> impl_file_lock
             impl_file_lock    handles of one path, share modes, byte ranges
             impl_file_handle  one open handle
        -> encfs.cpp (FUSE operations)
             EncFS_Context     openFiles: path -> placeholders -> FileNode; root
             DirNode           names (NameIO), rename, open (one mutex)
             FileNode          one file (one mutex)
               MACFileIO      : BlockFileIO   a MAC per block, optional
               CipherFileIO   : BlockFileIO   header, blocks, one-block cache
                 RawFileIO     descriptor
        -> compatwin.cpp (POSIX on Windows) -> NTFS
    main.cpp: idleMonitor thread, watching EncFS_Context; encfs_destroy stops it

### Components, their state, and what makes them correct

| component | state | operations | hard because | correct when |
|---|---|---|---|---|
| fuse4win open-file table (`fusemain.cpp:400-653, 860-1080`) | the map `file_locks`, each lock object's name and handle list, each handle's `file_lock` | `create_file`, `close_file`, `delete_file`, `move_file`; below them `get_file`, `remove_file`, `renamed_file` | two kinds of critical section, objects deleted by the last close, names that change under renames, ten worker threads | no handle points at a deleted object; one object per path; share modes are kept between any two handles; no lock-order deadlock; a refused call changes nothing |
| byte-range locks, reads and writes (`fusemain.cpp:482-560, 700-740, 983-1038`) | a map start -> length per handle | `lock_file`, `unlock_file`, `check_lock`, `read_file` in chunks, `write_file`, `set_end_of_file` | only two neighbouring ranges are looked at; the check is over before the access happens | ranges are disjoint; access is refused exactly when it touches another handle's range; locked bytes stay |
| directories and entries (`fusemain.cpp:224-400, 655-700`, `encfs.cpp`, `DirNode.cpp`) | none in memory | `find_files`, `get_file_information`, `create_directory`, `delete_directory`, attributes and times | several calls by path for one callback, no lock between them; entries come, go and are renamed meanwhile | a listing has every entry that stayed; no entry is left under a name that decodes to nothing |
| encfs open files (`Context.cpp`, `encfs.cpp`, `DirNode.cpp:615-816`) | `openFiles`, placeholders, FileNodes with their names and descriptors | `encfs_open`, `encfs_release`, `DirNode::rename` with its undo, `mknod`, `unlink` | open and rename touch the table outside one common lock; rename is undone when the disk refuses it | each placeholder is filed once, where release looks; one node per path; a node's name and file follow renames; the count returns to zero |
| directory renames (`DirNode.cpp:161-304, 441-573, 615-685`) | the list of renames done so far | `genRenameList`, `RenameOp::apply`, `undo` | stops half-way and is undone backwards | all or nothing |
| block and cipher I/O (`BlockFileIO.cpp`, `CipherFileIO.cpp`) | raw file, header, `fileIV`, `externalIV`, one cached block | `read`, `write`, `truncate`, `padFile`, `setIV`/`writeHeader` | block boundaries, holes, failing raw calls, a header re-encoded on rename, a cache that must be dropped at the right moments | the encrypted file behaves as a plain file |
| MAC I/O (`MACFileIO.cpp`) | one cached block | the same, with a header in each block | rounding between sizes with and without headers | sizes agree; only altered blocks are refused; a plain file |
| raw I/O (`RawFileIO.cpp`, `compatwin.cpp`) | two descriptors, cached size | `open`, `read`, `write`, `truncate`, `getSize` | short writes, stale cached size, an upgrade of the descriptor, a permission changed for a moment | the size cached is the size on disk; no handle leaks; the permission comes back |
| name coding (`NameIO.cpp`, `StreamNameIO.cpp`, `BlockNameIO.cpp`, `base64.cpp`) | the vector a path has left so far | encode and decode paths and single names | each element's vector depends on those before it, three versions, rounding | what is listed leads back; a foreign name is refused |
| ciphers (`SSL_Cipher.cpp`, `Cipher.cpp`) | | stream and block coding, keys from passwords | two passes in opposite order, versions that use half a vector | decoding inverts encoding; the same password makes the same key |
| configuration (`FileUtils.cpp`, `ConfigReader.cpp`, `ConfigVar.cpp`, `encfsctl.cpp`, `maingui.cpp:404-448`) | a file per version, the volume key in it | find, load, save, create, change the password | nothing locks it; it is emptied before it is written; a file that does not load is as good as none | the key of the files is never lost; the password last reported opens the volume |
| idle monitor (`main.cpp:427-476, 680-751`; `compatwin.cpp:148-282`; `Context.cpp:51-105`) | `running`, `usageCount`, `root`, the condition variable's waiters, releases, generation and event | the monitor loop, `unmountFS`, `encfs_destroy`, `getRoot`, `remountFS` | a flag written without the mutex that guards the wait; a condition variable built from an event | stopping never hangs; an idle volume is unmounted |
| mounts and the tray program (`drives.cpp`, `maingui.cpp`, `config.cpp`, `subprocess.cpp`; `docanfuse.cpp:443-733`) | the list of drives, an entry of the registry and a process for each | mount, unmount, add, menu, start and end of the program; the life of a process | commands begin inside the dialogues of others; processes end at any time; the program is started anew and must find them | the menu says what is mounted; one process per directory; nobody takes down another's drive |
| names, times and errors between Windows and encfs (`utils.cpp`) | none | conversions | surrogates, lengths, integer widths | they come back |
| memory pool, option parsing, third-party code | see section 6 | | | |

How they interact: fuse4win calls encfs through the FUSE operations table and
keeps, per handle, the path encfs must be given on release; encfs finds its own
object by that path. `DirNode`'s mutex is held during a rename and an open,
`FileNode`'s during a read or write, `contextMutex` during one table operation.
A rename reaches `FileNode::setName`, which takes no mutex, and from there
`CipherFileIO::setIV`. The monitor reads `openFiles` and `root` between calls.
The tray program and the encfs processes share the configuration of a volume,
the drive letters and process handles, and nothing else.

The hazards of this code, each at its line, are in `PROJECT.json`; the
properties below were chosen against that list.

## 2. The modules

| module | models | state | an action is |
|---|---|---|---|
| `FuseFiles` | the open-file table | `table`, `alive`, `lname`, `files`, `lcs`, `gcs` (the lock objects and the two kinds of critical section), `hlock`, `mode`, `older` (handles), `hfile`, `disk` (the files below), `pc`, `call` | one stretch of a handler inside one critical section, or one call into FUSE |
| `RangeLocks` | `lock_file`, `unlock_file`, `check_lock` | `listed`, `locks` | one call: each runs in one critical section |
| `FuseIO` | `read_file`, `write_file`, `set_end_of_file` over `RangeLocks` | and `content`, `pending` | the check of the locks; one chunk of a read, a write or a change of size |
| `FuseDirs` | the callbacks on directories and entries, over encfs and the OS | `chained`, `held` (directories on disk), `calls` | one call of the OS by path, or one step of a recursive rename |
| `OpenFiles` | the open-file table of encfs with open, release, rename | `openFiles`, `nodeOf`, `nname`, `nfile`, `dmutex`, `held`, `disk`, `pc`, `call` | one stretch between acquiring and releasing a mutex, and within a rename each table access, `setName` and disk call |
| `PlainFile` | what a file promises (abstract specification) | `content`, `ret` | one call |
| `BlockIO` | BlockFileIO as operators over a layer's own way to read and write a block | | |
| `BlockFile` | BlockFileIO over CipherFileIO; refines `PlainFile` | `volume`, `raw`, `hdr`, `node`, `moving`, `ret` | one FileNode call under its mutex; a rename is two |
| `MacFile` | BlockFileIO over MACFileIO; refines `PlainFile` | `volume`, `base`, `cache`, `ret` | one call, or somebody alters a byte |
| `RawFile` | RawFileIO over `compatwin.cpp`; refines `PlainFile` | `content`, `mode`, `asked`, `fd`, `known`, `open`, `handles`, `ret` | one call; an open that changes the permission is three |
| `RenameTree` | `genRenameList`, `RenameOp`, `rename`, `renameNode`, `setName` | `disk`, `header`, `node`, `queue`, `at`, `pc`, `result`, `refusals` | one `renameNode` or one disk rename, done, refused, undone; an open or a close |
| `NameCoding` | NameIO and its codings, the listing of DirNode | `coder`, `path`, `dir` | an entry, of this directory or another, comes into a directory |
| `Packing` | base64 and the sizes of names, byte by byte | `bytes` | one byte more |
| `Ciphers` | the passes of SSL_Cipher, the derivation of keys | `size`, `count`, `trial`, `made` | other data; one derivation |
| `Volume` | readConfig, initFS, createV6Config, OpenOrCreate, passwd, saveConfig | `disk`, `env`, `proc`, `data`, `word`, `mishaps` | one step of a process between two uses of the file |
| `ConfigCodec` | ConfigVar, ConfigReader, Interface, the registries, Range | `vars`, `file`, `saved`, `saves` | a value put in; a save |
| `WideNames` | names, times and error codes of `utils.cpp` | `wide` | another name |
| `Drives` | the tray program and the encfs processes it starts | `procs`, `drive`, `gui`, `heap`, `list`, `frames`, `saved`, `mishaps`, `lost` | one stretch of a command between two dialogues or waits; one step of a process |
| `IdleMonitor` | monitor thread, `encfs_destroy`, handlers, condition variable | see its `VARIABLES` | one access to shared state |
| `FuseFiles_Proofs`, `Volume_Proofs`, `OpenFiles_Proofs` | theorems about the module of that name | | |
| `Directories_Proofs` | theorems about `RenameTree` and `FuseDirs` | | |
| `BlockIO_Proofs` | theorems about the operators of `BlockIO`, over any layer that reads and writes blocks as a layer should | | |
| `Callbacks_Proofs` | theorems about `RangeLocks` and `FuseIO`; those about `RenameTree` and `FuseDirs` for the instances of `MCCallbacks` | | |
| `IdleMonitor_Proofs` | theorems about `IdleMonitor`, and about `Drives` as `MCIdleMonitor` instantiates it | | |
| `Files_Proofs` | theorems about `BlockFile`, and about `MacFile` and `RawFile` as `MCFiles` instantiates them | | |
| `MCFuseFiles`, `MCOpenFiles`, `MCFiles`, `MCVolume` | instances for TLC | `workers`, `layer` | |
| `MCCallbacks`, `MCVolumeCoding`, `MCIdleMonitor` | several instances in one module: `part` says which a behaviour is one of | `part` | |

`FuseFiles` and `OpenFiles` are the same calls seen from both sides: `held` of
`OpenFiles` is what `lname` of `FuseFiles` is to encfs, and `FuseFiles`
represents encfs by what open, mknod, rename and unlink do to `disk`.
`FuseIO` extends `RangeLocks`; `BlockFile` and `MacFile` instantiate `BlockIO`;
the three file layers are each shown to be a `PlainFile` to the one above, and
take the one below to be one.

Choices a reader should know:

* **Freed memory (`FuseFiles`).** Dereferencing a deleted `impl_file_lock` is
  undefined. A thread about to do so sets `freedUse` and the behaviour ends
  there (`Undefined` stutters). The properties checked with two threads therefore
  speak of all executions up to the first use of a freed object. That such a use
  is possible is what `fuse_dangling` shows. An address is not reused while
  something still points at it.
* **History.** `older[h]` of `FuseFiles`, the handles that were listed when h was
  added, exists for `ShareRespected` only, and no guard reads it. The same holds
  of `wiped` and `result` in its `call`, of `leaked` in `OpenFiles`, of `before`,
  `after`, `result` in `RenameTree`, of `ret` in the file layers (the last call with
  its arguments and answer, so that the refinement compares call with call), of
  `ever`, `stays` and `now` in a call of `FuseDirs`, of `lost` in `Drives`.
* **Names on disk (`RenameTree`).** `disk[e]` is the plain path whose encoding the
  entry bears as its own name, so it says both the name and the IV. Between the
  first and the last step of a directory's rename the entries below it bear names
  for a directory that is not there yet. `OpenFiles` has the concurrency around a
  rename of a single file, `FuseDirs` that of listings and new entries around one
  of a directory, and `RenameTree` what a rename does to a tree; `DirNode`'s
  mutex, which every rename holds, is why they can be told apart.
* **Refusals (`RenameTree`).** `refusals` counts what the OS refuses in one rename:
  a file that cannot be opened for writing, a name that cannot be changed, a
  directory with an open file in it (which Windows never moves). The properties
  speak of renames with at most one; after two nothing is promised, and the model
  follows such a volume only until the rename returns.
* **Ideal ciphers.** `BlockFile` keeps, for each raw byte, which buffer was encoded
  at which block with which IV, and which byte of it this is; decoding anything
  but a whole such buffer at its place gives `Garbage`. `NameCoding` seals a name
  with its seed and MAC. `Ciphers` adds terms that nothing else makes. `Packing`,
  `ConfigCodec` and `WideNames` have no cipher and compute with the bytes.
* **Integers.** `timeoutCycles` is `60 * idleTimeout / 10` in an `int`; its values
  after overflow are among the `Timeouts` of the run. `WideNames` takes the bits of
  an `int` as a constant, since `Int32x32To64` cuts a time to them. File sizes are
  far from 64 bits in every model.

### What breaks the promises

Some of what callers, the disk or other processes can do breaks what a module
promises. It is in the model all the same, under a name, and a constant (`Unsafe`,
`Mishaps`, `Kinds`) or the properties say without which of them a promise is
stated. With any one of these let in, TLC finds a violation of the property named.

| module | name | what happens | violates |
|---|---|---|---|
| `BlockFile` | extend | truncate beyond the end without headers: the raw file is extended before its last block is read (`BlockFileIO.cpp:379`) | `IsPlainFile` |
| | to nothing (also `RawFile`) | truncate to 0: `truncate_handle` takes the position 0 for an error (`compatwin.cpp:115`) | `IsPlainFile`, `RawSound` |
| | stale hole, past end (also `MacFile`) | a truncation to a block boundary leaves the cut-off block in the cache (`BlockFileIO.cpp:420`) | `IsPlainFile`; `CacheCoherent` (stale hole) |
| | unnoticed failure, refused cut, failed merge, short read (also `MacFile`) | a call below fails and its result is dropped | `IsPlainFile` |
| | lost header, unread header | the write or read of a header fails unnoticed (`CipherFileIO.cpp:231`) | `HeaderMatches`, `IsPlainFile` |
| | renaming | a call between the two steps of a rename (`FileNode.cpp:126`) | `IsPlainFile`, `HeaderMatches` |
| `MacFile` | unprotected | an alteration no MAC guards against | `IsPlainFile` |
| `RawFile` | elsewhere, ended | somebody else changes the size; the process ends while the permission is changed | `KnownSize`, `ModeRestored` |
| `FuseIO` | granted in between | a lock is granted between the check of an access and the access | `LockedBytesStay` |
| `FuseDirs` | created while moved | an entry is created in a directory on its way | `EntriesKept` |
| | listed while moved, unreadable, detached | a directory on its way is listed; the OS refuses to list one, which `encfs_getdir` shows as empty; an error is taken for attributes (`encfs.cpp:816`) | `ListingStands` |
| `Volume` | overlap, full, ended | two processes save at once; the disk is full or the process ends in the middle of a save | `KeyKept` |
| | upgrade | the new password of a V6 file from before the salt, whose subversion stays (`FileUtils.cpp:1383`) | `PasswordOpens` |
| | text | the new password of a V5 or V4 file that grows in text mode | `PasswordOpens` (run `volume_lost`) |
| `Drives` | taken | a letter is taken between its check and DokanMain, by another process or program | `ChildKnown`, `OneServer`, `OwnDrive` |
| | nested | a volume is mounted by a command inside one that mounts it | `ChildKnown`, `OneServer`, `MenuTrue` |
| | slow | the ten seconds of `Mount` end before the process is done | `ChildKnown`, `OneServer` |
| | killed | the program ends before it saved what it started | `ChildKnown`, `OneServer` |
| | torn | it ends while it saves a new entry: at the next start a null pointer, and the entry after it is passed over | `ChildKnown`, `OneServer` |
| | reused | a process gets the identifier an old entry still has | `MenuTrue` |

## 3. The runs

| run | instance | shows |
|---|---|---|
| `fuse` | one or two threads, 2 paths, 3 handles, 4 lock objects, all dispositions, moves and 3 share pairs with one thread, existing files, moves one way and 2 pairs with two | `ShareRespected`, `LockOrder`, `ListsAgree`, and with one thread `AloneAgrees`: no dangling handle, one object per path, the map agrees with the disk |
| `fuse_dangling` | 2 threads, 2 handles, no moves | finding 1: `NoDangling` fails |
| `fuse_failed` | 1 thread | finding 2: `FailedCreateKeepsData` fails |
| `callbacks` | *locks*: 3 handles, offsets 0..5, lengths -1..3. *io*: 2 threads, 2 handles, files up to 2 bytes read one at a time. *dirs*: 2 directories, 2 names, one thread listing, one changing. *tree*: a directory with a file and a subdirectory of two files, two names each, every order of listing, two refusals | `Disjoint`, `AccessExact`; `LockedReadWhole`, `LockedBytesStay`; `ListingStands`, `EntriesKept`; `AllOrNothing`, `HeadersFollow`, `FailsForCause` |
| `open` | one or two threads, 3 paths, 3 handles, 4 nodes; with two threads one path is renamed to one other | `FiledOnce`, `LostOnlyByRename`, `CountReturnsToZero`, and with one thread `AloneAgrees`: one node per path, nodes follow files, release finds |
| `open_lost` | 2 threads, 2 paths | finding 3: `ReleaseFinds` fails |
| `files` | blocks of 2 bytes, files up to 5 (4 in the MAC and raw layers), every volume option, two external IVs | `HeaderMatches`, `CacheCoherent`, `MacSound`, `RawSound`, the refinements `IsPlainFile` and `LayersArePlain` |
| `volume` | *volume*: 2 processes, passwords and keys, 4 sets of options, every version. *names*: 2 names, depth 2, 2 entries. *packing*: up to 4 bytes out of 5. *cipher*: up to 6 bytes, blocks of 2. *config*: 2 names, 3 integers, 2 strings, 2 saves. *wide*: up to 3 units out of 9 | `KeyKept`, `CalmPasswordOpens`, `CreationSpares`; `NamesFollowTree`; `CodesInvert`; `ConfigComesBack` |
| `volume_lost` | as *volume* | finding 4: `PasswordOpens` fails |
| `unicode_lost` | names of up to 3 units out of 6 | finding 5: `NamesComeBack` fails |
| `idle_shutdown` | *idle*: 2 handlers, 2 paths, timeouts 0, 1 and 6 cycles. *drives*: 2 directories, letters, processes and entries, 2 nested commands, the mishap torn | `EventMeansRelease`, `SignalNotLost`, liveness `ShutdownCompletes`; `DrivesStand` |
| `idle_unmount` | *idle*, timeout of 6 cycles | finding 6: `IdleUnmounts` fails |

Each passing run also checks the type invariants of its modules (`TypeOK`,
`TypesOK`). A property of the form "while `part` is x" is one of the modules'
own properties of the same name; `NamesFollowTree`, `CodesInvert`,
`ConfigComesBack`, `MacSound`, `RawSound` and `DrivesStand` are conjunctions of
those of one module, which says what each of them means.

### Bounds, and why they are enough

* *Threads.* The hazards are pairwise: one thread between two critical sections
  while another runs a whole call. Two threads show them all; the proofs of
  `FuseFiles` are for any number.
* *Handles, paths, lock objects.* Three handles make a list with a first, a
  middle and a last, or two objects with one of them shared. Two paths make a
  rename. One lock object more than paths lets a path get a new object while an
  old one is still referred to; with fewer, `GetFileNew` could not fire.
* *Third path in `OpenFiles`.* With two threads it is never renamed, so
  `LostOnlyByRename` can be violated there and is not.
* *Ranges.* Six offsets and lengths up to three give ranges that touch, nest,
  overlap on either side and start together; -1 and 0 are the refused lengths.
* *Reads in chunks.* A chunk is one byte, so a read of two is two chunks with a
  whole call of the other thread between them.
* *Directories.* One listed directory with two entries has one that stays while the
  other comes, goes or is renamed; a second directory is where a moved one goes or
  comes from.
* *The tree.* A subdirectory makes the order of the list and of the undoing
  matter; two files in it make one done and one not; a file beside it makes both
  orders of listing possible. Renames follow each other without limit, of any entry.
* *Blocks.* Five bytes in blocks of two is two full blocks and a partial one, so
  padding has a first, a middle and a last block; a write of three bytes covers
  a block and part of another from either side. Raw writes fail at once, after
  one block, or never.
* *Volumes.* Two processes make every overlap of two saves; one mishap, or one and
  the new password of an old file, shows what follows from each (`MCNext`).
* *Codings.* The bytes of `packing` have every bit pattern at either end of a group
  of six; four of them need six characters and leave a remainder of each size on
  the way. The units of `wide` are a separator of each kind, characters of one, two
  and three bytes, one of three that is not written whole, and high and low
  surrogates, in pairs and alone. The integers of `config` are checked at every
  power of two; its strings are long enough for a length of two bytes.
* *Drives.* Two of each make one that is mounted and one that takes its place. A
  mishap happens alone, since each is enough to break what is stated without it;
  the run lets a torn entry happen, while no process runs and none is started
  afterwards. The other mishaps are let in by adding them to `Kinds`: with `slow`,
  `killed` and `reused` in it, and the letters symmetric, every property holds as it
  is stated. `InOrder` leaves out behaviours that differ from others by the order
  in which directories, letters or processes are used first.
* *Idle monitor.* Its counters `idleCycles` and the condition variable's
  generation are not bounded: since the timed wait ends by the one signal
  `encfs_destroy` sends, both stay below three.

Deadlock is checked in every run. The only states without another step are
avoided by stuttering actions that stand for calls that change nothing
(`Lookup`, `Undefined`) and, in the rest, by calls that are always possible.

### Fairness

Only `IdleMonitor` has liveness properties. `Fairness` is weak fairness of
the monitor's steps and of `encfs_destroy`'s steps after its first: both are
threads the operating system schedules, and each waits only for the mutex
(held by the other for a bounded number of its own steps), for the event (which
stays set until the waiter resets it) or for the other thread to end. Nothing is
assumed about handlers, nor that `encfs_destroy` is ever called: applications
need not make calls, and `ShutdownCompletes` begins when it is. Of the tray
program nothing is assumed either: a user need not answer a dialogue.

### Findings

1. *A lock object is deleted under a waiting handle*
   (`fusemain.cpp:957`, run `fuse_dangling`). The last close leaves the object's
   critical section, then enters the table's and deletes the object if its list
   is empty. A thread that found the object in the map in between, and is about
   to enter its critical section or to add its handle, is left with a pointer to
   freed memory.
2. *A refused CreateFile has already destroyed the file*
   (`fusemain.cpp:440`, `fuse_failed`). CREATE_ALWAYS and TRUNCATE_EXISTING
   delete or empty the file before share modes are compared.
3. *Release looks under the wrong path* (`Context.cpp:159`, `open_lost`). encfs
   renames its table before its caller learns of it, and files a new placeholder
   after giving back `DirNode`'s mutex.
4. *A new password locks an old volume* (`ConfigReader.cpp:111`, `volume_lost`).
   The configuration of a V5 volume is written in text mode: its bytes 10 become
   two, its size no longer agrees, and nothing loads it again.
5. *Some names do not survive UTF-8* (`utils.cpp:96`, `unicode_lost`). For
   characters from U+0800 to U+0FFF and from U+10000 to U+3FFFF `put_utf8` writes
   one byte less than it counts, and the first is whatever the buffer held.
6. *An idle volume is never unmounted* (`compatwin.cpp:243`, `idle_unmount`).
   `pthread_cond_timedwait` computes a timeout and then waits for ever.

Two more disagreements have no run of their own. `Range::closest` (`Range.h:94`)
calls itself with the same value for ever when the value asked for is above the
least by less than half an increment: `Never` in `ConfigCodec`, and `FoundAgain`
says exactly for which sizes. And the mishaps of the table in section 2 that need
no fault of a disk or a user (extend, to nothing, stale hole, granted in between,
created while moved, nested) are sequences of legal calls.

## 4. The proofs

TLAPS proves, for every value of the constants allowed by the modules'
assumptions:

| theorem | property | module |
|---|---|---|
| `TypeCorrect`, `SharesRespected`, `LocksOrdered`, `ListsAgreeAlways` | `TypeOK`, `ShareRespected`, `LockOrder`, `ListsAgree` | `FuseFiles_Proofs` |
| `AloneAlwaysAgrees` | `AloneAgrees` (of `MCFuseFiles`, which picks the threads) | `FuseFiles_Proofs` |
| `TypeCorrect`, `LocksDisjoint`, `AccessIsExact` | `TypeOK`, `Disjoint`, `AccessExact` | `Callbacks_Proofs` |
| `ReadsWhole`, `LockedBytesAlwaysStay` | `LockedReadWhole`, `LockedBytesStay` | `Callbacks_Proofs` |
| `IOImplementsLocks` | `IOSpec => Spec`: `FuseIO` refines `RangeLocks` | `Callbacks_Proofs` |
| `TypeCorrect`, `EventAlwaysMeansRelease`, `NeverLost` | `TypeOK`, `EventMeansRelease`, `SignalNotLost` | `IdleMonitor_Proofs` |
| `DrivesAlwaysStand` | `DrivesStand` of `MCIdleMonitor`, a conjunction of the five properties of `Drives` | `IdleMonitor_Proofs` |
| `TypeCorrect`, `KeyAlwaysKept`, `CalmPasswordAlwaysOpens`, `CreationAlwaysSpares` | `TypeOK`, `KeyKept`, `CalmPasswordOpens`, `CreationSpares` | `Volume_Proofs` |
| `TypeCorrect`, `AlwaysFiledOnce`, `CountAlwaysReturns` | `TypeOK`, `FiledOnce`, `CountReturnsToZero` | `OpenFiles_Proofs` |
| `AloneAlwaysAgrees`, `AlwaysLostOnlyByRename` | `AloneAgrees`, `LostOnlyByRename` (of `MCOpenFiles`, which picks the workers) | `OpenFiles_Proofs` |
| `TypeCorrect`, `AlwaysAllOrNothing`, `HeadersAlwaysFollow`, `AlwaysFailsForCause` | `TypeOK`, `AllOrNothing`, `HeadersFollow`, `FailsForCause` of `RenameTree` | `Directories_Proofs` |
| `DirTypeCorrect`, `EntriesAlwaysKept`, `ListingAlwaysStands` | `DirTypeOK`, `EntriesKept`, `ListingStands` of `FuseDirs` | `Directories_Proofs` |
| `HeaderAlwaysMatches`, `CacheAlwaysCoherent` | `HeaderMatches`, `CacheCoherent` of `BlockFile`; `RunIsBlockFile` carries them over to the run | `Files_Proofs` |
| `BlockIsPlain` | `IsPlainFile`: `BlockFile` refines `PlainFile` | `Files_Proofs` |
| `RawAlwaysSound` | `RawSound` of `MCFiles` | `Files_Proofs` |
| `RawIsPlain` | `Raw!IsPlainFile`: `RawFile` refines `PlainFile` | `Files_Proofs` |
| `MacAlwaysSound` | `MacSound` of `MCFiles` | `Files_Proofs` |
| `MacIsPlain` | `Mac!IsPlainFile`: `MacFile` refines `PlainFile` | `Files_Proofs` |
| `LayersAlwaysPlain` | `LayersArePlain` of `MCFiles`, both of these refinements | `Files_Proofs` |
| `TypesAlwaysOK` | `TypesOK` of `MCFiles`, the types of the three layers | `Files_Proofs` |
| `TypesAlwaysOK`, `AlwaysAllOrNothing`, `HeadersAlwaysFollow`, `AlwaysFailsForCause`, `EntriesAlwaysKept`, `ListingAlwaysStands` | those of the run `callbacks`, by name | `Callbacks_Proofs` |

Each follows from its module's inductive invariant: `Invariant` (`Spec => []IInv`),
`IOInvariant`, `DirInvariant`, `BlockInvariant`, `RawInvariant`, `MacInvariant`,
`TrayInvariant`, `CallbacksInvariant`. Those invariants were first checked by TLC as
invariants of small instances. `CipherInv`, of which `BlockIsPlain` is a consequence, is
`BlockInv` and a bound on the size of the file and on the place of its cache.

*Assumptions.* TLC evaluates each in the runs that extend its module
(`MCCallbacks` names those of `RenameTree` and `FuseDirs`, which it instantiates).

* In `FuseFiles`, `OpenFiles` and `FuseIO` the null values are outside their sets
  and the inputs have their types; threads are finitely many in `OpenFiles` and
  `MCFuseFiles`, where a count of them is compared with one, and `MaxRead` is positive, as
  `MAX_READ_SIZE` is.
* In `RangeLocks` offsets are naturals and every nonempty set of them has a least
  and a greatest element, which holds of any finite set and says so in the form the
  proofs use.
* In `IdleMonitor` the bound is a natural and the timeouts are integers.
* In `Drives` (`TrayAssumption` of `MCIdleMonitor`) the bounds are naturals, and what
  it keeps in one variable is told apart: no process from the states of a letter, and
  nothing from a missing one. Its theorems assume that "nested" is not in `Kinds`; the
  run leaves it out too. All other mishaps may be let in: which of the five properties
  outlives which of them is part of the properties.
* In `Volume` the things `readConfig` may find (no file, an unreadable one, one of
  a version or with a cipher it does not support, a configuration) are told apart,
  and the three settings the dialogues offer are among the options.
* In `RenameTree` the volume is a finite tree: the chain of an entry is the
  entries on its way down from the top, ending with itself, and a listing has
  every entry below a directory, each directory after what is in it
  (`genRenameList` calls itself before it queues one, `DirNode.cpp:503-530`); and a
  second refusal is told from the first (`MaxRefusals >= 2`).
* In `BlockFile` and in the layers of `MCFiles` block sizes are positive and the
  sizes asked for naturals, and what is written is at least one byte: BlockFileIO
  passes an empty write on only at the end of the file, where it changes nothing
  (`BlockFileIO.cpp:199-208`). Its theorems assume `Calm`: of the calls of `Unsafe`
  none is let in but "short read" and "past end", which answer wrongly and change
  nothing that lasts. Each of the others breaks a promise (section 2), and the run lets
  none of them in. `BlockIsPlain` and `TypesAlwaysOK` assume `Unsafe = {}`, as the run
  has it: what these two answer is not what the file has, so `IsPlainFile` is false with
  them.
* In `FuseDirs` there is a directory. Its theorems also assume `Mishaps = {}`, and
  those about reads and writes that "granted in between" is not in `Unsafe`: with
  them the properties are false (section 2), and the runs leave them out as well.
  These and `Calm` constrain constants of the model and not of the code: they say of
  which executions the theorem speaks.

*FuseFiles.* `ListsAgree` is not inductive by itself. A handle is used by at most
one thread and by none once a caller has it (`HandleUse`); a lock object a thread
has picked is the one its handle is being added to (`Checking`); the critical
section of an object is owned only by a thread between entering and checking
(`LockOwner`), which gives `LockOrder`; a fresh handle or object is referred to
by nobody (`Fresh`), so that allocating one cannot disturb a list; handles in a
list are listed in one object (`Filed`, `Pointing`). `ShareRespected` needs
`Shared`: what is checked against the list under the object's critical section is
still the list when the handle is added, and a handle's mode does not change
while it is listed. `AloneAgrees` is the work of a second invariant over the first
(`Agrees`): with one thread, it says at every point of a call by how much the map,
the names of the objects, the open handles and the disk are out of step, from which
it follows that between calls they are not.

*RangeLocks.* The invariant is `TypeOK`, `OnlyListedLock` and `Disjoint`. Its core
is the lemma `TwoNeighbours`: among disjoint ranges of one map, if any range
overlaps [s, s+n) then the first one at or after s or the last one before s does.
So the search `lock_file` makes is exact, which gives both `Disjoint` (a lock
granted overlaps nothing) and `AccessExact`.

*FuseIO.* An access is let through in one step and done in later ones, so what the
check found must survive in between. `IOInv` carries it in each thread's pending
call: no other handle has locked a byte of it (`Free`), a read inside a range of
its own handle is `guarded`, and what a guarded read has collected is still what
the file has (`Whole`). `AccessExact` gives `Free` when the call begins; a lock
granted later must not touch it, which is the hypothesis about `Unsafe`; and a
write or truncation of another thread that is itself `Free` leaves the bytes of the
range alone (`OverlayIs`, `ResizeIs`: which bytes a write and a change of size
touch, for sequences of any length). That two threads may use one handle is why
`Whole` is of guarded reads only.

*RawFile.* `RawInv` adds to the three parts of `RawSound` that a descriptor can write
exactly if it was opened for writing, and that an open that is on its way, with the
permission changed, is one no descriptor serves. Every call then keeps what is
remembered of the size true, though a raw write stops at any byte. That it refines
`PlainFile` rests on `SpliceIs` and `PartlyWritten`: which bytes a write touches, and
that a write that stopped is the first bytes of the whole one.

*BlockFile.* A call of BlockFileIO is a loop over blocks, `Rounds` of a recursive
function, of which nothing can be proved by induction over a predicate. So `UpTo`
does the induction over a set of numbers, by its least counterexample
(well-foundedness of the naturals), and `ReadRounds`, `WriteRounds` and `PadRounds`
say once for each loop that what every round keeps is true after all of them. What is kept is that
the file and its node agree (`Well`: a header that is there is that of the node's
path, and before there is one nothing was written) and that the cache is true
(`Cached`: what it holds is what its block on disk decodes to, as far as there is
something on disk). A raw write covers what is left of its block, or the block is
merged with what was read of it, or it fails and the cache is cleared (`CoverIs`,
`CacheWriteIs`); for a merge the read must have worked, which is what `Ready` and
`Budget` count: that enough raw reads will succeed for the header and for each
partial block. A write never leaves the file longer than the block it has reached
(`WriteInv`), so the block it writes next is the last one or beyond. When padding or a
truncation makes the file longer under a cached block, that block must be a full one
that lies in the file (`Firm`); when it is cut, what is cached must be dropped, whole or
just written (`GrownIs`, `CutIs`, `TrimmedIs`). A rename is two steps
with the IV in hand between them (`BlockInv`).

That `BlockFile` refines `PlainFile` is proved over `BlockIO_Proofs` (next). The bytes of
CipherFileIO, as a layer, are what the blocks on disk decode to (`CipherByte`), under
the IV the node has or is about to read, and these are the bytes of `Content`
(`CipherContentIs`). `CipherKeeps` says that it reads and writes single blocks as that
module asks: a block of which the file lacks the end decodes to what is there
(`CipherReadIs`), a block of nothing but hole reads as zeros where holes are allowed
(`HoleBlock`), and one that is put on disk under the IV of its place comes back
(`PutByBlocks`). The header is read or made by whichever call comes first, so a
file whose header has not been read has fewer raw calls left than it seems
(`CipherReads`, `CipherWrites`, `HeaderCost`). What is CipherFileIO's own is a
truncation, which with a header cuts the raw file itself after BlockFileIO has written
the last block again, so that for a moment this block is the short last block of a
file that is longer (`CipherTrims`, `CipherTruncateIs`).

*BlockIO.* BlockFileIO is one class over two layers, so `BlockIO_Proofs` proves it
once, of any layer with `LayerKeeps`: one block read is what the layer has of it or
the read fails, one block written that covers what there was of it is there or the
write fails and changes nothing, and what is cached is no part of what is on disk.
From this follow, for files, blocks and requests of any size, what a read returns,
what a write leaves when it stops at any block (the old bytes up to the gap, zeros in
it, the new bytes as far as it came), and that a truncation pads or cuts. The cache
is what makes this hard: a block is cached before it is written, padding changes the
last block of a file behind a write, and with holes a block may lie beyond everything
on disk (`Coherent`, `Within`, `Stale`). `Files_Proofs` shows that both layers keep
`LayerKeeps`, and gets from it that each refines `PlainFile`.

*MacFile.* `MacInv` says of the file below that each of its blocks is a hole or has
the header and MAC of its bytes (`BlockFits`), but for the one whose byte somebody has
altered (`AlteredOnce`), and that no header stands alone at its end (`Whole`). Sizes
with and without headers then correspond (`LocIs`, `SizeIs`), which is `SizesAgree`;
the MAC of a block that was not altered agrees, which is `NoFalseAlarm`; and since
reading one that was throws, a read that answers returns the bytes that were written,
which is the refinement.

*IdleMonitor.* `encfs_destroy` clears `running` without the mutex, so one could
fear that the monitor tests it, and goes to sleep after the signal. The invariant
says why not: the monitor owns the mutex from before its test until it is counted
as a waiter (`Mutex`, `Counted`), so `encfs_destroy`, which signals with the mutex
in hand, finds it counted or still to test `running` (`Signalled`).

*Drives.* The five properties follow from `TrayInv`, in six parts. `Listing`: the
objects are those of the list, each there once and with a key of its own, and the
registry has an entry with the directory and letter of each. `Commands`: a command is
about an object that is not mounted, no two about the same, and an object that is not
mounted names a process exactly while the last command waits for it. These two hold
whatever else happens. While no letter is taken from somebody who counts on it, the letter
a password is asked for is free (`FreeLetters`), and that of every process is free or
the process has it (`OwnLetters`), which gives `OwnDrive`: `fuse_teardown` finds its own
drive or none. While no identifier is used again, an object or an entry and the
process it names agree on directory and letter (`SameDrive`), which is `MenuTrue`.
Without any mishap but "reused", a process that has its drive is one a command waits for or one the registry records, and while the program runs an
object with it (`Attended`), and the registry has one entry for a directory (`Whole`):
two processes of one directory would have one entry, one object and so one identifier.
The program may end and begin anew in between: a process that serves is then found
through its entry, since its letter is in use by itself. `Enumerated`, by which Load
reads the registry, is a recursive function; `Downwards` does the induction over its
entries as `UpTo` does for the loops of `BlockFile`, and `EnumeratedInOrder` says that
it gives each entry once, and all of them when none is rejected.

*Volume.* What must not be lost is the key. `Shape` says what a process has in hand
at each point (the configuration it read, and the key it decoded from it). `Alone`:
unless another has begun beside it, a process on its way to save is the only one;
`Spares`: and if it is to create a volume, it has found no configuration that loads.
`CalmKept`: while no mishap has happened, the disk has the volume's key, under the
password last reported, and so has what any process has read. `CreationSpares` is an action property and follows from `Spares` step
by step.

*OpenFiles.* A placeholder being opened or put is in nobody else's hands
(`OwnHolder`, `InHand`), what is in the table has a handle or was leaked
(`Filing`), and its node has a descriptor (`Opened`); this is enough for
`FiledOnce` and for the table to come back to nothing. With one worker `Agrees` says,
at each point of a call, by how much the table, the nodes and the disk are out of
step (between `renameNode`, `setName` and the disk), and so that they are not
between calls. With several, `OnlyPairLost` bounds what may be missed to the two
paths of a rename.

*RenameTree.* The queue of a rename is a list in which no directory comes before
what is in it (`QueueOK`). `Along`: the elements before `at` bear their new paths
and the others their old ones, on disk (`DiskAlong`) and in headers, with the one
exception of the element whose turn it is. `Moves` is right because the old path of
an element still leads to it when its turn comes, and again when the undoing gets
back to it. `PathsAgree` and `NodesAgree` are what is true of headers and open
nodes when the OS has refused more than once and the undoing itself was cut short.

*FuseDirs.* With the mishaps left out at most one rename is on its way, and its
state says of each entry of its directory whether it has been recoded (`HeldOK`);
every other entry has the vector of its directory (this is `EntriesKept` when no
rename is on its way). What a listing has read, has still to read and has shown
goes together (`Known`), and has been so since it began (`Observed`).

*Callbacks.* `Callbacks_Proofs` proves that the run's instances satisfy the
modules' assumptions and that each of its steps is one of theirs. It is there
because the run's properties are those of instances; the theorems themselves are
the general ones.

Checked by TLC only:

* liveness (`ShutdownCompletes`, and `IdleUnmounts`, which fails): fairness and
  ENABLED are beyond the provers;
* the codings (`CodesInvert`, `NamesFollowTree`, `ConfigComesBack`), which compute
  over data by recursion.

## 5. Plan

Done: every module of section 2, and the proofs of section 4. Next:

1. `encfsctl` export and the reverse mode of volumes, over `NameCoding` and
   `BlockFile`.

Runs that ask related questions share an instance (`part`), so that the whole set
stays quick to run; a new module replaces or joins runs where it subsumes them.

## 6. Not modelled

The memory pool: a free list under one mutex. The parsing of options and command
lines, the wording of dialogues and of messages, icons and preferences: sequential
and without lasting state. The XML of boost, the arithmetic of ciphers and digests
and of the MAC, as bytes: third-party code or ideal in the models. Links, ownership
and extended attributes: one call each that passes a path on. Directories in
`FuseFiles`: encfs has no opendir, so they never enter the table. The printing and
copying commands of `encfsctl`, `makeKey`. The reverse mode beyond its names, and
read-only volumes. rlog, boost, openssl and the Dokan driver: third-party code,
present in the models only as what its callers assume of it.
