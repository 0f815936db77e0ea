# A verification development for code.melski.net

The repository collects small systems.  Two of them have the behaviour that is
hard to test: **lofs**, a Linux loopback filesystem (a kernel module: threads,
locks, callbacks from the VFS, a page cache over another filesystem's page
cache), and **base0fs**, the older stackable filesystem of the FiST project it
descends from.  The rest are command line tools over build logs, Perforce and
text.  This directory holds TLA+ models of both filesystems and of the tools, the
TLC runs that check them, and TLAPS proofs about most parts of lofs and the open
files and record locks of base0fs.

## 1. Inventory

### lofs

| part | state | operations | what it talks to |
|---|---|---|---|
| lookup thread (`kthread.c`) | `lofs_kthread_ctl` {flags, mux, req_list, wait}, one `lofs_lookup_req` {flags, p, mux, wait} per caller | `lofs_lookup_managed`, `lofs_threadfn`, `lofs_init_kthread`, `lofs_destroy_kthread` | called by `lofs_follow_down` (any task that walks a mount) and by module init and exit |
| persistent lower file (`main.c`, `file.c`, `super.c`) | `inode_info->lower_file` and its mutex, `file_info->wfi_file` | `lofs_privileged_open`, `lofs_init_persistent_file`, `lofs_open`, `lofs_release`, `lofs_destroy_inode` | every open; all page I/O |
| page cache and size (`mmap.c`, `read_write.c`, `inode.c: lofs_setattr`, `file.c: lofs_fsync`) | pages of the lofs inode, `i_size`, the lower file | `write_begin`, `write_end`, `readpage`, `writepage`, `fsync`, `setattr`, `clear_inode` | VFS, writeback, memory reclaim |
| names (`inode.c`) | lofs dentries and inodes, each with a reference to the lower one | `lookup`, `interpose`, `follow_down`, `create`, `link`, `unlink`, `symlink`, `mkdir`, `rmdir`, `mknod`, `rename` | lower directories and their `i_mutex` |
| revalidation (`dentry.c`) | lower dentry and mount of each dentry | `d_revalidate`, `d_release` | RCU walks, renames below |
| attributes, permissions, xattrs | none | pass-through | lower inode |
| mount and superblock (`main.c`, `super.c`) | super block info, root dentry | `lofs_mount`, `kill_sb`, `alloc_inode`, `destroy_inode` | VFS |
| module (`main.c`) | five kmem caches, registration, thread | `lofs_init`, `lofs_exit` | module loader |

Hard parts: three kinds of threads over one list with requests that their
owner frees (interleaving, lost wake-ups, shutdown); a handle that is replaced
while others use it; two inodes, two sizes and two page caches that must agree
while writeback, truncation, writes and mapped stores overlap, with partial
failures; reference counts on error paths; order of initialisation and
shutdown, RCU callbacks.

### base0fs

| part | state | operations | what it talks to |
|---|---|---|---|
| open files (`file.c`) | a lower file per file, two positions, two sizes | `open`, `release`, `mmap`, `llseek`, `readdir`, `read`, `write` | VFS, lower file |
| record locks (`file.c`) | the lock lists of the lower and the upper inode | `getlk`, `setlk`, `base0fs_posix_lock` | `fs/locks.c`, others on the lower file |
| names (`inode.c`, `dentry.c`, `main.c`, `super.c`) | private data of dentries (lower dentry, lower mount), `INODE_TO_LOWER` | `lookup`, `interpose`, `create`, `mkdir`, `mknod`, `symlink`, `link`, `unlink`, `rmdir`, `rename`, `setattr`, `d_release`, `clear_inode` | VFS, lower directories |
| mount and module (`main.c`, `super.c`) | private data of the superblock, the root | `parse_options`, `read_super`, `put_super`, module init and exit | VFS |
| page cache (`mmap.c`) | | | not built |
| index of encoded files (`sca_*.c`) | data file, index file, header | `put_page`, `get_page`, `read_idx`, `write_idx`, encode, decode | programs of the user |

Hard parts: references on every way out of an operation, two lookups that meet
an inode for the first time, a lower tree that others change; files whose
references are exchanged under a mapping; one position and one size kept twice;
locks taken in two steps, with a way back; index arithmetic at page boundaries.

### Tools

`annocat`, `agent_utilization`, `read_before_write` (build logs), `p4stats`,
`p42gource` (Perforce), `markov` (suffix search), `md5zero` (a benchmark),
`myreport`, `flowviz`, `bash_completion`.  All sequential; what can go wrong is
an algorithm (merging of intervals, running maxima, prefix filters).

What makes each part correct is listed, with the line where it bites, under
`hazards` in `PROJECT.json`.

## 2. Modules

    LookupService            abstract: what the lookup thread promises
      ^ implemented by
    LofsKthread              the lookup thread           MCLofsKthread
      LofsKthreadInv           its inductive invariant
      LofsKthreadProofs        theorems: safety, implements LookupService
    LofsModule               load, mount, unmount, unload
      LofsLifecycle            composed with LofsKthread MCLofsLifecycle
        LofsLifecycleProofs      theorems: mounts pin the thread, give back, unload
    LofsPersistentFile       the one lower file          MCLofsPersistentFile
      LofsPersistentFileProofs theorems: handles, references
    LofsPages                page cache, size, fsync     MCLofsPages
      LofsPagesProofs          theorems: sizes, truncation
        LofsPagesContents        theorems: what the pages and the lower file hold
    LofsNames                names and both dcaches      MCLofsNames
      LofsNamesProofs          theorems: references, victims in place, walks
    Base0Names               names, dentries, inodes     MCBase0Names
      Base0NamesProofs         theorems: upper inodes hold lower ones, references
    Base0File, Base0Locks    open files, record locks    MCBase0Files
      Base0FilesProofs         theorems about both
    ReadBeforeWrite, AgentUtilization, AnnoCat, P4Stats,
    Markov, ScaIndex         the tools                   MCTools

Every operator that models code has an entry in the map of `PROJECT.json` with
its source lines; locks, `vfs_write`, `fput`, the page cache of the kernel and
the like are modelled from how the code uses them and marked external.
Operators introduced by "Mutant:" are deliberate bugs, used to see that each
property can fail; no specification refers to them.

### LofsKthread

A client has at most one request, so a request is named by its client:
`reqLive`, `reqFlags`, `reqMux`, `path` are functions of the client.  `cpc`,
`wpc`, `rpc` say where the clients, the worker and the unloading task are; a
step ends where another thread can tell the difference: at each lock and
unlock, at each store to `flags` (which `wait_event` reads without a lock), at
each wake-up, and at the read of the next list element in
`list_for_each_entry`, which comes after the request was unlocked.  `kern_path`
succeeds or fails.  An allocation may fail.

`lofs_exit` may begin when no client is inside (`ForcedUnload = FALSE`: the file
system type names its owner, so a mount pins the module), or at any time
(`ForcedUnload = TRUE`: rmmod -f).  `RmmodOops` stands for the two accesses
through stale pointers that stop the kernel.  `kthread_run` failing is not in
this module, since then there is no thread.

`LookupService` says what a caller can rely on: an accepted lookup is served
once, or dropped because of the shutdown; none is served after the shutdown
began; the caller gets the answer that was given.  The refinement mapping
derives phase and answer of a client from `cpc`, `reqFlags` and `path`: the
answer is settled when PROCESSED or ZOMBIE is stored, before the ERROR flag is.

### LofsPersistentFile

One inode; `Files` are slots for open lofs files, `Handles` for lower files.
`mode` and `hmode` keep the FMODE bits that matter: read, write, and the seek
bits that the VFS sets at open.  `lofs_open` passes all of `f_mode`, so the seek
bits take part in the comparison of `lofs_init_persistent_file`;
`LowerSeekable = FALSE` is a lower filesystem that clears them
(`nonseekable_open`).  `pathRefs` counts what `dget` and `mntget` took for lower
files.  A handle is reused only when nothing points to it.

### LofsPages

One inode with `NumPages` pages of `PageSize` cells and its lower file.  A cell
holds the number of the store that wrote it, so that "newer" is "greater" and
a stale byte shows.  The i_mutex, the page lock, the dirty flag, the dirty tag
(which lofs never clears, since it does not use the writeback flag; fsync
therefore meets every page that was ever dirty and waits for its lock) are
state.  A behaviour keeps one
of the `Scenarios`: which operations the tasks use, how the lower filesystem
fails, how many stores there are, and whether the build loads `i_size` twice in
`lofs_writepage` (a data race: the code reads it twice with no lock).
`OffsetSpan` is the range of an `unsigned long` in cells; the runs take one that
holds the file.

Left out: stores behind the end of the file within its last page, a second user
of the lower file, `lofs_get_locked_page` and `lofs_bmap`.  A write is one round
of `generic_file_aio_write`, within a page.  Stores through a mapping need an
up-to-date page: what a mapping that survives a failed writeback does is left
out, as that page is locked for ever.

### LofsNames

Two directories, each a lofs one and the lower one beneath it, with the names in
them, and both dentry caches: `up` are lofs dentries, `low` lower ones.  A lofs
dentry points to a lower one and holds a reference to it and to the mount
(`lofs_dentry_info`); it is hashed, held by a call, or released
(`lofs_d_release`).  `call[t]` is what a task does: a walk, or an operation that
the VFS starts with the lofs directories locked.  It finds its names in the
dcache and has them revalidated (`Valid` is `lofs_d_revalidate`), or looks them
up: `LookupCached` and `LookupUncached` are the two branches of `lofs_lookup` under
the lower i_mutex, `InterposeRead` and the `Add` actions the two unlocked reads of
`lower_dentry->d_inode` in `lofs_lookup_and_interpose_lower`.  The operations
share their steps, which differ in the dentries they hold (`HeldBy`), the parents
they lock (`Taken`) and what they drop on failure (`Finish`); `lofs_mknod` is
`lofs_mkdir`.  Two ends stop the kernel: `null_inode`, `igrab` of a null pointer,
and `misplaced`, the `BUG_ON` in `may_delete`.

Others use the lower directories directly (`OtherCreates`, `OtherRemoves`,
`OtherRenames`, under the lower i_mutex), or change them on a server
(`RemoteChange`, after which the lower filesystem takes its dentry for stale);
both caches shrink; a stale dentry in use may resist invalidation ("busy").
`d_move`, `d_delete` and `d_invalidate` are modelled as the 2.6 kernels have them.
A behaviour keeps one of the `Scenarios`: names, operations, what others do,
failures.  `RefsBalance` counts what is owned: one reference per lofs dentry, per
lookup between finding a lower dentry and handing it over, per dentry and parent
an operation holds.  `WalkTruthful` compares a walk's answer with all the lower
directory held at its name since the walk began (`seen`).

Left out: mounts beneath (`lofs_follow_down` exchanges the pair), renames across
mounts, directories that move, attributes.

### LofsModule and LofsLifecycle

`mod` is where `lofs_init` or `lofs_exit` is, `mpc[m]` where a `mount(2)` is in
`lofs_mount`.  What a mount has taken is a set of named things (`held`), and each
step of the code adds or gives back some; every step that can fail does so in an
action of its own.  `build` keeps the three feature tests that change this code
(`HAVE_MOUNT_IN_FS_TYPE`, `HAVE_BACKING_DEV`, `LOOKUP_RCU`); the run takes all eight.
A mount may begin as soon as `register_filesystem` has been called, that is,
before the thread exists (`early`).  With RCU the root inode is given back to its
cache by a callback of its own (`pending`).  Two ends stop the kernel: the older
build writes through a null pointer when it has no memory for the root's private
data.  Mounts pin the module as `get_fs_type` and `put_filesystem` do.

`LofsLifecycle` runs this with `LofsKthread`: tasks look up within a mount, and
`lofs_exit` shuts the thread down.  `LofsKthread` alone has a guard in place of the
pin (`ForcedUnload = FALSE`); `MountsPinTheThread` says that the composition, where
the pin is that of the mounts, is an implementation of that specification.

### Base0Names

A directory has one name, so that a name is known by its directory.  Upper and
lower dentries are objects: `uat[u]` is the directory an upper dentry is hashed
in, `par`, `hashed` and `ino` what a lower one is.  Each task is in one call of
the VFS, which has locked the upper directories (`upLock`); `Lock` waits for the
lower ones.  `create`, `mkdir`, `mknod` and `symlink` make a name in the same steps and
differ in what they do with their dentry on failure (`Forget`): `mknod` and `symlink`
do what `mkdir` does.  `Iget` and `Interpose` are the two halves of
`base0fs_interpose`, between which another lookup may link the same inode.  Two
ends stop the kernel: "bug", a `BUG_ON` in `base0fs_interpose` or in `may_delete`, and
"null", a lower dentry without an inode that is used.

`lostMnt`, `lostDirs` and `lostInos` count the references that the code is known to
lose, on the lower mount, on each lower directory and on each lower inode, so that
`ReferencesAccounted` can say that it loses no others; `losses` counts the times.

### Base0File

All files are opens of one inode.  `upperRefs` and `lowerRefs` are the counts of a
file and of its lower file, `vmas` the mappings that were made through it and
refer to the lower file only.  A call holds a reference to its file while it is
in base0fs.  Bytes are counted, not kept: a read or a write moves by one.
`seqPos` is a ghost: the position that a file would have if calls came one at a
time and there were one position only.

### Base0Locks

One range of one file; `locks[v][o]` is what owner `o` has at level `v`, "lower" or
"upper".  `lpc` is the level that `base0fs_setlk` is at.  `PosixLock`, `ConflictFails`
and `ConflictSleeps` are the outcomes of `posix_lock_file`, `EndsLoop` the test of
`cmd` in the loop around it, `Rollback` the unlock of the lower file after a
failure at the upper one.  `Outsider` locks the lower file without base0fs.

### The tools

`ReadBeforeWrite`, `AgentUtilization`, `AnnoCat` and `P4Stats` are functions, written
as folds over their input in the order in which the scripts go through it, each
beside a definition of what the report should say.  `Markov` and `ScaIndex` are
state machines.  `Markov` has `int` arithmetic with its width (`Wrap`), and the
sorted array of suffixes for `qsort`.  `ScaIndex` has a file of cells, each a piece
of a page; a user puts pages in any order, or encodes whole files; `OffWords` is
the size of `off_t` in `int`s, which `write_idx` and `read_idx` do not agree on.

## 3. Runs

| run | instance | shows |
|---|---|---|
| `kthread_service` | 2 clients, forced unload, fair | result matches path, one answer, worker uses live requests, nobody forgotten, the invariant of the proofs; refinement of `LookupService`; lookups return, shutdown completes |
| `lifecycle` | 2 mounts, 2 clients, 8 builds | mounts give back what they took, caches outlive their objects, the module is pinned while the thread is in use |
| `file_opens` | 3 files, 5 handles | handles always usable for page I/O and writeback, references balance, one lower file, no demotion |
| `file_rug` | 2 files | violated: an upgrade closes the handle of earlier openers |
| `pages_safety` | 2 tasks, flusher, 2 pages of 2 cells, four scenarios | coherence, sizes, truth of writes, changes of size, fsync, nothing goes back |
| `pages_return` | 2 tasks, 2 pages of 1 cell, fair | operations return |
| `pages_race` | truncation with mapped stores | violated: a truncation is undone by writeback |
| `names` | 2 tasks, 2 directories with one name each, five scenarios | references balance, walks are truthful, victims are where they are locked |
| `names_race` | creation below | violated: a lookup takes a null inode |
| `base0_names` | 2 tasks, 2 directories, 2 inodes, 3 dentries above and below | references add up, upper inodes hold lower ones, the trees agree, no assertion is met |
| `base0_files` | 2 threads on a file; 2 processes and an outsider, fair | references of open files and mappings, positions, sizes; locks are backed, calls return or sleep |
| `tools` | small inputs of each tool | reports say what they should; the generated text; pages are read back |

Type invariants are checked as the first conjunct of one invariant of each
module (`IInv`, `NothingLeftBehind`, `PathRefsBalance`, `SizesAgree`, `RefsBalance`,
`ReferencesAccounted`, `FileRefsBalance`, `LocksBacked`).

Scenarios of `pages_safety`: a file that is written, read and resized while
`setattr` may fail, and one that is written, read, stored to through a mapping
and synced while nothing fails, each with three stores; one that is written, read
and stored to while reads and writes of the lower file fail or are short, in a
build that reloads `i_size`, with two; and every operation with every failure, with
one.  The properties say what they need of the scenario: `Coherence` and
`FsyncPushes` a lower file that takes all it is given and a build that loads
`i_size` once; `Coherence` moreover a file that is not both mapped and resized, at a
time when nobody truncates it, and `FsyncPushes` one that is not resized;
`NothingGoesBack` excludes the step of a truncation and the file that is both
mapped and resized; `WriteReportsTruth` needs a lower file that does not write
short, `TruncateSticks` a file that nobody has mapped, `SizesAgree` nothing.

Scenarios of `names`: one name that others create and remove, here and on a
server, while caches shrink and calls fail; one name on a server whose stale
dentries may stay; two names that are linked and renamed through lofs with
failures; that are renamed and removed while others remove them; and that are
removed while others rename them.  `WalkTruthfulMostly` excludes the last and the
stale dentries that stay, `VictimsInPlace` the last.  Renames through lofs and
below together are in no scenario: they make `RefsBalance` fail for parents (see
below), and the count drifts without bound.

Bounds.  Two requests already give a list with a successor; more clients add no
new position relative to the worker's and the shutdown's cursor but a middle
element, and the safety proofs hold for any number.  Clients come
again and again, so requests are reused after being freed.  Three open files
allow reader, writer and a third opener in the middle of an upgrade; handles are
one more than can be referenced plus the one being opened.  Two pages of two
cells have a full page, a partial page, an empty one, a hole and a prefix before
a write; three stores allow an old value, a newer one and a race between them.
With failures one store is enough for what is claimed there: sizes do not
depend on data, and a byte that goes back is a 0 over a 1.

In `LofsNames` two tasks are a lookup or an operation and its disturber; two
entries are what a rename or a link needs, in two directories so that parents
differ; of each kind of dentry there are as many as two tasks can hold or hash.

In `lifecycle` a second mount is what pins the module while the first fails.  In
`Base0Names` two names allow links, renames and an inode that two dentries find
at once; a third dentry is a name's next one while the old one is still in use.
References that are lost are never found again, so that each loss doubles the
states: `MaxLost` is one, which leaves out what happens after two of them;
`MaxOutside` is one change of the lower tree.  In `Base0File` one file suffices,
as others matter by the size only (`AnotherWrites`); `MaxSize` of two has a hole, an
end and a middle, `MaxFds` of two descriptors and two mappings the orders in which
they go, and `MaxBadMaps` is one refused mapping.  Two processes make a cycle of
waiters; the outsider is the conflict that appears at the lower level only.
The inputs of `tools`: up to three operations on a file and one on another; up to
three jobs of an agent beside two of another, within five instants; lists of up
to two branches with a file on every path of up to three components; up to four
changelists on five days with a window of two; one to three builds with one or two
jobs; samples of two to five characters from three, for order two; four puts of
pages that encode to fewer and to more cells than they have.

Deadlock is checked in all runs except `pages_safety`, where a page that a
failed operation left locked really stops its users, those of `LofsNames`,
where a task that stopped the kernel keeps its locks, `base0_files`, where a file
may be full, and `tools`, which end.  In `LofsKthread`, `LofsLifecycle` and
`Base0Names` the terminated system stutters.

Fairness.  Weak fairness for each thread's steps: the kernel schedules every
runnable task.  Strong fairness for taking `lofs_kthread_ctl.mux` and page
locks: their waiters queue and are woken in turn, whereas weak fairness would
let a releasing thread take the lock again for ever.  `LocksFairness`: a process in
`base0fs_setlk` is scheduled; nothing makes anyone give up a lock or send a signal.
No fairness for calling lofs, for storing, for reclaim or for unloading.

### Properties that do not hold

Each violated run is a finding in `PROJECT.json` with the line it contradicts.
Other things the models or the reading of the code showed are excluded where a
property would meet them.  Of lofs:

- a file that is mapped and truncated may keep in a clean page, and get back in the
  lower file, what was cut off (`pages_race` shows it for the size);
- after a failed `write_begin` or `writepage` a page stays locked for ever;
- a write the lower file refuses leaves its data in a clean page;
- a short write of the lower file is reported as a whole one;
- the last `iput` truncates dirty pages without writing them
  (`lofs/super.c:166`), so stores through a mapping that was closed are lost;
- a build that loads `i_size` twice in `lofs_writepage` may clean a page without
  writing it while the file grows, and fsync reports success;
- a rename in the lower directory between the unlock and the `dput` of
  `lofs_rename` makes it put a directory it did not take;
- a name found missing stays missing after a rename in the lower directory put a
  file there, as the old lower dentry stays negative (`lofs/dentry.c:93`);
- over a lower filesystem with `nonseekable_open` each open replaces the lower
  file, and the read/write one by a read-only one (`lofs/main.c:147`);
- with a 32-bit `unsigned long`, writepage puts a page beyond 4 GB elsewhere;
- under a forced unload (`rmmod -f`), `lofs_destroy_kthread` steps to the next
  request through one that its client may have freed: `RmmodUsesLiveRequests`
  holds for a pinned module only;
- the inode cache may be destroyed with an RCU callback pending, and with it a
  mount that was begun before `kthread_run` failed; a failing `bdi_setup_and_register`
  frees a null pointer in place of the private data's; the older mount code never
  gives its anonymous device back, nor, when it fails early, its private data.

Of base0fs:

- two lookups of one inode take two references and put one (`main.c:79`); a
  lookup that fails late, or meets `/proc` or `/dev`, keeps its mount; `rename` keeps
  both parents, though its comment says `unlock_rename` puts them (`inode.c:524`);
- `create` does not drop its dentry when `base0fs_interpose` fails, so that a name is
  denied that exists;
- a name that is removed while another task uses it may leave that task with a
  lower dentry that has no inode (the second `d_delete` of `unlink`);
- a failed append moves the position to the end; a `pread` between the two lines of
  `llseek` moves the file; two writers that extend a file may store the smaller
  size last;
- a mapping that the lower filesystem refuses exchanges the references all the same;
- `F_SETLK64` spins while there is a conflict; a call that fails at the upper file
  gives up a lower lock that was held before it.

Of the tools:

- `AgentUtilization` never counts an agent's last stretch, and stops with an error
  when no other was seen;
- the tree of branches in `util.tcl` takes a component that has the same parent name
  elsewhere for the one that was listed; `p4commits` counts neither the last
  changelist nor the last day;
- `annocat` keeps the last time it saw, not the largest (`annocat.pl:22` and `157`);
- `markov`'s seed is 0 wherever `RAND_MAX` is the largest `int`, or starts in front of
  the sample; it stops a full buffer without a terminator and compares with a
  pointer behind the array at the sample's end;
- `put_page` reads `offsets[-1]` for page 0, and loses what is behind a page that is
  added over a longer tail; an index that exists is kept when a file is encoded
  again; an `off_t` longer than an `int` is written as one and read as the other.

## 4. Proofs

Everything below is proved for every value of the constants that meets the named
assumptions: any number of clients, files, tasks, pages, stores, mounts or
processes.  None of the properties is inductive.  Each section gives the invariant
that is, which TLC checked on the instance of the component's run before it was
proved.  Each proof has one lemma for each actor or operation, one step for each
action, and below that one for each part of the invariant the action can disturb.

### The lookup thread

`LofsKthread`, from `ThreadsAreDistinct` and `ForcedUnloadIsBoolean`.

*Invariant.*  `IInv` (in `LofsKthreadInv`) adds who holds which mutex (`CtlMuxInv`,
`ReqMuxInv`), that what is still to be looked at on the list is waiting and has no
flags (`ListInv`, with `Pending` for the part ahead of the shutdown's cursor), that
whoever waits is answered, being worked on, or pending (`CoverInv`), what flags
and liveness are at each point of the client (`RequestInv`), when the caller's
path is replaced (`PathInv`), and where worker and shutdown can be (`WorkerInv`,
`RmmodInv`).  `CoverInv` is the core of `NoRequestForgotten`; `PathInv` that of
`ResultMatchesPath`.

*Theorems.*  `Invariance`; from it `TypeCorrect`, `ResultCorrect`, `OneAnswer`,
`WorkerMemorySafe`, `NobodyForgotten`.  `PinnedUnloadSafe`: without forced unload
the shutdown only meets an empty list, so `RmmodUsesLiveRequests` and
`StopFindsThread` hold (by `PinnedInv`, inductive relative to `IInv`).
`Refinement`: `LofsKthread` implements `LookupService`; seven kinds of steps
change what a caller can see, all others stutter.

### Mounts, the module and the thread

`LofsLifecycle`, from `BuildsAreKnown` and `LifecycleThreads` (the tasks have
different names).

`ThreadIsPinned`: `LofsLifecycle`, where the shutdown waits for nothing, implements
`LofsKthread` with its guard.  `PinInv` says that no mount is there or on its way
while the shutdown runs, that a lookup is within a complete mount, and that the
shutdown has not begun before `lofs_exit`; then a call finds the thread `loaded`, and
`RmmodBegin` every client idle.  All other steps are the same in both instances
(the `Same...` lemmas).  `UnloadIsSafe` carries `PinnedUnloadSafe` over to the whole
module by this refinement.

`MountsGiveBack` and `CachesAreEmptied` (`NothingLeftBehind`, `CachesOutliveObjects`)
follow from `MountInv`: what each point of a mount may hold in either build, and at
which points of `lofs_init` and `lofs_exit` there can be a mount at all.

### The persistent lower file

`LofsPersistentFile`, from `NullsAreNull`, `LowerSeekableIsBoolean` and `SlotsAreFinite`
(cardinalities need it).

`PInv`: who is in the mutex, that the lower files that are open are the inode's and
the one an opener is about to put in its place, with the one step between `fput` and
the assignment where the inode's is closed (`HandleInv`), and that the references to
the lower path are as many as lower files and opens under way (`RefsInv`).  From it
`ReferencesBalance` and `OneLowerFile`, over any lower filesystem.

`WInv` adds `WriterInv`: a lower file that cannot be written is replaced only by one
that can, one that can is not replaced, and while somebody writes, or has left
dirty pages behind, it is one that can.  `IoAlwaysFindsHandle`,
`WritebackAlwaysFindsHandle` and `WritersAreKept` have the premise `LowerSeekable`: over
a lower filesystem with `nonseekable_open` they are false, since the seek bits then
never match (section 3).  Every disk filesystem meets it.

### Pages and sizes

`LofsPages`, from `PageBounds`, `ScenariosAreKnown`, `TasksAreFinite` and
`ActorsAreDistinct`: any scenarios, so any mix of operations and failures.

`LofsPagesProofs` has what the locks give.  `LockedInv`: types, who holds `i_mutex`,
whose page is locked, up to date and in the cache at which point, and that a dirty
page that is not up to date is one whose writeback failed, which stays locked
(`StuckInv`); `StoresInv` keeps the clock within its bound.  On it rest

- `SizesAlwaysAgree`, by `SizeInv` (where a holder of `i_mutex` knows the sizes to be the
  same, and which is ahead elsewhere) and `WithinInv`: what a writeback has in hand
  lies within `i_size`, or a truncation will come by the page and has to wait for it.
  Writeback holds no `i_mutex`; that it never extends the lower file behind lofs's
  back is this second part;
- `TruncationSticks`, by `CutInv`: without mapped stores no page is dirty, and the lower
  file keeps the length the truncation gave it.

`LofsPagesContents` has what the cells hold, under the one assumption `OffsetsFit`: the
offsets of the file fit an `unsigned long`.  It holds for every file where that type
has 64 bits; where it has 32, writepage puts a page beyond 4 GB elsewhere (section 3)
and the theorems need not hold.  All of it rests on `Tame`: a step that
truncates nothing changes a cell below only to what an up-to-date page holds, and
a cell above only to what is below, when the page is filled, or to a new store.

- `WritesAreBelow` and `NothingGoesBackward` follow from `CellsInv`: no cell is newer than
  the clock (`ClockInv`), an up-to-date page is nowhere older than the lower file
  (`NewerInv`), and what a write was given is in its page and then below (`TruthInv`).
- `CachesCohere`, by `DiffInv`: where an up-to-date page differs from the lower file, the
  cell is waiting for writeback, in a writeback's or a write's hand, or about to be
  cut off by a truncation.  The theorem is the case where none of these can be.
- `FsyncsPush`, by `TagInv` (what is dirty or being written back has its tag, so fsync
  meets it) and `SyncInv`: each cell that was in the file when fsync was called is
  below already, or on its way and not behind fsync's cursor.  The cell may be in the
  flusher's hand, whose page lock fsync then waits for.  `Onward` says of every
  step that what is on its way stays so or arrives.

### base0fs: locks and open files

`Base0FilesProofs`.  `Base0Locks`, from `OutsiderIsAnother`: `LInv` says that both levels
agree outside the calls and that the lower one is what the call wants while it is at
the upper one, and that the locks of a level are compatible.  `LocksAreBacked`;
`LocksExclude` draws the conclusion a user cares about: while a process has a lock on
the upper file, nobody has one on the lower file that conflicts with it.

`Base0File`, from `FileBounds` and `FileConstants`: `OpenFilesInv` adds to the references
(`Balanced`) where each file's position is while one call at a time uses it (`OnCourse`),
and that the upper size is behind the lower one only while the writer that saw it
is about to store it (`SizesInv`).  `FileReferencesBalance`, `PositionsAreTrue`,
`SizesAreTrue`.

### base0fs: names

From `NoneIsNothing`, that no value has two roles; for the references also
`FiniteTasks` (they are counted), `RootExists` and `NamesBounds`.  The instance of
`base0_names` checked the invariants before they were proved.

*Inodes* (`Base0NamesProofs`).  `UpperKeepsLower` says nothing of an inode that a call
has got from `iget` and not yet stored, when it may or may not be linked to its lower
inode, nor why the inode cannot be evicted then.  `NamesInv` does:

- `DentryInv`: a dentry has its private data from `base0fs_lookup` to `d_release`; one
  that is being looked up belongs to that call alone; the dentries of a call stay, with
  their private data, until it returns.
- `InodeInv`: an inode that is linked is cached and has a reference; a cached one is
  linked or belongs to a call; a dentry has only a linked one; a call between `iget` and
  the store has a cached one, which is linked already if the call has found it so.

A slower lookup finds the inode unlinked, links it a second time and loses a reference;
`LowerInodesAreKept` shows that the loss is never of the kind that matters, whatever
number of lookups meet.

*References* (`Base0NamesProofs`).  `UpperInv` has what the VFS and base0fs keep of the upper
tree: a name has one dentry, a call has the directories of its dentries locked until it
returns, its dentries are positive or negative as its kind wants, and it has the lower
parents it will put.  With it each of `DentryRefs`, `MountRefs`, `ParentRefs` and
`InodeRefs` is kept; the lemmas before them (`HoldBegins`, `HoldEnds`, `ParentsBegin`, ...)
are about how a count of owners changes with one owner.  `ReferencesHaveOwners`.

*Trees* (the second half of `Base0NamesProofs`).  The invariant holds as long as nobody changes the lower
filesystem directly (`TreesInv`), but for `PositiveInv`, which always does: the lower dentry
of a positive name is positive, as `d_delete` takes an inode away only from a dentry
with one reference (`OneReferrer`).  `TreeInv` says

- `LowerDcache`: the lower dcache shows the lower directories;
- `Above`: a name is over the hashed lower dentry of the same name; a dentry that lost its
  name while positive is over one that lost its name.  So a lower dentry belongs to
  one name (`OwnPlace`), and what a call changes under its locks is nobody else's;
- `Agrees`: both dentries have the same inode, but for a call on its way from the lower
  operation to `base0fs_interpose`, or a file `base0fs_create` made in vain;
- `Single`: nothing else is that file.  Without this a rename could meet two names of one
  file that the VFS takes for different, return success and change nothing below
  (`RenameMoves`);
- `LowerOf`: the parents a call has taken are those of its dentries, and what a lookup
  or an operation has found below is still there.

There is one lemma for each operation that changes the lower tree (`LookKeepsTree`,
`MakeKeepsTree`, `RemoveKeepsTree`, `RenameKeepsTree`, `ShrinkKeepsTree`,
`InterposeKeepsTree`) and one for all that do not (`TreeStays`); `OthersLower` is what they
share about the calls of other tasks.  `NamesAreTrue`, `NoAssertionFails`.

### lofs: names

`LofsNamesProofs`, from `NameBounds` (there is a lower file, so that a behaviour may
start with one), `NameScenariosAreKnown`, `NoOneIsNoTask` and `TasksAreFinite`
(owners are counted).  Where a cache has a choice of dentries the model takes an
unspecified one (`Some`), and nothing in the proofs depends on which.  `NamesInv` has
three parts.

`RefsInv` always holds.  What `RefsBalance` counts does not say who may drop a
reference; for that the dentries of a call must still be what they were when the
reference was taken, and this is what its parts say:

- `CallOf`, the shape of a call: at which steps it has a new lofs dentry, a lower one
  it has found, lower parents, and which of two names it is about;
- `LocksOf`: an operation has the lofs directories of its names locked from the lookup
  to the return (a link only that of the new name), and a lookup its own;
- `UseOf`, `FreshOf`, `SoleOf`: a dentry in a call is not released; one that is looked up
  is negative, unhashed and that call's alone; in a locked directory the dentry a call
  has is the only one hashed under its name, so that no other task drops or moves it;
- `UpperDcache`, `LowerDcache`: a name has one hashed lofs dentry, with a lower one;
- `LowerRefs`, `MountRefs`: the references of a lower dentry are its pointers (`Pointers`),
  the lookups that have found it (`Finders`) and the operations that use it (`Users`).

`PlaceInv` is about behaviours in which nobody renames below: a lofs dentry is over a lower
one of the same name (`Placed`), but for the two of a rename that has changed the lower
names and not yet the upper ones (`Renamed`); so what an operation removes or moves is in
the directory it has locked (`PlaceOf`).  `ParentRefs`, the references on lower parents,
needs it for `lofs_rename`, which puts the parents its dentries have in the end; that
they are those it took is a matter of place.  The other operations put the parents they
remember, so that `ParentRefs` also holds where others rename below and lofs does not.

There is a lemma for each kind of step (`QuietStep` and the like for those that only
move a call on), and `OthersKeep` for what a step must leave alone for the calls of
other tasks to keep their part.  `ReferencesBalance`, `VictimsStayInPlace`.

`WalksAreTruthful` takes a second invariant, `WalksInv`, which holds besides `NamesInv`
where nobody renames below and no stale lower dentry resists invalidation.  That an
answer was true at some moment (`seen`) cannot be told from what the caches hold now: the
lofs dentry a walk has found may since have been renamed away, or lost its place to one
that was.  So `WalksInv` follows the answer back to where it comes from:

- `Coherent`: a hashed lower dentry says what the directory says, unless it is stale;
- `LowerSole`: a lower dentry that anything leads to shares its name with no other hashed
  one, so that a change of the directory is a change of that dentry;
- `Agreeing`: a positive lofs dentry has the inode of its lower dentry; a difference, on
  which `lofs_d_revalidate` drops it, means that a file was made below it;
- `UpperSteady`, `SteadyOf`: a negative lofs dentry is not over a negative lower dentry
  that has left the hash table, so that what is created there is seen to be;
- `InodeOf`: whether the dentries of an operation are positive, which is what the VFS has
  checked before and what the change below makes of them;
- `WalkOf`: for a walk, that its dentry is where it looks, was moved away with its file or
  has lost its place (`Around`); that revalidation either fails or is of something the
  directory held (`Promising`); that what is found, and what a `lofs_create` under way is
  about to store in it, is that (`Answering`); and so for the lower dentry of a lookup
  (`Finding`).

What a step of one task may do to the dentries of a walk of another is in `UpStep` (lofs
dentries), `InStep` (lower ones) and `HoldStep`; `OtherWalks` shows that this is enough,
and there is again one lemma for each kind of step.  `BelowWalks` is that of the users of
the lower filesystem, who change lower dentries only.

### Only model-checked

- Liveness (`LookupReturns`, `ShutdownCompletes`, `OperationsReturn`,
  `CallsReturnOrSleep`): the prover does not reason about fairness and ENABLED.
- The tools: their properties are about what a fold or a recursive function computes
  for every input, which takes induction over data.

## 5. Plan

1. `LofsMounts`: `lofs_follow_down` with its exchange of dentry and mount, composed
   with `LookupService`.

### Not modelled

- Attribute, permission and xattr pass-through of both filesystems: no state.
- base0fs's `mmap.c`: not among the objects of its Makefile; inodes get the address
  space operations of the lower filesystem.
- base0fs's mount: sequential, and a failure stops the kernel almost everywhere:
  `d_alloc` returns a null pointer where the code looks for an error pointer; a
  failure for the root's private data or in interposing leaves `s_root` dangling, and
  interposing puts the lower root and mount twice; a second `dir=` leaks the first; a
  failed lookup of `/proc` puts a path that was never set; `kill_sb` leaks the
  anonymous device.
- Debug output, feature tests at build time, the benchmark, the CGI, the report
  template and the completion script.
