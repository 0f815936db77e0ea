------------------------- MODULE LofsPersistentFile -------------------------
(***************************************************************************)
(* The one lower file that lofs keeps open for each lofs inode              *)
(* (lofs/main.c: lofs_privileged_open, lofs_init_persistent_file), the lofs *)
(* files that use it (lofs/file.c: lofs_open ... lofs_release), the page     *)
(* I/O that goes through it (lofs/read_write.c) and the inode that owns it   *)
(* (lofs/super.c).  One inode is modelled.                                   *)
(*                                                                           *)
(* Each element of Files is a struct file slot that a task opens, uses and   *)
(* closes, again and again.  Steps are cut at lower_file_mutex and at the    *)
(* stores to lower_file, which lofs_open reads after it released the mutex.  *)
(***************************************************************************)
EXTENDS Integers, FiniteSets

CONSTANTS
    Files,          \* lofs struct files on the inode
    Handles,        \* lower struct files
    NoFile,         \* nobody holds the mutex
    NoHandle,       \* a null struct file *
    LowerSeekable   \* FALSE: the lower filesystem opens with nonseekable_open

ASSUME NullsAreNull == NoFile \notin Files /\ NoHandle \notin Handles
ASSUME LowerSeekableIsBoolean == LowerSeekable \in BOOLEAN
ASSUME SlotsAreFinite == IsFiniteSet(Files) /\ IsFiniteSet(Handles)
\* One handle for the inode, one being opened, one for each stale pointer.
ASSUME EnoughHandles == Cardinality(Handles) >= Cardinality(Files) + 2

VARIABLES
    fpc,            \* fpc[f]: where the slot is in lofs_open, I/O or close
    mode,           \* mode[f]: file->f_mode
    wfi,            \* wfi[f]: lofs_file_info.wfi_file
    tmp,            \* tmp[f]: the opener's tmp
    lower,          \* inode_info->lower_file
    mutex,          \* holder of inode_info->lower_file_mutex
    isOpen,         \* isOpen[h]: the lower struct file is allocated and open
    hmode,          \* hmode[h]: its f_mode
    pathRefs,       \* references lofs took on the lower dentry and mount to open
    dirty           \* the inode has pages dirtied through a mapping

vars == <<fpc, mode, wfi, tmp, lower, mutex, isOpen, hmode, pathRefs, dirty>>

\* FMODE_READ, FMODE_WRITE, and FMODE_LSEEK with FMODE_PREAD and FMODE_PWRITE.
Bits == {"R", "W", "SEEK"}
\* What the VFS has in file->f_mode when it calls lofs_open.
OpenModes == {{"R", "SEEK"}, {"W", "SEEK"}, {"R", "W", "SEEK"}}

Pcs == {"closed", "lock", "check", "opening", "failed", "swap", "clear", "assign",
        "unlock", "read_lower", "open", "io_lock", "io", "flush"}
InMutex == {"check", "opening", "failed", "swap", "clear", "assign", "unlock", "io"}

TypeOK ==
    /\ fpc \in [Files -> Pcs]
    /\ mode \in [Files -> SUBSET Bits]
    /\ wfi \in [Files -> Handles \cup {NoHandle}]
    /\ tmp \in [Files -> Handles \cup {NoHandle}]
    /\ lower \in Handles \cup {NoHandle}
    /\ mutex \in Files \cup {NoFile}
    /\ isOpen \in [Handles -> BOOLEAN]
    /\ hmode \in [Handles -> SUBSET Bits]
    /\ pathRefs \in Nat
    /\ dirty \in BOOLEAN

\* lofs_alloc_inode
Init ==
    /\ fpc = [f \in Files |-> "closed"]
    /\ mode = [f \in Files |-> {}]
    /\ wfi = [f \in Files |-> NoHandle]
    /\ tmp = [f \in Files |-> NoHandle]
    /\ lower = NoHandle
    /\ mutex = NoFile
    /\ isOpen = [h \in Handles |-> FALSE]
    /\ hmode = [h \in Handles |-> {}]
    /\ pathRefs = 0
    /\ dirty = FALSE

At(f, here, there) == fpc[f] = here /\ fpc' = [fpc EXCEPT ![f] = there]
Lock(f) == mutex = NoFile /\ mutex' = f
Unlock == mutex' = NoFile

-----------------------------------------------------------------------------
(* lofs_open.  If file_info cannot be allocated it returns at once, having   *)
(* changed nothing.                                                          *)

Open(f, m) ==
    /\ At(f, "closed", "lock")
    /\ mode' = [mode EXCEPT ![f] = m]
    /\ UNCHANGED <<wfi, tmp, lower, mutex, isOpen, hmode, pathRefs, dirty>>

LockToOpen(f) ==
    /\ At(f, "lock", "check")
    /\ Lock(f)
    /\ UNCHANGED <<mode, wfi, tmp, lower, isOpen, hmode, pathRefs, dirty>>

\* Mutant: the handle is replaced whenever its mode is another one.
SameMode(f) == lower # NoHandle /\ mode[f] = hmode[lower]

Sufficient(f) == lower # NoHandle /\ mode[f] \subseteq hmode[lower]

KeepLower(f) ==
    /\ At(f, "check", "unlock")
    /\ Sufficient(f)
    /\ UNCHANGED <<mode, wfi, tmp, lower, mutex, isOpen, hmode, pathRefs, dirty>>

\* lofs_privileged_open takes the references that the new file will own ...
TakePath(f) ==
    /\ At(f, "check", "opening")
    /\ ~Sufficient(f)
    /\ pathRefs' = pathRefs + 1
    /\ UNCHANGED <<mode, wfi, tmp, lower, mutex, isOpen, hmode, dirty>>

\* A struct file is not given out again while somebody still points to it.
Unreferenced(h) ==
    /\ ~isOpen[h]
    /\ h # lower
    /\ \A f \in Files : h \notin {wfi[f], tmp[f]}

\* The mode the lower file gets: read/write if writing was asked for.
OpenedMode(m) ==
    (IF "W" \in m THEN {"R", "W"} ELSE {"R"}) \cup (IF LowerSeekable THEN {"SEEK"} ELSE {})

\* ... and dentry_open opens it,
OpenLower(f) ==
    /\ At(f, "opening", "swap")
    /\ \E h \in Handles :
          /\ Unreferenced(h)
          /\ tmp' = [tmp EXCEPT ![f] = h]
          /\ isOpen' = [isOpen EXCEPT ![h] = TRUE]
          /\ hmode' = [hmode EXCEPT ![h] = OpenedMode(mode[f])]
    /\ UNCHANGED <<mode, wfi, lower, mutex, pathRefs, dirty>>

\* Mutant: nobody drops them.
OpenLowerFailsLeaks(f) ==
    /\ At(f, "opening", "failed")
    /\ UNCHANGED <<mode, wfi, tmp, lower, mutex, isOpen, hmode, pathRefs, dirty>>

\* or fails, and has then dropped the references itself (EC-9392).
OpenLowerFails(f) ==
    /\ At(f, "opening", "failed")
    /\ pathRefs' = pathRefs - 1
    /\ UNCHANGED <<mode, wfi, tmp, lower, mutex, isOpen, hmode, dirty>>

OpenFails(f) ==
    /\ At(f, "failed", "closed")
    /\ Unlock
    /\ UNCHANGED <<mode, wfi, tmp, lower, isOpen, hmode, pathRefs, dirty>>

\* fput of the last reference closes the file and drops its path.
Fput(h) ==
    /\ isOpen' = [isOpen EXCEPT ![h] = FALSE]
    /\ pathRefs' = pathRefs - 1

\* Mutant: the old lower file is replaced and never closed.
ForgetOldLower(f) ==
    /\ At(f, "swap", IF lower = NoHandle THEN "assign" ELSE "clear")
    /\ UNCHANGED <<mode, wfi, tmp, lower, mutex, isOpen, hmode, pathRefs, dirty>>

DropOldLower(f) ==
    /\ \/ /\ lower # NoHandle
          /\ At(f, "swap", "clear")
          /\ Fput(lower)
       \/ /\ lower = NoHandle
          /\ At(f, "swap", "assign")
          /\ UNCHANGED <<isOpen, pathRefs>>
    /\ UNCHANGED <<mode, wfi, tmp, lower, mutex, hmode, dirty>>

ClearLower(f) ==
    /\ At(f, "clear", "assign")
    /\ lower' = NoHandle
    /\ UNCHANGED <<mode, wfi, tmp, mutex, isOpen, hmode, pathRefs, dirty>>

AssignLower(f) ==
    /\ At(f, "assign", "unlock")
    /\ lower' = tmp[f]
    /\ tmp' = [tmp EXCEPT ![f] = NoHandle]
    /\ UNCHANGED <<mode, wfi, mutex, isOpen, hmode, pathRefs, dirty>>

UnlockAfterOpen(f) ==
    /\ At(f, "unlock", "read_lower")
    /\ Unlock
    /\ UNCHANGED <<mode, wfi, tmp, lower, isOpen, hmode, pathRefs, dirty>>

\* lofs_set_file_lower, with no lock and no reference.
SetFileLower(f) ==
    /\ At(f, "read_lower", "open")
    /\ wfi' = [wfi EXCEPT ![f] = lower]
    /\ UNCHANGED <<mode, tmp, lower, mutex, isOpen, hmode, pathRefs, dirty>>

-----------------------------------------------------------------------------
(* Use of an open file.  lofs_flush, lofs_readdir, lofs_fsync, lofs_fasync   *)
(* and the ioctls go straight to wfi_file and change no state here; reads    *)
(* and writes of pages go through the inode's lower_file under the mutex.    *)

StartIo(f) ==
    /\ At(f, "open", "io_lock")
    /\ UNCHANGED <<mode, wfi, tmp, lower, mutex, isOpen, hmode, pathRefs, dirty>>

\* Mutant: page I/O does not take lower_file_mutex.
IoUnlocked(f) ==
    /\ At(f, "io_lock", "io")
    /\ UNCHANGED <<mode, wfi, tmp, lower, mutex, isOpen, hmode, pathRefs, dirty>>

LockForIo(f) ==
    /\ At(f, "io_lock", "io")
    /\ Lock(f)
    /\ UNCHANGED <<mode, wfi, tmp, lower, isOpen, hmode, pathRefs, dirty>>

\* lofs_read_lower_page and lofs_write_lower: the transfer and the unlock.
Io(f) ==
    /\ At(f, "io", "open")
    /\ Unlock
    /\ UNCHANGED <<mode, wfi, tmp, lower, isOpen, hmode, pathRefs, dirty>>

\* A store through a shared mapping of a file open for reading and writing.
MmapStore(f) ==
    /\ fpc[f] = "open"
    /\ {"R", "W"} \subseteq mode[f]
    /\ dirty' = TRUE
    /\ UNCHANGED <<fpc, mode, wfi, tmp, lower, mutex, isOpen, hmode, pathRefs>>

\* Writeback of the dirty pages, which may outlive the file: lofs_write_lower
\* in a task of the kernel's own.
Writeback ==
    /\ dirty
    /\ mutex = NoFile
    /\ dirty' = FALSE
    /\ UNCHANGED <<fpc, mode, wfi, tmp, lower, mutex, isOpen, hmode, pathRefs>>

\* The last close: lofs_flush, then lofs_release frees file_info.
Close(f) ==
    /\ At(f, "open", "flush")
    /\ UNCHANGED <<mode, wfi, tmp, lower, mutex, isOpen, hmode, pathRefs, dirty>>

Release(f) ==
    /\ At(f, "flush", "closed")
    /\ wfi' = [wfi EXCEPT ![f] = NoHandle]
    /\ mode' = [mode EXCEPT ![f] = {}]
    /\ UNCHANGED <<tmp, lower, mutex, isOpen, hmode, pathRefs, dirty>>

\* lofs_clear_inode and lofs_destroy_inode, once nothing uses the inode, and a
\* new inode for the file from lofs_alloc_inode.
DestroyInode ==
    /\ \A f \in Files : fpc[f] = "closed"
    /\ lower # NoHandle
    /\ Fput(lower)
    /\ lower' = NoHandle
    /\ dirty' = FALSE
    /\ UNCHANGED <<fpc, mode, wfi, tmp, mutex, hmode>>

-----------------------------------------------------------------------------
OpenStep(f) ==
    \/ LockToOpen(f) \/ KeepLower(f) \/ TakePath(f) \/ OpenLower(f)
    \/ OpenLowerFails(f) \/ OpenFails(f) \/ DropOldLower(f) \/ ClearLower(f)
    \/ AssignLower(f) \/ UnlockAfterOpen(f) \/ SetFileLower(f)

UseStep(f) ==
    \/ StartIo(f) \/ LockForIo(f) \/ Io(f) \/ MmapStore(f) \/ Close(f) \/ Release(f)

Next ==
    \/ \E f \in Files : (\E m \in OpenModes : Open(f, m)) \/ OpenStep(f) \/ UseStep(f)
    \/ Writeback
    \/ DestroyInode

Spec == Init /\ [][Next]_vars

-----------------------------------------------------------------------------
(* Properties                                                               *)

\* The handle is open and lets the holder do what it was opened for.
Usable(h, bits) == h # NoHandle /\ isOpen[h] /\ bits \subseteq hmode[h]

\* Page I/O finds a lower file that is there (the BUG_ONs of read_write.c) and
\* allows it: a reader may read and a writer may both read (write_begin fills
\* the page first) and write, whatever was opened and closed since.
IoFindsHandle ==
    \A f \in Files :
        fpc[f] = "io" => Usable(lower, {"R"} \cup (mode[f] \cap {"W"}))

\* Pages dirtied through a mapping can be written at any time, also after the
\* file that was mapped is closed and others were opened.
WritebackFindsHandle ==
    dirty /\ mutex = NoFile => Usable(lower, {"R", "W"})

\* The path references are those of the open lower files, plus the ones taken
\* by an open in progress: a failed open neither leaks nor drops one too many.
PathRefsBalance ==
    /\ TypeOK
    /\ pathRefs = Cardinality({h \in Handles : isOpen[h]})
                    + Cardinality({f \in Files : fpc[f] = "opening"})

\* "lofs only ever keeps a single open file for every lower inode": an open
\* lower file is the inode's, or the one that is about to become it.
SingleLowerFile ==
    \A h \in Handles :
        isOpen[h] => h = lower \/ \E f \in Files : tmp[f] = h /\ mutex = f

\* "The read/write handle will never be demoted to a read-only handle!": a
\* lower file open for writing is closed only together with the inode, or to
\* be replaced by another one that is open for writing.
NeverDemoted ==
    [][ \A h \in Handles :
          isOpen[h] /\ ~isOpen'[h] /\ "W" \in hmode[h]
            => mutex = NoFile \/ "W" \in hmode[tmp[mutex]] ]_vars

\* "we don't pull the rug out from underneath existing users of the file that
\* don't need the new permissions": an open lofs file refers to a lower file
\* that is open.
UsersKeepTheirHandle ==
    \A f \in Files : fpc[f] \in {"open", "flush"} => Usable(wfi[f], {})
=============================================================================
