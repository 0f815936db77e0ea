------------------------------ MODULE Base0File ------------------------------
(***************************************************************************)
(* base0fs: open files (base0fs/file.c).  An upper file owns a lower file    *)
(* of the same dentry and hands every call to it; the two keep a position    *)
(* and their inodes a size each.  All files are opens of one inode, bytes    *)
(* are abstracted to positions.                                             *)
(***************************************************************************)
EXTENDS Integers, FiniteSets

CONSTANTS
    Threads, Files,
    MaxSize,        \* bound: the size the file may grow to
    MaxFds,         \* bound: descriptors of a file
    MaxBadMaps      \* bound: mappings that the lower filesystem refuses

ASSUME FileBounds == MaxSize \in Nat \ {0} /\ MaxFds \in Nat \ {0} /\ MaxBadMaps \in Nat
ASSUME FileConstants == IsFiniteSet(Threads) /\ {"none", "size"} \cap Files = {}

VARIABLES
    append, isDir,  \* f_flags of each file; is the inode a directory?
    fds,            \* descriptors that refer to a file
    upperRefs,      \* f_count of the upper file, 0: released
    lowerRefs,      \* f_count of its lower file
    vmas,           \* mappings that were made through it
    upos, lpos,     \* f_pos of the two
    usize, lsize,   \* i_size of the two inodes
    fpc, call,      \* where a thread is, and its arguments
    badMaps,        \* ghost: refused mappings, which leave the counts wrong
    seqPos,         \* ghost: the position if all calls went to one file
    mixed           \* ghost: files, or the "size", that calls are changing at once
fileVars == <<append, isDir, fds, upperRefs, lowerRefs, vmas, upos, lpos,
              usize, lsize, fpc, call, badMaps, seqPos, mixed>>

Positions == 0..MaxSize
Kinds == {"none", "seek", "readdir", "read", "pread", "write", "pwrite"}
NoCall == [kind |-> "none", f |-> "none", pos |-> 0]

FileTypeOK ==
    /\ append \in [Files -> BOOLEAN] /\ isDir \in BOOLEAN
    /\ fds \in [Files -> 0..MaxFds] /\ vmas \in [Files -> 0..MaxFds]
    /\ upperRefs \in [Files -> Nat] /\ lowerRefs \in [Files -> Nat]
    /\ upos \in [Files -> Positions] /\ lpos \in [Files -> Positions]
    /\ seqPos \in [Files -> Positions]
    /\ usize \in Positions /\ lsize \in Positions
    /\ fpc \in [Threads -> {"idle", "lower", "seek", "grow"}]
    /\ \A t \in Threads : /\ call[t].kind \in Kinds /\ call[t].pos \in -1..MaxSize
                          /\ call[t].f \in Files \cup {"none"}
    /\ badMaps \in [Files -> 0..MaxBadMaps] /\ mixed \subseteq Files \cup {"size"}

FileInit ==
    /\ append \in [Files -> BOOLEAN] /\ isDir \in BOOLEAN
    /\ fds = [f \in Files |-> 0] /\ vmas = [f \in Files |-> 0]
    /\ upperRefs = [f \in Files |-> 0] /\ lowerRefs = [f \in Files |-> 0]
    /\ upos = [f \in Files |-> 0] /\ lpos = [f \in Files |-> 0]
    /\ seqPos = [f \in Files |-> 0]
    /\ lsize \in Positions /\ usize = lsize
    /\ fpc = [t \in Threads |-> "idle"] /\ call = [t \in Threads |-> NoCall]
    /\ badMaps = [f \in Files |-> 0] /\ mixed = {}

-----------------------------------------------------------------------------
(* References                                                               *)

countVars == <<append, isDir, fds, upperRefs, lowerRefs, vmas, badMaps>>
posVars == <<upos, lpos, usize, lsize, seqPos, mixed>>

\* Mutant: base0fs_release forgets the lower file.
ReleaseNothing(f) == UNCHANGED lowerRefs

\* base0fs_release: fput of the lower file.
Release(f) == lowerRefs' = [lowerRefs EXCEPT ![f] = @ - 1]

\* fput of the upper file; the last one releases it.  Nobody puts what a refused
\* mapping (below) has released too early: what happens then is undefined.
Fput(f) ==
    /\ upperRefs[f] > 0
    /\ upperRefs' = [upperRefs EXCEPT ![f] = @ - 1]
    /\ IF upperRefs[f] = 1 THEN Release(f) ELSE UNCHANGED lowerRefs

\* base0fs_open; a failure leaves nothing behind.  The file is new when nothing
\* refers to it any more.
Open(f) ==
    /\ upperRefs[f] = 0 /\ lowerRefs[f] = 0 /\ fds[f] = 0
    /\ upperRefs' = [upperRefs EXCEPT ![f] = 1]
    /\ lowerRefs' = [lowerRefs EXCEPT ![f] = 1]
    /\ fds' = [fds EXCEPT ![f] = 1]
    /\ upos' = [upos EXCEPT ![f] = 0] /\ lpos' = [lpos EXCEPT ![f] = 0]
    /\ seqPos' = [seqPos EXCEPT ![f] = 0] /\ mixed' = mixed \ {f}
    /\ UNCHANGED <<append, isDir, vmas, usize, lsize, fpc, call, badMaps>>

Dup(f) ==
    /\ fds[f] \in 1..MaxFds - 1 /\ upperRefs[f] > 0
    /\ fds' = [fds EXCEPT ![f] = @ + 1]
    /\ upperRefs' = [upperRefs EXCEPT ![f] = @ + 1]
    /\ UNCHANGED <<append, isDir, lowerRefs, vmas, badMaps, posVars, fpc, call>>

\* base0fs_flush on the way has no state of its own.
Close(f) ==
    /\ fds[f] > 0
    /\ fds' = [fds EXCEPT ![f] = @ - 1]
    /\ Fput(f)
    /\ UNCHANGED <<append, isDir, vmas, badMaps, posVars, fpc, call>>

\* base0fs_mmap: the mapping is handed to the lower file.
Mmap(f) ==
    /\ fds[f] > 0 /\ upperRefs[f] > 0 /\ vmas[f] < MaxFds /\ ~isDir
    /\ vmas' = [vmas EXCEPT ![f] = @ + 1]
    /\ lowerRefs' = [lowerRefs EXCEPT ![f] = @ + 1]
    /\ UNCHANGED <<append, isDir, fds, upperRefs, badMaps, posVars, fpc, call>>

\* The lower filesystem refuses, and yet the reference is moved; the VFS drops
\* the one it believes to be the mapping's, of the upper file.
MmapFails(f) ==
    /\ fds[f] > 0 /\ upperRefs[f] > 1 /\ badMaps[f] < MaxBadMaps /\ ~isDir
    /\ lowerRefs' = [lowerRefs EXCEPT ![f] = @ + 1]
    /\ upperRefs' = [upperRefs EXCEPT ![f] = @ - 1]
    /\ badMaps' = [badMaps EXCEPT ![f] = @ + 1]
    /\ UNCHANGED <<append, isDir, fds, vmas, posVars, fpc, call>>

Munmap(f) ==
    /\ vmas[f] > 0
    /\ vmas' = [vmas EXCEPT ![f] = @ - 1]
    /\ lowerRefs' = [lowerRefs EXCEPT ![f] = @ - 1]
    /\ UNCHANGED <<append, isDir, fds, upperRefs, badMaps, posVars, fpc, call>>

-----------------------------------------------------------------------------
(* Positions and sizes                                                      *)

Busy(f) == {t \in Threads : call[t].f = f}

\* A thread calls with a position of its own (pos), or with the file's (sys_read
\* reads f_pos and writes it back afterwards).
Start(t, kind, f, pos, pc) ==
    /\ fpc[t] = "idle"
    /\ fds[f] > 0 /\ upperRefs[f] > 0
    /\ upperRefs' = [upperRefs EXCEPT ![f] = @ + 1]
    /\ fpc' = [fpc EXCEPT ![t] = pc]
    /\ call' = [call EXCEPT ![t] = [kind |-> kind, f |-> f, pos |-> pos]]
    /\ IF Busy(f) # {} THEN mixed' = mixed \cup {f} /\ seqPos' = [seqPos EXCEPT ![f] = 0]
                       ELSE UNCHANGED <<mixed, seqPos>>
    /\ UNCHANGED <<append, isDir, fds, lowerRefs, vmas, badMaps, usize, lsize, upos>>

\* seqPos follows a call that is alone, and the file when others are done with it.
Track(t, to, spoils) ==
    LET f == call[t].f
        last == Busy(f) = {t}
    IN IF f \in mixed \/ spoils
       THEN /\ mixed' = IF last THEN mixed \ {f} ELSE mixed \cup {f}
            /\ seqPos' = [seqPos EXCEPT ![f] = IF last THEN upos'[f] ELSE 0]
       ELSE mixed' = mixed /\ seqPos' = [seqPos EXCEPT ![f] = to]

Return(t) ==
    /\ fpc' = [fpc EXCEPT ![t] = "idle"] /\ call' = [call EXCEPT ![t] = NoCall]
    /\ Fput(call[t].f)
    /\ UNCHANGED <<append, isDir, fds, vmas, badMaps>>

\* Mutant: the lower position is not brought up to date.
SyncNothing(f) == UNCHANGED lpos

\* lower_file->f_pos = file->f_pos
Sync(f) == lpos' = [lpos EXCEPT ![f] = upos[f]]

\* base0fs_llseek and base0fs_readdir; pos says how far to go.
StartSeek(t, f, off) == ~isDir /\ Start(t, "seek", f, off, "seek") /\ Sync(f)
StartReaddir(t, f, n) == isDir /\ Start(t, "readdir", f, n, "seek") /\ Sync(f)

\* The lower file moves on, relatively to where it is, and the upper one follows.
Seek(t) ==
    LET f == call[t].f
        there(pos) == pos + call[t].pos
    IN /\ fpc[t] = "seek"
       /\ there(lpos[f]) \in Positions
       /\ lpos' = [lpos EXCEPT ![f] = there(@)]
       /\ upos' = [upos EXCEPT ![f] = there(lpos[f])]
       /\ Track(t, there(seqPos[f]), FALSE)
       /\ Return(t)
       /\ UNCHANGED <<usize, lsize>>

\* The lower filesystem refuses (EINVAL), or finds no more names.
SeekFails(t) ==
    /\ fpc[t] = "seek"
    /\ UNCHANGED <<upos, lpos, usize, lsize>>
    /\ Track(t, seqPos[call[t].f], FALSE)
    /\ Return(t)

StartRead(t, f) == ~isDir /\ Start(t, "read", f, upos[f], "lower") /\ UNCHANGED lpos
StartPread(t, f, pos) == ~isDir /\ Start(t, "pread", f, pos, "lower") /\ UNCHANGED lpos

\* base0fs_write: an append begins at the size that the upper inode shows.
StartWrite(t, f) ==
    ~isDir /\ Start(t, "write", f, IF append[f] THEN usize ELSE upos[f], "lower") /\ UNCHANGED lpos
StartPwrite(t, f, pos) ==
    ~isDir /\ Start(t, "pwrite", f, IF append[f] THEN usize ELSE pos, "lower") /\ UNCHANGED lpos

\* lower_file->f_pos = *ppos = pos, and sys_read or sys_write keeps *ppos.
Moved(t, pos) ==
    LET f == call[t].f
        own == call[t].kind \in {"read", "write"}
    IN /\ lpos' = [lpos EXCEPT ![f] = pos]
       /\ upos' = IF own THEN [upos EXCEPT ![f] = pos] ELSE upos

\* The same for the reference, which begins where seqPos says, or at the end.
SeqFrom(t, after(_)) ==
    LET pos == seqPos[call[t].f] IN IF call[t].kind \in {"read", "write"} THEN after(pos) ELSE pos

Least(a, b) == IF a < b THEN a ELSE b
Most(a, b) == IF a > b THEN a ELSE b

\* base0fs_read: one position further, if there is anything to read.
Read(t) ==
    LET after(pos) == IF pos < lsize THEN pos + 1 ELSE pos IN
    /\ fpc[t] = "lower" /\ call[t].kind \in {"read", "pread"}
    /\ Moved(t, after(call[t].pos))
    /\ Track(t, SeqFrom(t, after), FALSE)
    /\ Return(t)
    /\ UNCHANGED <<usize, lsize>>

\* Where the lower file, opened with the same flags, writes.
LowerStart(t) == IF append[call[t].f] THEN lsize ELSE call[t].pos

\* Mutant: the upper size is set without a look at it.
GrowsAlways(end) == TRUE

\* pos > i_size_read(inode)
Grows(end) == end > usize

\* base0fs_write up to the test of the upper size.
Write(t) ==
    LET f == call[t].f
        end == LowerStart(t) + 1
        after(pos) == Least((IF append[f] THEN lsize ELSE pos) + 1, MaxSize)
    IN /\ fpc[t] = "lower" /\ call[t].kind \in {"write", "pwrite"}
       /\ end <= MaxSize
       /\ lsize' = Most(lsize, end)
       /\ Moved(t, end)
       /\ IF Grows(end)
          THEN /\ fpc' = [fpc EXCEPT ![t] = "grow"]
               /\ call' = [call EXCEPT ![t].pos = end]
               /\ mixed' = mixed \cup
                    IF \E u \in Threads \ {t} : fpc[u] = "grow" THEN {"size"} ELSE {}
               /\ seqPos' = IF f \in mixed THEN seqPos ELSE [seqPos EXCEPT ![f] = SeqFrom(t, after)]
               /\ UNCHANGED countVars
          ELSE Track(t, SeqFrom(t, after), FALSE) /\ Return(t)
       /\ UNCHANGED usize

\* A write through a file that is not among Files, in one step.
AnotherWrites(end) ==
    /\ ~isDir /\ end \in 1..Least(lsize + 1, MaxSize)
    /\ lsize' = Most(lsize, end) /\ usize' = Most(usize, end)
    /\ mixed' = mixed \cup (IF \E t \in Threads : fpc[t] = "grow" THEN {"size"} ELSE {})
    /\ UNCHANGED <<countVars, fpc, call, upos, lpos, seqPos>>

\* The lower write fails: an append has moved the position all the same.
WriteFails(t) ==
    /\ fpc[t] = "lower" /\ call[t].kind \in {"write", "pwrite"}
    /\ Moved(t, call[t].pos)
    /\ Track(t, seqPos[call[t].f], append[call[t].f])
    /\ Return(t)
    /\ UNCHANGED <<usize, lsize>>

\* i_size_write(inode, pos)
Grow(t) ==
    /\ fpc[t] = "grow"
    /\ usize' = call[t].pos
    /\ UNCHANGED <<upos, lpos, lsize>>
    /\ Track(t, seqPos[call[t].f], FALSE)
    /\ Return(t)

-----------------------------------------------------------------------------

FileNext ==
    \/ \E f \in Files : Open(f) \/ Dup(f) \/ Close(f) \/ Mmap(f) \/ MmapFails(f) \/ Munmap(f)
    \/ \E t \in Threads, f \in Files :
          \/ StartRead(t, f) \/ StartWrite(t, f)
          \/ \E pos \in Positions : StartPread(t, f, pos) \/ StartPwrite(t, f, pos)
          \/ \E off \in -1..1 : StartSeek(t, f, off)
          \/ StartReaddir(t, f, 1)
    \/ \E end \in Positions : AnotherWrites(end)
    \/ \E t \in Threads :
          Seek(t) \/ SeekFails(t) \/ Read(t) \/ Write(t) \/ WriteFails(t) \/ Grow(t)

FileSpec == FileInit /\ [][FileNext]_fileVars

-----------------------------------------------------------------------------
(* What correctness means                                                   *)

\* The lower file lives as long as the upper file or a mapping made through it,
\* and no longer; the upper file as long as a descriptor or a call, mappings not
\* counted (base0fs_open, base0fs_release, the exchange of references in
\* base0fs_mmap).  A refused mapping is the exception, which badMaps counts.
FileRefsBalance ==
    /\ FileTypeOK
    /\ \A f \in Files :
        /\ lowerRefs[f] = (IF upperRefs[f] > 0 THEN 1 ELSE 0) + vmas[f] + badMaps[f]
        /\ upperRefs[f] + badMaps[f] = fds[f] + Cardinality(Busy(f))

\* A program whose calls come one at a time cannot tell the two positions from
\* one: whatever preads and pwrites went to the lower file in between, reads,
\* writes, seeks and listings go on where the last of them stopped (the "MAJOR
\* HACK" of base0fs_read and base0fs_write, the copies in base0fs_llseek).  Calls
\* that overlap are left out (a pread between the two lines of a seek moves the
\* file), and so is an append that fails, which moves it to the end.
PositionsTrue == \A f \in Files : Busy(f) = {} => upos[f] = seqPos[f]

\* Between writes the upper inode shows the size of the lower one, also when an
\* append found the file longer than base0fs knew (base0fs_write).  Left out by
\* mixed: writers that store the size at once.
SizesTrue ==
    "size" \notin mixed /\ (\A t \in Threads : fpc[t] # "grow") => usize = lsize
=============================================================================
