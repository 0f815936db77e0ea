-------------------------- MODULE Base0FilesProofs --------------------------
(***************************************************************************)
(* Theorems about base0fs's record locks and open files, for any processes,  *)
(* threads, files and bounds.                                                *)
(***************************************************************************)
EXTENDS Base0File, Base0Locks, FiniteSetTheorems, TLAPS

-----------------------------------------------------------------------------
(* Record locks: between the two locks of a call the lower one is what the    *)
(* call wants, otherwise the two are the same.                               *)

LevelsAgree ==
    \A p \in Procs :
        /\ lpc[p] \in {"idle", "lower"} /\ p \notin rolledBack =>
              locks["lower"][p] = locks["upper"][p]
        /\ lpc[p] = "upper" => locks["lower"][p] = want[p]

\* No lock of a file excludes another one of the same file.
Compatible ==
    \A v \in Levels, o, q \in Owners :
        o # q /\ locks[v][o] = "write" => locks[v][q] = "none"

LInv == LocksTypeOK /\ LevelsAgree /\ Compatible

\* Whatever lock a process believes to have between its calls, nobody who works
\* on the lower file has one that excludes it (base0fs_setlk's lower lock).
UpperLocksExclude ==
    \A p \in Procs :
        lpc[p] = "idle" /\ p \notin rolledBack =>
            /\ locks["upper"][p] = "write" => locks["lower"][Outsider] = "none"
            /\ locks["upper"][p] = "read" => locks["lower"][Outsider] # "write"

LEMMA LocksInitInv == LocksInit => LInv
BY OutsiderIsAnother DEF LocksInit, LInv, LocksTypeOK, LevelsAgree, Compatible, Levels, Modes,
                         Owners, Commands

\* Setting the lock of one owner at one level, if nothing there excludes it.
LEMMA SetLockEffect ==
  ASSUME LocksTypeOK, NEW v \in Levels, NEW o \in Owners, NEW m \in Modes, SetLock(v, o, m)
  PROVE  /\ locks' \in [Levels -> [Owners -> Modes]]
         /\ fl_next' \in [Procs -> {<<>>} \cup (Levels \X Owners)]
         /\ \A w \in Levels, q \in Owners :
               locks'[w][q] = IF w = v /\ q = o THEN m ELSE locks[w][q]
BY DEF LocksTypeOK, SetLock

LEMMA SetLockCompatible ==
  ASSUME LInv, NEW v \in Levels, NEW o \in Owners, NEW m \in Modes,
         m = "none" \/ Blockers(v, o, m) = {}, SetLock(v, o, m)
  PROVE  Compatible'
<1>1. \A q \in Owners \ {o} : (m = "write" => locks[v][q] = "none") /\ (m # "none" => locks[v][q] # "write")
  BY DEF Blockers, LInv, LocksTypeOK, Modes
<1>2. \A w \in Levels, q \in Owners : locks'[w][q] = IF w = v /\ q = o THEN m ELSE locks[w][q]
  BY SetLockEffect DEF LInv
<1>3. \A w \in Levels, q \in Owners : locks[w][q] \in Modes
  BY DEF LInv, LocksTypeOK
<1> QED
  BY <1>1, <1>2, <1>3 DEF Compatible, LInv, Modes

LEMMA LocksNextInv == LInv /\ [LocksNext]_lockingVars => LInv'
<1> SUFFICES ASSUME LInv, [LocksNext]_lockingVars PROVE LInv'
  OBVIOUS
<1> USE OutsiderIsAnother DEF LInv, LocksTypeOK, LevelsAgree, Levels, Owners, Commands
<1>1. CASE UNCHANGED lockingVars
  BY <1>1 DEF lockingVars, Compatible
<1>2. ASSUME NEW p \in Procs, NEW c \in Commands, NEW m \in Modes, Setlk(p, c, m) PROVE LInv'
  BY <1>2 DEF Setlk, Compatible
<1>3. ASSUME NEW p \in Procs, NEW v \in Levels, PosixLock(p, v) PROVE LInv'
  <2>1. SetLock(v, p, want[p]) /\ Blockers(v, p, want[p]) = {} /\ want[p] \in Modes /\ p \in Owners
    BY <1>3 DEF PosixLock, LevelOf
  <2>2. Compatible'
    BY <2>1, SetLockCompatible
  <2>3. \A w \in Levels, q \in Owners : locks'[w][q] = IF w = v /\ q = p THEN want[p] ELSE locks[w][q]
    BY <2>1, SetLockEffect
  <2>4. LocksTypeOK'
    BY <1>3, <2>1, SetLockEffect DEF PosixLock
  <2>5. LevelsAgree'
    BY <1>3, <2>3 DEF PosixLock
  <2> QED
    BY <2>2, <2>4, <2>5
<1>4. ASSUME NEW p \in Procs, NEW v \in Levels, ConflictFails(p, v) PROVE LInv'
  BY <1>4 DEF ConflictFails, Fail, Compatible
<1>5. ASSUME NEW p \in Procs, NEW v \in Levels, ConflictSleeps(p, v) PROVE LInv'
  BY <1>5 DEF ConflictSleeps, Blockers, Compatible
<1>6. ASSUME NEW p \in Procs, Rollback(p) PROVE LInv'
  <2>1. SetLock("lower", p, "none") /\ "none" \in Modes /\ p \in Owners /\ "lower" \in Levels
    BY <1>6 DEF Rollback, Modes
  <2>2. Compatible'
    BY <2>1, SetLockCompatible
  <2>3. \A w \in Levels, q \in Owners :
            locks'[w][q] = IF w = "lower" /\ q = p THEN "none" ELSE locks[w][q]
    BY <2>1, SetLockEffect
  <2>4. LocksTypeOK'
    BY <1>6, <2>1, SetLockEffect DEF Rollback
  <2>5. LevelsAgree'
    BY <1>6, <2>3 DEF Rollback
  <2> QED
    BY <2>2, <2>4, <2>5
<1>7. ASSUME NEW p \in Procs, NEW v \in Levels, Interrupted(p, v) PROVE LInv'
  BY <1>7 DEF Interrupted, Fail, Compatible
<1>8. ASSUME NEW m \in Modes, OutsiderLocks(m) PROVE LInv'
  <2>1. SetLock("lower", Outsider, m) /\ Blockers("lower", Outsider, m) = {}
    BY <1>8 DEF OutsiderLocks
  <2>2. Compatible'
    BY <2>1, SetLockCompatible
  <2>3. \A w \in Levels, q \in Owners :
            locks'[w][q] = IF w = "lower" /\ q = Outsider THEN m ELSE locks[w][q]
    BY <2>1, SetLockEffect
  <2>4. LocksTypeOK'
    BY <1>8, <2>1, SetLockEffect DEF OutsiderLocks
  <2>5. LevelsAgree'
    BY <1>8, <2>3 DEF OutsiderLocks
  <2> QED
    BY <2>2, <2>4, <2>5
<1> QED
  BY <1>1, <1>2, <1>3, <1>4, <1>5, <1>6, <1>7, <1>8 DEF LocksNext, SetlkStep

LEMMA LocksAlways == LocksSpec => []LInv
BY LocksInitInv, LocksNextInv, PTL DEF LocksSpec

\* The lock of a process on the upper file is its lock on the lower one between
\* its calls, unless a failed call cost it the latter (base0fs_setlk).
THEOREM LocksAreBacked == LocksSpec => []LocksBacked
<1>1. LInv => LocksBacked
  BY DEF LInv, LocksBacked, LevelsAgree
<1> QED
  BY <1>1, LocksAlways, PTL

\* And so it is proof against those who do not go through base0fs.
THEOREM LocksExclude == LocksSpec => []UpperLocksExclude
<1>1. LInv => UpperLocksExclude
  BY OutsiderIsAnother DEF LInv, UpperLocksExclude, LevelsAgree, Compatible, LocksTypeOK, Levels, Owners, Modes
<1> QED
  BY <1>1, LocksAlways, PTL

-----------------------------------------------------------------------------
(* Open files: who is in a call has a reference, and a file that no call is    *)
(* changing while another one does has its position where the calls left it.   *)

Calls == [kind : Kinds, f : Files \cup {"none"}, pos : -1..MaxSize]

CallsInv ==
    /\ call \in [Threads -> Calls]
    /\ \A t \in Threads :
        /\ fpc[t] = "idle" => call[t].f = "none"
        /\ fpc[t] # "idle" => call[t].f \in Files
        /\ fpc[t] \in {"lower", "grow"} => call[t].pos \in Positions
        /\ fpc[t] = "lower" => call[t].kind \in {"read", "pread", "write", "pwrite"}
        /\ fpc[t] = "seek" => call[t].kind \in {"seek", "readdir"}

Balanced(f) ==
    /\ lowerRefs[f] = (IF upperRefs[f] > 0 THEN 1 ELSE 0) + vmas[f] + badMaps[f]
    /\ upperRefs[f] + badMaps[f] = fds[f] + Cardinality(Busy(f))

\* The part of the invariant that is about references.
Counted ==
    /\ fds \in [Files -> 0..MaxFds] /\ vmas \in [Files -> 0..MaxFds]
    /\ upperRefs \in [Files -> Nat] /\ lowerRefs \in [Files -> Nat]
    /\ badMaps \in [Files -> 0..MaxBadMaps]
    /\ \A f \in Files : Balanced(f)

\* The part that is about everything else.
Placed ==
    /\ append \in [Files -> BOOLEAN] /\ isDir \in BOOLEAN
    /\ upos \in [Files -> Positions] /\ lpos \in [Files -> Positions]
    /\ seqPos \in [Files -> Positions]
    /\ usize \in Positions /\ lsize \in Positions
    /\ fpc \in [Threads -> {"idle", "lower", "seek", "grow"}]
    /\ mixed \subseteq Files \cup {"size"}
    /\ CallsInv

FInv == Counted /\ Placed

\* A file whose calls do not overlap has its position where they left it, and the
\* call that is under way starts from there.
OnCourse(t, f) ==
    /\ fpc[t] = "seek" => lpos[f] = seqPos[f]
    /\ fpc[t] = "lower" /\ (call[t].kind = "read" \/ (call[t].kind = "write" /\ ~append[f])) =>
          call[t].pos = seqPos[f]

PositionsInv ==
    \A f \in Files :
        /\ f \in mixed => Busy(f) # {}
        /\ f \notin mixed => /\ upos[f] = seqPos[f]
                             /\ \A t, u \in Busy(f) : t = u
                             /\ \A t \in Busy(f) : OnCourse(t, f)

\* The upper size is behind the lower one while the one writer that saw it stores it.
SizesInv ==
    "size" \notin mixed =>
        /\ \A t \in Threads : fpc[t] = "grow" => call[t].pos = lsize /\ usize < lsize
        /\ \A t, u \in Threads : fpc[t] = "grow" /\ fpc[u] = "grow" => t = u
        /\ (\A t \in Threads : fpc[t] # "grow") => usize = lsize

LEMMA BusyIsFinite == \A f : IsFiniteSet(Busy(f)) /\ Cardinality(Busy(f)) \in Nat
<1> TAKE f
<1>1. Busy(f) \in SUBSET Threads
  BY DEF Busy
<1> QED
  BY <1>1, FileConstants, FS_Subset, FS_CardinalityType

\* A call that starts or returns changes who is busy with its file, no other.
LEMMA BusyWithMore ==
  ASSUME CallsInv, NEW t \in Threads, fpc[t] = "idle", NEW r \in Calls, r.f \in Files,
         call' = [call EXCEPT ![t] = r]
  PROVE  /\ Busy(r.f)' = Busy(r.f) \cup {t}
         /\ t \notin Busy(r.f)
         /\ Cardinality(Busy(r.f)') = Cardinality(Busy(r.f)) + 1
         /\ \A f \in Files \ {r.f} : Busy(f)' = Busy(f)
<1>1. t \notin Busy(r.f) /\ Busy(r.f)' = Busy(r.f) \cup {t}
  BY FileConstants DEF CallsInv, Busy
<1>2. \A f \in Files \ {r.f} : Busy(f)' = Busy(f)
  BY FileConstants DEF CallsInv, Busy
<1> QED
  BY ZenonT(30), <1>1, <1>2, BusyIsFinite, FS_AddElement

LEMMA BusyWithLess ==
  ASSUME CallsInv, NEW t \in Threads, fpc[t] # "idle", NEW f, f = call[t].f,
         call' = [call EXCEPT ![t] = NoCall]
  PROVE  /\ t \in Busy(f)
         /\ Busy(f)' = Busy(f) \ {t}
         /\ Cardinality(Busy(f)') = Cardinality(Busy(f)) - 1
         /\ Cardinality(Busy(f)) > 0
         /\ \A g \in Files \ {f} : Busy(g)' = Busy(g)
<1>1. t \in Busy(f) /\ Busy(f)' = Busy(f) \ {t}
  BY FileConstants DEF CallsInv, Busy, NoCall
<1>2. \A g \in Files \ {f} : Busy(g)' = Busy(g)
  BY FileConstants DEF CallsInv, Busy, NoCall
<1>3. Cardinality(Busy(f)) # 0
  BY <1>1, BusyIsFinite, FS_EmptySet
<1>4. Cardinality(Busy(f)') = Cardinality(Busy(f)) - 1
  BY <1>1, BusyIsFinite, FS_RemoveElement
<1> QED
  BY <1>1, <1>2, <1>3, <1>4, BusyIsFinite

LEMMA InvImpliesBalance == FInv => FileRefsBalance
BY DEF FInv, FileRefsBalance, FileTypeOK, Counted, Balanced, Placed, CallsInv, Calls

LEMMA FileInitInv == FileInit => FInv
<1> SUFFICES ASSUME FileInit PROVE FInv
  OBVIOUS
<1>1. \A f \in Files : Busy(f) = {}
  BY FileConstants DEF FileInit, Busy, NoCall
<1>2. \A f \in Files : Cardinality(Busy(f)) = 0
  BY <1>1, FS_EmptySet
<1> QED
  BY <1>2, FileBounds DEF FileInit, FInv, Counted, Balanced, Placed, CallsInv, Calls, Kinds, NoCall, Positions

-----------------------------------------------------------------------------
(* References                                                               *)

LEMMA StartCounts ==
  ASSUME FInv, NEW t \in Threads, NEW f \in Files, NEW kind \in Kinds, NEW pos \in -1..MaxSize,
         NEW pc, Start(t, kind, f, pos, pc)
  PROVE  Counted'
<1> DEFINE r == [kind |-> kind, f |-> f, pos |-> pos]
<1>1. r \in Calls /\ r.f = f /\ fpc[t] = "idle" /\ call' = [call EXCEPT ![t] = r]
  BY DEF Start, Calls
<1>2. Cardinality(Busy(f)') = Cardinality(Busy(f)) + 1 /\ \A g \in Files \ {f} : Busy(g)' = Busy(g)
  BY <1>1, BusyWithMore DEF FInv, Placed
<1>3. /\ upperRefs' = [upperRefs EXCEPT ![f] = @ + 1] /\ upperRefs[f] > 0
      /\ UNCHANGED <<fds, lowerRefs, vmas, badMaps>>
  BY DEF Start
<1>4. Balanced(f)'
  <2>1. Balanced(f) /\ Cardinality(Busy(f)) \in Nat
    BY BusyIsFinite DEF FInv, Counted
  <2>2. /\ upperRefs[f] \in Nat /\ fds[f] \in Nat /\ badMaps[f] \in Nat /\ vmas[f] \in Nat
        /\ upperRefs'[f] = upperRefs[f] + 1
    BY <1>3, FileBounds DEF FInv, Counted
  <2> QED
    BY <1>2, <1>3, <2>1, <2>2 DEF Balanced
<1>5. \A g \in Files \ {f} : Balanced(g)'
  BY <1>2, <1>3 DEF FInv, Counted, Balanced
<1> QED
  BY <1>3, <1>4, <1>5 DEF FInv, Counted

LEMMA ReturnCounts ==
  ASSUME FInv, NEW t \in Threads, fpc[t] # "idle", Return(t)
  PROVE  Counted'
<1>0. PICK f : f = call[t].f
  OBVIOUS
<1>1. call' = [call EXCEPT ![t] = NoCall] /\ Fput(f) /\ UNCHANGED <<fds, vmas, badMaps>>
  BY <1>0 DEF Return
<1>2. /\ Cardinality(Busy(f)') = Cardinality(Busy(f)) - 1 /\ Cardinality(Busy(f)) > 0
      /\ \A g \in Files \ {f} : Busy(g)' = Busy(g)
  BY <1>0, <1>1, BusyWithLess DEF FInv, Placed
<1>3. f \in Files
  BY <1>0 DEF FInv, Placed, CallsInv
<1> QED
  BY <1>1, <1>2, <1>3, BusyIsFinite DEF Fput, Release, FInv, Counted, Balanced

\* A step that leaves the threads with the files they had and counts no reference.
LEMMA NothingCounted ==
  ASSUME FInv, UNCHANGED countVars, \A t \in Threads : call'[t].f = call[t].f
  PROVE  Counted'
<1>1. \A f : Busy(f)' = Busy(f)
  BY DEF Busy
<1> QED
  BY <1>1 DEF countVars, FInv, Counted, Balanced

\* The steps of a file that are not calls.
FileStep(f) == Open(f) \/ Dup(f) \/ Close(f) \/ Mmap(f) \/ MmapFails(f) \/ Munmap(f)

LEMMA FileStepKeepsInv ==
  ASSUME FInv, NEW f \in Files, FileStep(f)
  PROVE  FInv'
<1> USE FileBounds, BusyIsFinite
<1>1. \A g : Busy(g)' = Busy(g)
  BY DEF FileStep, Open, Dup, Close, Mmap, MmapFails, Munmap, Busy
<1>3. Placed'
  BY DEF FInv, FileStep, Open, Dup, Close, Mmap, MmapFails, Munmap, Placed, CallsInv, posVars, Positions
<1>4. CASE Open(f)
  <2>1. \A g \in Files \ {f} : Balanced(g)'
    BY <1>1, <1>4 DEF Open, FInv, Counted, Balanced
  <2>2. Balanced(f)'
    BY <1>1, <1>4 DEF Open, FInv, Counted, Balanced
  <2>3. Counted'
    BY <1>4, <2>1, <2>2 DEF Open, FInv, Counted
  <2> QED
    BY <1>3, <2>3 DEF FInv
<1>5. CASE Dup(f)
  BY <1>1, <1>3, <1>5 DEF Dup, FInv, Counted, Balanced
<1>6. CASE Close(f)
  BY <1>1, <1>3, <1>6 DEF Close, Fput, Release, FInv, Counted, Balanced
<1>7. CASE Mmap(f)
  <2>1. \A g \in Files \ {f} : Balanced(g)'
    BY <1>1, <1>7 DEF Mmap, FInv, Counted, Balanced
  <2>2. Balanced(f)'
    BY <1>1, <1>7 DEF Mmap, FInv, Counted, Balanced
  <2>3. Counted'
    BY <1>7, <2>1, <2>2 DEF Mmap, FInv, Counted
  <2> QED
    BY <1>3, <2>3 DEF FInv
<1>8. CASE MmapFails(f)
  <2>1. \A g \in Files \ {f} : Balanced(g)'
    BY <1>1, <1>8 DEF MmapFails, FInv, Counted, Balanced
  <2>2. Balanced(f)'
    BY SMTT(30), <1>1, <1>8 DEF MmapFails, FInv, Counted, Balanced
  <2>3. Counted'
    BY <1>8, <2>1, <2>2 DEF MmapFails, FInv, Counted
  <2> QED
    BY <1>3, <2>3 DEF FInv
<1>9. CASE Munmap(f)
  BY <1>1, <1>3, <1>9 DEF Munmap, FInv, Counted, Balanced
<1> QED
  BY <1>4, <1>5, <1>6, <1>7, <1>8, <1>9 DEF FileStep
-----------------------------------------------------------------------------
(* Calls                                                                    *)

\* What Track leaves of its two variables.
LEMMA TrackTypes ==
  ASSUME FInv, NEW t \in Threads, fpc[t] # "idle", NEW to, NEW spoils \in BOOLEAN,
         Track(t, to, spoils), spoils \/ call[t].f \in mixed \/ to \in Positions,
         upos' \in [Files -> Positions]
  PROVE  seqPos' \in [Files -> Positions] /\ mixed' \subseteq Files \cup {"size"}
BY FileBounds DEF FInv, Placed, CallsInv, Track, Positions

LEMMA StartKeepsInv ==
  ASSUME FInv, NEW t \in Threads, NEW f \in Files, NEW kind \in Kinds, NEW pos \in -1..MaxSize,
         NEW pc \in {"lower", "seek"}, Start(t, kind, f, pos, pc),
         pc = "lower" => pos \in Positions /\ kind \in {"read", "pread", "write", "pwrite"},
         pc = "seek" => kind \in {"seek", "readdir"},
         UNCHANGED lpos \/ Sync(f)
  PROVE  FInv'
<1>1. Counted'
  BY StartCounts
<1>2. [kind |-> kind, f |-> f, pos |-> pos] \in Calls
  BY DEF Calls
<1>3. CallsInv'
  BY <1>2, FileConstants DEF Start, FInv, Placed, CallsInv
<1> QED
  BY <1>1, <1>3, FileBounds DEF Start, Sync, FInv, Placed, Positions

LEMMA ReturnKeepsInv ==
  ASSUME FInv, NEW t \in Threads, fpc[t] # "idle", Return(t),
         NEW to, NEW spoils \in BOOLEAN, Track(t, to, spoils),
         spoils \/ call[t].f \in mixed \/ to \in Positions,
         upos' \in [Files -> Positions], lpos' \in [Files -> Positions],
         usize' \in Positions, lsize' \in Positions
  PROVE  FInv'
<1>1. Counted'
  BY ReturnCounts
<1>2. NoCall \in Calls /\ NoCall.f = "none"
  BY FileBounds DEF Calls, NoCall, Kinds
<1>3. CallsInv'
  BY <1>2 DEF Return, FInv, Placed, CallsInv
<1> QED
  BY <1>1, <1>3, TrackTypes DEF Return, FInv, Placed

\* Where a call may move the positions to.
LEMMA MovedTypes ==
  ASSUME FInv, NEW t \in Threads, fpc[t] # "idle", NEW pos \in Positions, Moved(t, pos)
  PROVE  upos' \in [Files -> Positions] /\ lpos' \in [Files -> Positions]
BY DEF FInv, Placed, CallsInv, Moved

LEMMA BusyOfOne ==
  ASSUME FInv, PositionsInv, NEW t \in Threads, fpc[t] # "idle"
  PROVE  /\ call[t] \in Calls /\ call[t].f \in Files /\ t \in Busy(call[t].f)
         /\ call[t].f \notin mixed => OnCourse(t, call[t].f)
         /\ lpos[call[t].f] \in Positions /\ upos[call[t].f] \in Positions
         /\ seqPos[call[t].f] \in Positions
BY DEF FInv, Placed, CallsInv, PositionsInv, Busy

LEMMA SeekKeepsInv ==
  ASSUME FInv, PositionsInv, NEW t \in Threads, Seek(t) \/ SeekFails(t)
  PROVE  FInv'
<1> USE FileBounds, BusyOfOne
<1>1. CASE Seek(t)
  <2>1. PICK f \in Files : f = call[t].f /\ call[t].pos \in Int
    BY <1>1 DEF Seek, Calls
  <2>2. /\ Track(t, seqPos[f] + call[t].pos, FALSE) /\ Return(t)
        /\ lpos' = [lpos EXCEPT ![f] = @ + call[t].pos] /\ lpos[f] + call[t].pos \in Positions
        /\ upos' = [upos EXCEPT ![f] = lpos[f] + call[t].pos]
        /\ usize' = usize /\ lsize' = lsize
    BY <1>1, <2>1 DEF Seek
  <2>3. upos' \in [Files -> Positions] /\ lpos' \in [Files -> Positions]
    BY <2>2 DEF FInv, Placed
  <2>4. f \in mixed \/ seqPos[f] + call[t].pos \in Positions
    BY <1>1, <2>1, <2>2 DEF Seek, OnCourse
  <2>5. fpc[t] # "idle" /\ usize' \in Positions /\ lsize' \in Positions
    BY <1>1, <2>2 DEF Seek, FInv, Placed
  <2>6. call[t].f \in mixed \/ seqPos[f] + call[t].pos \in Positions
    BY <2>1, <2>4
  <2> QED
    BY <2>2, <2>3, <2>5, <2>6, ReturnKeepsInv
<1>2. CASE SeekFails(t)
  BY <1>2, ReturnKeepsInv DEF SeekFails, FInv, Placed
<1> QED
  BY <1>1, <1>2

LEMMA ReadKeepsInv ==
  ASSUME FInv, PositionsInv, NEW t \in Threads, Read(t)
  PROVE  FInv'
<1> USE FileBounds, BusyOfOne
<1> DEFINE after(pos) == IF pos < lsize THEN pos + 1 ELSE pos
<1>1. lsize \in Positions /\ \A pos \in Positions : after(pos) \in Positions
  BY DEF FInv, Placed, Positions
<1>2. fpc[t] = "lower" /\ call[t].pos \in Positions
  BY DEF Read, FInv, Placed, CallsInv
<1>3. SeqFrom(t, after) \in Positions
  BY <1>1, <1>2 DEF SeqFrom
<1>4. /\ Moved(t, after(call[t].pos)) /\ Track(t, SeqFrom(t, after), FALSE) /\ Return(t)
      /\ usize' = usize /\ lsize' = lsize
  BY DEF Read
<1>5. upos' \in [Files -> Positions] /\ lpos' \in [Files -> Positions]
  BY <1>1, <1>2, <1>4, MovedTypes
<1> QED
  BY <1>2, <1>3, <1>4, <1>5, ReturnKeepsInv DEF FInv, Placed

LEMMA WriteKeepsInv ==
  ASSUME FInv, PositionsInv, NEW t \in Threads, Write(t)
  PROVE  FInv'
<1> USE FileBounds, BusyOfOne
<1> DEFINE after(pos) == Least((IF append[call[t].f] THEN lsize ELSE pos) + 1, MaxSize)
           end == LowerStart(t) + 1
<1>1. lsize \in Positions /\ usize \in Positions /\ \A pos \in Positions : after(pos) \in Positions
  BY DEF FInv, Placed, Positions, Least
<1>2. fpc[t] = "lower" /\ call[t].pos \in Positions
  BY DEF Write, FInv, Placed, CallsInv
<1>3. SeqFrom(t, after) \in Positions
  BY <1>1, <1>2 DEF SeqFrom
<1>4. end \in Positions
  BY <1>1, <1>2 DEF Write, LowerStart, Positions
<1>5. lsize' \in Positions /\ usize' \in Positions
  BY <1>1, <1>4 DEF Write, Most, Positions
<1>6. upos' \in [Files -> Positions] /\ lpos' \in [Files -> Positions]
  BY <1>2, <1>4, MovedTypes DEF Write
<1>7. CASE ~Grows(end)
  <2>1. Track(t, SeqFrom(t, after), FALSE) /\ Return(t)
    BY <1>7 DEF Write
  <2> QED
    BY <1>2, <1>3, <1>5, <1>6, <2>1, ReturnKeepsInv
<1>8. CASE Grows(end)
  <2>1. /\ fpc' = [fpc EXCEPT ![t] = "grow"] /\ call' = [call EXCEPT ![t].pos = end]
        /\ UNCHANGED countVars
        /\ mixed' = mixed \/ mixed' = mixed \cup {"size"}
        /\ seqPos' = seqPos \/ seqPos' = [seqPos EXCEPT ![call[t].f] = SeqFrom(t, after)]
    BY <1>8 DEF Write
  <2>2. call'[t] = [kind |-> call[t].kind, f |-> call[t].f, pos |-> end]
    BY <2>1 DEF FInv, Placed, CallsInv, Calls
  <2>3. \A u \in Threads \ {t} : call'[u] = call[u]
    BY <2>1 DEF FInv, Placed, CallsInv
  <2>4. call' \in [Threads -> Calls]
    BY <1>4, <2>1, <2>2, <2>3 DEF FInv, Placed, CallsInv, Calls, Positions
  <2>5. Counted'
    BY <2>1, <2>2, <2>3, NothingCounted
  <2>6. CallsInv'
    <3>1. /\ call'[t].f = call[t].f /\ call'[t].pos = end
          /\ fpc'[t] = "grow" /\ \A u \in Threads \ {t} : fpc'[u] = fpc[u]
      BY <2>1, <2>2 DEF FInv, Placed
    <3>2. CallsInv /\ call[t].f \in Files
      BY <1>2 DEF FInv, Placed
    <3> QED
      BY <1>4, <2>3, <2>4, <3>1, <3>2 DEF CallsInv
  <2>7. seqPos' \in [Files -> Positions] /\ mixed' \subseteq Files \cup {"size"}
    BY <1>3, <2>1 DEF FInv, Placed
  <2> QED
    BY <1>5, <1>6, <2>1, <2>5, <2>6, <2>7 DEF FInv, Placed, countVars
<1> QED
  BY <1>7, <1>8

LEMMA OtherCallKeepsInv ==
  ASSUME FInv, PositionsInv, NEW t \in Threads, WriteFails(t) \/ Grow(t)
  PROVE  FInv'
<1> USE FileBounds, BusyOfOne
<1>1. CASE WriteFails(t)
  <2>1. /\ fpc[t] = "lower" /\ call[t].pos \in Positions /\ append[call[t].f] \in BOOLEAN
        /\ Moved(t, call[t].pos) /\ Track(t, seqPos[call[t].f], append[call[t].f]) /\ Return(t)
        /\ usize' = usize /\ lsize' = lsize
    BY <1>1 DEF WriteFails, FInv, Placed, CallsInv
  <2> QED
    BY <2>1, MovedTypes, ReturnKeepsInv DEF FInv, Placed
<1>2. CASE Grow(t)
  BY <1>2, ReturnKeepsInv DEF Grow, FInv, Placed, CallsInv
<1> QED
  BY <1>1, <1>2
-----------------------------------------------------------------------------
(* Positions                                                                *)

LEMMA FileStepKeepsPositions ==
  ASSUME FInv, PositionsInv, NEW f \in Files, FileStep(f)
  PROVE  PositionsInv'
<1>1. \A g : Busy(g)' = Busy(g)
  BY DEF FileStep, Open, Dup, Close, Mmap, MmapFails, Munmap, Busy
<1>2. CASE Open(f)
  <2>1. Cardinality(Busy(f)) = 0
    BY <1>2, BusyIsFinite, FileBounds DEF Open, FInv, Counted, Balanced
  <2>2. Busy(f) = {}
    BY <2>1, BusyIsFinite, FS_EmptySet
  <2> QED
    BY <1>1, <1>2, <2>2 DEF Open, FInv, Placed, PositionsInv, OnCourse
<1>3. ASSUME UNCHANGED <<posVars, append, fpc, call>> PROVE PositionsInv'
  BY <1>1, <1>3 DEF posVars, PositionsInv, OnCourse
<1> QED
  BY <1>2, <1>3 DEF FileStep, Dup, Close, Mmap, MmapFails, Munmap

\* A call that uses the position of the file starts from where that is.
LEMMA StartKeepsPositions ==
  ASSUME FInv, PositionsInv, NEW t \in Threads, NEW f \in Files, NEW kind \in Kinds,
         NEW pos \in -1..MaxSize, NEW pc, Start(t, kind, f, pos, pc),
         UNCHANGED lpos \/ Sync(f), pc = "seek" => Sync(f),
         kind = "read" \/ (kind = "write" /\ ~append[f]) => pos = upos[f]
  PROVE  PositionsInv'
<1> DEFINE r == [kind |-> kind, f |-> f, pos |-> pos]
<1>1. /\ r \in Calls /\ r.f = f /\ fpc[t] = "idle" /\ call' = [call EXCEPT ![t] = r]
      /\ fpc' = [fpc EXCEPT ![t] = pc] /\ upos' = upos /\ append' = append
  BY DEF Start, Calls
<1>2. /\ Busy(f)' = Busy(f) \cup {t} /\ t \notin Busy(f)
      /\ \A g \in Files \ {f} : Busy(g)' = Busy(g)
  BY <1>1, BusyWithMore DEF FInv, Placed
<1>3. /\ \A u \in Threads \ {t} : call'[u] = call[u] /\ fpc'[u] = fpc[u]
      /\ call'[t] = r /\ fpc'[t] = pc
  BY <1>1 DEF FInv, Placed, CallsInv
<1>4. \A g \in Files \ {f} : seqPos'[g] = seqPos[g] /\ lpos'[g] = lpos[g] /\ (g \in mixed' <=> g \in mixed)
  BY DEF Start, Sync, FInv, Placed
<1>5. ASSUME NEW g \in Files \ {f}, NEW u \in Busy(g)' PROVE u \in Threads \ {t}
  BY <1>3, <1>5 DEF Busy
<1>6. CASE Busy(f) # {}
  BY <1>1, <1>2, <1>3, <1>4, <1>5, <1>6 DEF Start, PositionsInv, OnCourse
<1>7. CASE Busy(f) = {}
  <2>1. mixed' = mixed /\ seqPos' = seqPos /\ f \notin mixed /\ Busy(f)' = {t}
    BY <1>2, <1>7 DEF Start, PositionsInv
  <2>2. pc = "seek" => lpos'[f] = upos[f]
    BY DEF Sync, FInv, Placed
  <2>3. OnCourse(t, f)'
    BY <1>1, <1>3, <2>1, <2>2 DEF PositionsInv, OnCourse
  <2> QED
    BY <1>1, <1>2, <1>3, <1>4, <1>5, <2>1, <2>3 DEF PositionsInv, OnCourse
<1> QED
  BY <1>6, <1>7

\* A call that returns leaves the file where it says the calls have left it.
LEMMA ReturnKeepsPositions ==
  ASSUME FInv, PositionsInv, NEW t \in Threads, fpc[t] # "idle", Return(t),
         NEW f, f = call[t].f, NEW to, NEW spoils \in BOOLEAN, Track(t, to, spoils),
         f \in mixed \/ spoils \/ upos'[f] = to,
         \A g \in Files \ {f} : upos'[g] = upos[g] /\ lpos'[g] = lpos[g]
  PROVE  PositionsInv'
<1>1. /\ call' = [call EXCEPT ![t] = NoCall] /\ fpc' = [fpc EXCEPT ![t] = "idle"]
      /\ append' = append /\ f \in Files
  BY DEF Return, FInv, Placed, CallsInv
<1>2. /\ t \in Busy(f) /\ Busy(f)' = Busy(f) \ {t}
      /\ \A g \in Files \ {f} : Busy(g)' = Busy(g)
  BY <1>1, BusyWithLess DEF FInv, Placed
<1>3. \A u \in Threads \ {t} : call'[u] = call[u] /\ fpc'[u] = fpc[u]
  BY <1>1 DEF FInv, Placed, CallsInv
<1>4. \A g \in Files \ {f} : seqPos'[g] = seqPos[g] /\ (g \in mixed' <=> g \in mixed)
  BY DEF Track, FInv, Placed
<1>5. ASSUME NEW g \in Files \ {f}, NEW u \in Busy(g)' PROVE u \in Threads \ {t}
  BY <1>2, <1>5, FileConstants DEF Busy, FInv, Placed, CallsInv
<1>6. f \in mixed' => Busy(f)' # {}
  BY <1>2 DEF Track, PositionsInv
<1>7. f \notin mixed' => Busy(f)' = {} /\ upos'[f] = seqPos'[f]
  BY <1>1, <1>2 DEF Track, PositionsInv, FInv, Placed
<1> QED
  BY <1>1, <1>2, <1>3, <1>4, <1>5, <1>6, <1>7 DEF PositionsInv, OnCourse

LEMMA CallKeepsPositions ==
  ASSUME FInv, PositionsInv, NEW t \in Threads,
         Seek(t) \/ SeekFails(t) \/ Read(t) \/ WriteFails(t) \/ Grow(t)
  PROVE  PositionsInv'
<1> USE FileBounds
<1>1. PICK f : f = call[t].f
  OBVIOUS
<1>2. fpc[t] # "idle"
  BY DEF Seek, SeekFails, Read, WriteFails, Grow
<1>3. f \in Files /\ (f \notin mixed => OnCourse(t, f) /\ upos[f] = seqPos[f]) /\ call[t].pos \in Int
  BY <1>1, <1>2, BusyOfOne DEF PositionsInv, Calls
<1>4. CASE Seek(t)
  BY ZenonT(30), <1>1, <1>2, <1>3, <1>4, ReturnKeepsPositions DEF Seek, OnCourse, FInv, Placed
<1>5. CASE SeekFails(t)
  BY <1>1, <1>2, <1>3, <1>5, ReturnKeepsPositions DEF SeekFails
<1>6. CASE Read(t)
  <2> DEFINE after(pos) == IF pos < lsize THEN pos + 1 ELSE pos
  <2>1. /\ Moved(t, after(call[t].pos)) /\ Track(t, SeqFrom(t, after), FALSE) /\ Return(t)
        /\ fpc[t] = "lower" /\ call[t].kind \in {"read", "pread"}
    BY <1>6 DEF Read
  <2>2. \A g \in Files \ {f} : upos'[g] = upos[g] /\ lpos'[g] = lpos[g]
    BY <1>1, <2>1 DEF Moved, FInv, Placed
  <2>3. f \in mixed \/ upos'[f] = SeqFrom(t, after)
    BY <1>1, <1>3, <2>1 DEF Moved, SeqFrom, OnCourse, FInv, Placed
  <2> QED
    BY <1>1, <1>2, <2>1, <2>2, <2>3, ReturnKeepsPositions
<1>7. CASE WriteFails(t)
  <2>1. /\ Moved(t, call[t].pos) /\ Track(t, seqPos[f], append[f]) /\ Return(t)
        /\ fpc[t] = "lower" /\ append[f] \in BOOLEAN
    BY <1>1, <1>3, <1>7 DEF WriteFails, FInv, Placed
  <2>2. \A g \in Files \ {f} : upos'[g] = upos[g] /\ lpos'[g] = lpos[g]
    BY <1>1, <2>1 DEF Moved, FInv, Placed
  <2>3. f \in mixed \/ append[f] \/ upos'[f] = seqPos[f]
    BY <1>1, <1>3, <1>7, <2>1 DEF WriteFails, Moved, OnCourse, FInv, Placed
  <2> QED
    BY <1>1, <1>2, <2>1, <2>2, <2>3, ReturnKeepsPositions
<1>8. CASE Grow(t)
  BY <1>1, <1>2, <1>3, <1>8, ReturnKeepsPositions DEF Grow
<1> QED
  BY <1>4, <1>5, <1>6, <1>7, <1>8

LEMMA WriteKeepsPositions ==
  ASSUME FInv, PositionsInv, NEW t \in Threads, Write(t)
  PROVE  PositionsInv'
<1> USE FileBounds
<1>1. PICK f : f = call[t].f
  OBVIOUS
<1> DEFINE after(pos) == Least((IF append[call[t].f] THEN lsize ELSE pos) + 1, MaxSize)
           end == LowerStart(t) + 1
<1>2. /\ fpc[t] = "lower" /\ call[t].kind \in {"write", "pwrite"} /\ Moved(t, end)
      /\ end <= MaxSize
  BY DEF Write
<1>3. /\ f \in Files /\ (f \notin mixed => OnCourse(t, f) /\ upos[f] = seqPos[f])
      /\ call[t].pos \in Int /\ lsize \in Int
  BY <1>1, <1>2, BusyOfOne DEF PositionsInv, Calls, FInv, Placed, Positions
<1>4. \A g \in Files \ {f} : upos'[g] = upos[g] /\ lpos'[g] = lpos[g]
  BY <1>1, <1>2 DEF Moved, FInv, Placed
<1>5. f \in mixed \/ upos'[f] = SeqFrom(t, after)
  BY <1>1, <1>2, <1>3 DEF Moved, SeqFrom, LowerStart, Least, OnCourse, FInv, Placed
<1>6. CASE ~Grows(end)
  <2>1. Track(t, SeqFrom(t, after), FALSE) /\ Return(t)
    BY <1>1, <1>6 DEF Write
  <2> QED
    BY <1>1, <1>2, <1>4, <1>5, <2>1, ReturnKeepsPositions
<1>7. CASE Grows(end)
  <2>1. /\ fpc' = [fpc EXCEPT ![t] = "grow"] /\ call' = [call EXCEPT ![t].pos = end]
        /\ append' = append
        /\ mixed' = mixed \/ mixed' = mixed \cup {"size"}
        /\ seqPos' = IF f \in mixed THEN seqPos ELSE [seqPos EXCEPT ![f] = SeqFrom(t, after)]
    BY <1>1, <1>7 DEF Write, countVars
  <2>2. \A u \in Threads : call'[u].f = call[u].f
    BY <2>1 DEF FInv, Placed, CallsInv, Calls
  <2>3. \A g : Busy(g)' = Busy(g)
    BY <2>2 DEF Busy
  <2>4. \A u \in Threads \ {t} : call'[u] = call[u] /\ fpc'[u] = fpc[u]
    BY <2>1 DEF FInv, Placed, CallsInv
  <2>5. fpc'[t] = "grow" /\ t \in Busy(f)
    BY <1>1, <1>2, <2>1, BusyOfOne DEF FInv, Placed
  <2>6. \A g \in Files \ {f} : seqPos'[g] = seqPos[g]
    BY <2>1 DEF FInv, Placed
  <2>7. f \notin mixed => upos'[f] = seqPos'[f]
    BY <1>3, <1>5, <2>1 DEF FInv, Placed
  <2>8. \A g \in Files : g \in mixed' <=> g \in mixed
    BY <2>1, FileConstants
  <2>9. \A g \in Files \ {f} : t \notin Busy(g)
    BY <1>1 DEF Busy
  <2>10. f \notin mixed => Busy(f) = {t}
    BY <1>3, <2>5 DEF PositionsInv
  <2>11. ASSUME NEW g \in Files \ {f} PROVE \A u \in Busy(g) : OnCourse(u, g) => OnCourse(u, g)'
    BY <1>4, <2>1, <2>4, <2>6, <2>9 DEF Busy, OnCourse
  <2>12. OnCourse(t, f)'
    BY <2>5 DEF OnCourse
  <2> QED
    BY <1>3, <1>4, <2>3, <2>6, <2>7, <2>8, <2>10, <2>11, <2>12 DEF PositionsInv
<1> QED
  BY <1>6, <1>7
-----------------------------------------------------------------------------
(* Sizes                                                                    *)

\* Steps that neither change a size nor begin or end the storing of one.
LEMMA NoSizeTouched ==
  ASSUME FInv, SizesInv, usize' = usize, lsize' = lsize, "size" \in mixed => "size" \in mixed',
         \A t \in Threads : fpc[t] = "grow" \/ fpc'[t] = "grow" =>
            fpc'[t] = fpc[t] /\ call'[t] = call[t]
  PROVE  SizesInv'
BY DEF SizesInv

LEMMA TrackKeepsSize ==
  ASSUME FInv, NEW t \in Threads, fpc[t] # "idle", NEW to, NEW spoils, Track(t, to, spoils)
  PROVE  "size" \in mixed <=> "size" \in mixed'
BY FileConstants DEF Track, FInv, Placed, CallsInv

LEMMA CallKeepsSizes ==
  ASSUME FInv, SizesInv, NEW t \in Threads, Seek(t) \/ SeekFails(t) \/ Read(t) \/ WriteFails(t)
  PROVE  SizesInv'
<1>1. /\ fpc[t] \notin {"idle", "grow"} /\ Return(t) /\ usize' = usize /\ lsize' = lsize
      /\ \E to, spoils : Track(t, to, spoils)
  BY DEF Seek, SeekFails, Read, WriteFails
<1>2. "size" \in mixed <=> "size" \in mixed'
  BY <1>1, TrackKeepsSize
<1>3. /\ \A u \in Threads \ {t} : call'[u] = call[u] /\ fpc'[u] = fpc[u]
      /\ fpc'[t] = "idle"
  BY <1>1 DEF Return, FInv, Placed, CallsInv
<1> QED
  BY <1>1, <1>2, <1>3, NoSizeTouched

LEMMA GrowKeepsSizes ==
  ASSUME FInv, SizesInv, NEW t \in Threads, Grow(t)
  PROVE  SizesInv'
<1>1. /\ fpc[t] = "grow" /\ usize' = call[t].pos /\ lsize' = lsize
      /\ Track(t, seqPos[call[t].f], FALSE)
      /\ \A u \in Threads \ {t} : call'[u] = call[u] /\ fpc'[u] = fpc[u]
      /\ fpc'[t] = "idle"
  BY DEF Grow, Return, FInv, Placed, CallsInv
<1>2. "size" \in mixed <=> "size" \in mixed'
  BY <1>1, TrackKeepsSize
<1> QED
  BY <1>1, <1>2 DEF SizesInv

LEMMA WriteKeepsSizes ==
  ASSUME FInv, SizesInv, NEW t \in Threads, Write(t)
  PROVE  SizesInv'
<1> DEFINE end == LowerStart(t) + 1
<1>1. /\ fpc[t] = "lower" /\ end \in Positions /\ lsize' = Most(lsize, end) /\ usize' = usize
      /\ usize \in Int /\ lsize \in Int /\ end \in Int
  BY FileBounds DEF Write, LowerStart, FInv, Placed, CallsInv, Positions
<1>2. usize <= lsize \/ "size" \in mixed
  BY <1>1 DEF SizesInv
<1> HIDE DEF end
<1>3. CASE ~Grows(end)
  <2>1. Return(t) /\ \E to, spoils : Track(t, to, spoils)
    BY <1>3 DEF Write, end
  <2>2. "size" \in mixed <=> "size" \in mixed'
    BY <1>1, <2>1, TrackKeepsSize
  <2>3. /\ \A u \in Threads \ {t} : call'[u] = call[u] /\ fpc'[u] = fpc[u]
        /\ fpc'[t] = "idle"
    BY <2>1 DEF Return, FInv, Placed, CallsInv
  <2>4. lsize' = lsize \/ "size" \in mixed
    BY <1>1, <1>2, <1>3 DEF Grows, Most
  <2> QED
    BY <1>1, <2>2, <2>3, <2>4, NoSizeTouched DEF SizesInv
<1>4. CASE Grows(end)
  <2>1. /\ fpc' = [fpc EXCEPT ![t] = "grow"] /\ call' = [call EXCEPT ![t].pos = end]
        /\ mixed' = mixed \cup IF \E u \in Threads \ {t} : fpc[u] = "grow" THEN {"size"} ELSE {}
    BY <1>4 DEF Write, end
  <2>2. /\ \A u \in Threads \ {t} : call'[u] = call[u] /\ fpc'[u] = fpc[u]
        /\ fpc'[t] = "grow" /\ call'[t].pos = end
    BY <2>1 DEF FInv, Placed, CallsInv, Calls
  <2>3. CASE \E u \in Threads \ {t} : fpc[u] = "grow"
    BY <2>1, <2>3 DEF SizesInv
  <2>4. CASE ~\E u \in Threads \ {t} : fpc[u] = "grow"
    <3>1. mixed' = mixed /\ \A u \in Threads : fpc[u] # "grow"
      BY <1>1, <2>1, <2>4
    <3>2. "size" \notin mixed => lsize' = end /\ usize' < lsize'
      BY <1>1, <1>2, <1>4, <3>1 DEF SizesInv, Grows, Most
    <3> QED
      BY <2>2, <2>4, <3>1, <3>2 DEF SizesInv
  <2> QED
    BY <2>3, <2>4
<1> QED
  BY <1>3, <1>4

LEMMA AnotherKeepsInv ==
  ASSUME FInv, PositionsInv, SizesInv, NEW end \in Positions, AnotherWrites(end)
  PROVE  FInv' /\ PositionsInv' /\ SizesInv'
<1>1. \A f : Busy(f)' = Busy(f)
  BY DEF AnotherWrites, Busy
<1>2. /\ UNCHANGED <<countVars, fpc, call, upos, lpos, seqPos>> /\ end \in Int
      /\ lsize' = Most(lsize, end) /\ usize' = Most(usize, end) /\ lsize \in Int /\ usize \in Int
      /\ mixed' = mixed \cup (IF \E t \in Threads : fpc[t] = "grow" THEN {"size"} ELSE {})
  BY FileBounds DEF AnotherWrites, FInv, Placed, Positions
<1>3. Counted'
  BY <1>2, NothingCounted
<1>4. lsize' \in Positions /\ usize' \in Positions
  BY <1>2 DEF Most, FInv, Placed
<1>5. Placed'
  BY <1>2, <1>4 DEF countVars, FInv, Placed, CallsInv
<1>6. \A f \in Files : f \in mixed' <=> f \in mixed
  BY <1>2, FileConstants
<1>7. PositionsInv'
  BY <1>1, <1>2, <1>6 DEF countVars, PositionsInv, OnCourse
<1>8. SizesInv'
  BY <1>2 DEF SizesInv
<1> QED
  BY <1>3, <1>5, <1>7, <1>8 DEF FInv
-----------------------------------------------------------------------------
(* The invariant                                                            *)

OpenFilesInv == FInv /\ PositionsInv /\ SizesInv

LEMMA OpenFilesInit == FileInit => OpenFilesInv
<1> SUFFICES ASSUME FileInit PROVE OpenFilesInv
  OBVIOUS
<1>1. \A f \in Files : Busy(f) = {}
  BY FileConstants DEF FileInit, Busy, NoCall
<1> QED
  BY <1>1, FileInitInv DEF OpenFilesInv, FileInit, PositionsInv, SizesInv

\* Every call that starts is one of these.
LEMMA StartKeepsAll ==
  ASSUME OpenFilesInv, NEW t \in Threads, NEW f \in Files, NEW kind \in Kinds,
         NEW pos \in -1..MaxSize, NEW pc \in {"lower", "seek"}, Start(t, kind, f, pos, pc),
         pc = "lower" => pos \in Positions /\ kind \in {"read", "pread", "write", "pwrite"},
         pc = "seek" => kind \in {"seek", "readdir"} /\ Sync(f),
         kind = "read" \/ (kind = "write" /\ ~append[f]) => pos = upos[f],
         UNCHANGED lpos \/ Sync(f)
  PROVE  OpenFilesInv'
<1>1. FInv'
  BY StartKeepsInv DEF OpenFilesInv
<1>2. PositionsInv'
  BY StartKeepsPositions DEF OpenFilesInv
<1>3. /\ \A u \in Threads \ {t} : call'[u] = call[u] /\ fpc'[u] = fpc[u]
      /\ fpc[t] = "idle" /\ fpc'[t] = pc
      /\ "size" \in mixed => "size" \in mixed'
      /\ usize' = usize /\ lsize' = lsize
  BY DEF Start, OpenFilesInv, FInv, Placed, CallsInv
<1>4. SizesInv'
  BY <1>3, NoSizeTouched DEF OpenFilesInv
<1> QED
  BY <1>1, <1>2, <1>4 DEF OpenFilesInv

LEMMA StartsKeepInv ==
  ASSUME OpenFilesInv, NEW t \in Threads, NEW f \in Files,
         \/ StartRead(t, f) \/ StartWrite(t, f)
         \/ \E pos \in Positions : StartPread(t, f, pos) \/ StartPwrite(t, f, pos)
         \/ \E off \in -1..1 : StartSeek(t, f, off)
         \/ StartReaddir(t, f, 1)
  PROVE  OpenFilesInv'
<1>1. /\ upos[f] \in Positions /\ usize \in Positions
      /\ \A pos \in Positions : pos \in -1..MaxSize
  BY FileBounds DEF OpenFilesInv, FInv, Placed, Positions
<1>2. CASE StartRead(t, f)
  BY <1>1, <1>2, StartKeepsAll DEF StartRead, Kinds
<1>3. CASE StartWrite(t, f)
  BY <1>1, <1>3, StartKeepsAll DEF StartWrite, Kinds
<1>4. ASSUME NEW pos \in Positions, StartPread(t, f, pos) PROVE OpenFilesInv'
  BY <1>1, <1>4, StartKeepsAll DEF StartPread, Kinds
<1>5. ASSUME NEW pos \in Positions, StartPwrite(t, f, pos) PROVE OpenFilesInv'
  BY <1>1, <1>5, StartKeepsAll DEF StartPwrite, Kinds
<1>6. ASSUME NEW off \in -1..1, StartSeek(t, f, off) PROVE OpenFilesInv'
  BY <1>6, FileBounds, StartKeepsAll DEF StartSeek, Kinds
<1>7. CASE StartReaddir(t, f, 1)
  BY <1>7, FileBounds, StartKeepsAll DEF StartReaddir, Kinds
<1> QED
  BY <1>2, <1>3, <1>4, <1>5, <1>6, <1>7

LEMMA OpenFilesNext == OpenFilesInv /\ [FileNext]_fileVars => OpenFilesInv'
<1> SUFFICES ASSUME OpenFilesInv, [FileNext]_fileVars PROVE OpenFilesInv'
  OBVIOUS
<1>1. CASE UNCHANGED fileVars
  <2>1. \A f : Busy(f)' = Busy(f)
    BY <1>1 DEF fileVars, Busy
  <2> QED
    BY <1>1, <2>1 DEF fileVars, OpenFilesInv, FInv, Counted, Balanced, Placed, CallsInv,
                      PositionsInv, OnCourse, SizesInv
<1>2. ASSUME NEW f \in Files, FileStep(f) PROVE OpenFilesInv'
  <2>1. UNCHANGED <<usize, lsize, fpc, call>> /\ ("size" \in mixed => "size" \in mixed')
    BY <1>2, FileConstants DEF FileStep, Open, Dup, Close, Mmap, MmapFails, Munmap, posVars
  <2>2. SizesInv'
    BY <2>1, NoSizeTouched DEF OpenFilesInv
  <2> QED
    BY <1>2, <2>2, FileStepKeepsInv, FileStepKeepsPositions DEF OpenFilesInv
<1>3. ASSUME NEW t \in Threads, Seek(t) \/ SeekFails(t) \/ Read(t) \/ WriteFails(t)
      PROVE  OpenFilesInv'
  BY <1>3, SeekKeepsInv, ReadKeepsInv, OtherCallKeepsInv, CallKeepsPositions, CallKeepsSizes
     DEF OpenFilesInv
<1>4. ASSUME NEW t \in Threads, Write(t) PROVE OpenFilesInv'
  BY <1>4, WriteKeepsInv, WriteKeepsPositions, WriteKeepsSizes DEF OpenFilesInv
<1>5. ASSUME NEW t \in Threads, Grow(t) PROVE OpenFilesInv'
  BY <1>5, OtherCallKeepsInv, CallKeepsPositions, GrowKeepsSizes DEF OpenFilesInv
<1>6. ASSUME NEW end \in Positions, AnotherWrites(end) PROVE OpenFilesInv'
  BY <1>6, AnotherKeepsInv DEF OpenFilesInv
<1> QED
  BY <1>1, <1>2, <1>3, <1>4, <1>5, <1>6, StartsKeepInv DEF FileNext, FileStep

LEMMA OpenFilesAlways == FileSpec => []OpenFilesInv
BY OpenFilesInit, OpenFilesNext, PTL DEF FileSpec

\* A lower file lives as long as its upper file or a mapping made through it, and
\* the upper file as long as a descriptor or a call (base0fs_open, base0fs_mmap,
\* base0fs_release), whatever the threads do and in whichever order.
THEOREM FileReferencesBalance == FileSpec => []FileRefsBalance
<1>1. OpenFilesInv => FileRefsBalance
  BY InvImpliesBalance DEF OpenFilesInv
<1> QED
  BY <1>1, OpenFilesAlways, PTL

\* Calls that do not overlap cannot tell the two positions of a file from one
\* (base0fs_llseek, base0fs_read, base0fs_write, base0fs_readdir).
THEOREM PositionsAreTrue == FileSpec => []PositionsTrue
<1>1. OpenFilesInv => PositionsTrue
  BY DEF OpenFilesInv, PositionsInv, PositionsTrue
<1> QED
  BY <1>1, OpenFilesAlways, PTL

\* Between writes the upper inode has the size of the lower one (base0fs_write).
THEOREM SizesAreTrue == FileSpec => []SizesTrue
<1>1. OpenFilesInv => SizesTrue
  BY DEF OpenFilesInv, SizesInv, SizesTrue
<1> QED
  BY <1>1, OpenFilesAlways, PTL
=============================================================================
