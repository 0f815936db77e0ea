---------------------- MODULE LofsPersistentFileProofs ----------------------
(***************************************************************************)
(* Theorems about LofsPersistentFile, for any files and handles.  HandleInv  *)
(* says which lower files are open and who opens one; WriterInv, for lower    *)
(* filesystems that open seekable files, what a lower file was opened for.    *)
(***************************************************************************)
EXTENDS LofsPersistentFile, FiniteSetTheorems, TLAPS

\* An opener has found that the lower file will not do and has not replaced it yet.
Replacing == {"opening", "failed", "swap", "clear", "assign"}
\* Those that opened a lower file and have not made it the inode's yet.
Holding == {"swap", "clear", "assign"}
\* Those that lofs_init_persistent_file has given what they asked for.
Using == {"unlock", "read_lower", "open", "io_lock", "io", "flush"}

MutexInv == \A f \in Files : mutex = f <=> fpc[f] \in InMutex

\* The lower files that are open are the inode's, which is closed while its
\* replacement is under way, and the replacement.
HandleInv ==
    /\ \A f \in Files :
        /\ fpc[f] \in Holding => tmp[f] # NoHandle /\ tmp[f] # lower /\ isOpen[tmp[f]]
        /\ fpc[f] \notin Holding => tmp[f] = NoHandle
        /\ fpc[f] = "clear" => lower # NoHandle
        /\ fpc[f] = "assign" => lower = NoHandle
    /\ lower # NoHandle => (isOpen[lower] <=> \A f \in Files : fpc[f] # "clear")
    /\ SingleLowerFile

OpenHandles == {h \in Handles : isOpen[h]}
Openers == {f \in Files : fpc[f] = "opening"}
RefsInv == pathRefs = Cardinality(OpenHandles) + Cardinality(Openers)

PInv == TypeOK /\ MutexInv /\ HandleInv /\ RefsInv

\* What is written through lofs needs a lower file that is open for writing.
Writers == dirty \/ \E f \in Files : fpc[f] \in Using /\ "W" \in mode[f]

\* A lower file that does not allow writing is replaced only by one that does,
\* and one that does is never replaced.
WriterInv ==
    /\ \A f \in Files : fpc[f] # "closed" => mode[f] \in OpenModes
    /\ lower # NoHandle => {"R", "SEEK"} \subseteq hmode[lower]
    /\ \A f \in Files :
        /\ fpc[f] \in Using => lower # NoHandle \/ \E g \in Files : fpc[g] = "assign"
        /\ fpc[f] \in Replacing /\ lower # NoHandle => "W" \in mode[f] /\ "W" \notin hmode[lower]
        /\ fpc[f] \in Holding => hmode[tmp[f]] = OpenedMode(mode[f])
        /\ fpc[f] = "assign" /\ (\E g \in Files : fpc[g] \in Using) => "W" \in mode[f]
    /\ Writers => /\ lower # NoHandle /\ "W" \in hmode[lower]
                  /\ \A g \in Files : fpc[g] \notin Replacing

WInv == PInv /\ WriterInv

-----------------------------------------------------------------------------
\* One more or one fewer makes a finite set's cardinality one more or one less.
LEMMA OneMore ==
  ASSUME NEW S, NEW T, NEW x, IsFiniteSet(S), x \notin S, T = S \cup {x}
  PROVE  Cardinality(T) = Cardinality(S) + 1 /\ Cardinality(S) \in Nat
BY FS_AddElement, FS_CardinalityType

LEMMA OneLess ==
  ASSUME NEW S, NEW T, NEW x, IsFiniteSet(S), x \in S, T = S \ {x}
  PROVE  /\ Cardinality(T) = Cardinality(S) - 1
         /\ Cardinality(S) \in Nat /\ Cardinality(T) \in Nat
BY FS_RemoveElement, FS_CardinalityType

LEMMA CountsAreFinite == /\ IsFiniteSet(OpenHandles) /\ IsFiniteSet(Openers)
                         /\ Cardinality(OpenHandles) \in Nat /\ Cardinality(Openers) \in Nat
BY SlotsAreFinite, FS_Subset, FS_CardinalityType DEF OpenHandles, Openers

\* The references are those of the open files and of the openers: an opener takes
\* one, gives it to the file it opened or drops it, and a closed file drops its own.
LEMMA OpenFileKeepsRefs ==
  ASSUME PInv, NEW f \in Files, (\E m \in OpenModes : Open(f, m)) \/ OpenStep(f) \/ UseStep(f)
  PROVE  RefsInv' /\ pathRefs' \in Nat
<1> USE DEF PInv, TypeOK, At
<1>1. CASE TakePath(f)
  <2>1. OpenHandles' = OpenHandles /\ Openers' = Openers \cup {f} /\ f \notin Openers
    BY <1>1 DEF TakePath, OpenHandles, Openers
  <2>2. pathRefs' = pathRefs + 1
    BY <1>1 DEF TakePath
  <2> QED
    BY <2>1, <2>2, OneMore, CountsAreFinite DEF RefsInv
<1>2. CASE OpenLower(f)
  <2>1. PICK h \in Handles : ~isOpen[h] /\ isOpen' = [isOpen EXCEPT ![h] = TRUE]
    BY <1>2 DEF OpenLower, Unreferenced
  <2>2. OpenHandles' = OpenHandles \cup {h} /\ h \notin OpenHandles
    BY <2>1 DEF OpenHandles
  <2>3. Openers' = Openers \ {f} /\ f \in Openers
    BY <1>2 DEF OpenLower, Openers
  <2>4. pathRefs' = pathRefs
    BY <1>2 DEF OpenLower
  <2>5. Cardinality(OpenHandles') = Cardinality(OpenHandles) + 1
    BY <2>2, OneMore, CountsAreFinite
  <2>6. Cardinality(Openers') = Cardinality(Openers) - 1
    BY <2>3, OneLess, CountsAreFinite
  <2> QED
    BY <2>4, <2>5, <2>6, CountsAreFinite DEF RefsInv
<1>3. CASE OpenLowerFails(f)
  <2>1. OpenHandles' = OpenHandles /\ Openers' = Openers \ {f} /\ f \in Openers
    BY <1>3 DEF OpenLowerFails, OpenHandles, Openers
  <2>2. pathRefs' = pathRefs - 1
    BY <1>3 DEF OpenLowerFails
  <2> QED
    BY <2>1, <2>2, OneLess, CountsAreFinite DEF RefsInv
<1>4. CASE DropOldLower(f) /\ lower # NoHandle
  <2>1. isOpen[lower] /\ OpenHandles' = OpenHandles \ {lower} /\ Openers' = Openers
    BY <1>4 DEF DropOldLower, Fput, OpenHandles, Openers, HandleInv, MutexInv, InMutex
  <2>2. pathRefs' = pathRefs - 1 /\ lower \in OpenHandles
    BY <1>4, <2>1 DEF DropOldLower, Fput, OpenHandles
  <2>3. Cardinality(OpenHandles') = Cardinality(OpenHandles) - 1 /\ Cardinality(OpenHandles') \in Nat
    BY <2>1, <2>2, OneLess, CountsAreFinite
  <2> QED
    BY <2>1, <2>2, <2>3, CountsAreFinite DEF RefsInv
<1>5. CASE \/ DropOldLower(f) /\ lower = NoHandle
           \/ (\E m \in OpenModes : Open(f, m)) \/ LockToOpen(f) \/ KeepLower(f) \/ OpenFails(f)
           \/ ClearLower(f) \/ AssignLower(f) \/ UnlockAfterOpen(f) \/ SetFileLower(f) \/ UseStep(f)
  <2>1. isOpen' = isOpen /\ pathRefs' = pathRefs /\ Openers' = Openers
    BY <1>5 DEF DropOldLower, Open, LockToOpen, KeepLower, OpenFails, ClearLower, AssignLower,
      UnlockAfterOpen, SetFileLower, UseStep, StartIo, LockForIo, Io, MmapStore, Close, Release, Openers
  <2> QED
    BY <2>1 DEF RefsInv, OpenHandles
<1> QED
  BY <1>1, <1>2, <1>3, <1>4, <1>5 DEF OpenStep

-----------------------------------------------------------------------------
LEMMA OpenFileKeepsHandles ==
  ASSUME PInv, NEW f \in Files, (\E m \in OpenModes : Open(f, m)) \/ OpenStep(f) \/ UseStep(f)
  PROVE  TypeOK' /\ MutexInv' /\ HandleInv'
<1>a. pathRefs' \in Nat
  BY OpenFileKeepsRefs
<1> USE NullsAreNull, <1>a DEF PInv, TypeOK, MutexInv, HandleInv, At, Lock, Unlock, Pcs, InMutex, Holding
<1>0. CASE \E m \in OpenModes : Open(f, m)
  BY <1>0 DEF Open, OpenModes, Bits, SingleLowerFile
<1>1. CASE LockToOpen(f)
  BY <1>1 DEF LockToOpen, SingleLowerFile
<1>2. CASE KeepLower(f)
  BY <1>2 DEF KeepLower, SingleLowerFile
<1>3. CASE TakePath(f)
  BY <1>3 DEF TakePath, SingleLowerFile
<1>4. CASE OpenLower(f)
  BY <1>4 DEF OpenLower, SingleLowerFile, Unreferenced, OpenedMode, Bits
<1>5. CASE OpenLowerFails(f)
  BY <1>5 DEF OpenLowerFails, SingleLowerFile
<1>6. CASE OpenFails(f)
  BY <1>6 DEF OpenFails, SingleLowerFile
<1>7. CASE DropOldLower(f) /\ lower = NoHandle
  BY <1>7 DEF DropOldLower, SingleLowerFile
<1>18. CASE DropOldLower(f) /\ lower # NoHandle
  <2>1. tmp[f] # lower /\ mutex = f /\ fpc'[f] = "clear" /\ isOpen' = [isOpen EXCEPT ![lower] = FALSE]
    BY <1>18 DEF DropOldLower, Fput
  <2> QED
    BY <1>18, <2>1 DEF DropOldLower, SingleLowerFile
<1>8. CASE ClearLower(f)
  BY <1>8 DEF ClearLower, SingleLowerFile
<1>9. CASE AssignLower(f)
  BY <1>9 DEF AssignLower, SingleLowerFile
<1>10. CASE UnlockAfterOpen(f)
  BY <1>10 DEF UnlockAfterOpen, SingleLowerFile
<1>11. CASE SetFileLower(f)
  BY <1>11 DEF SetFileLower, SingleLowerFile
<1>12. CASE StartIo(f)
  BY <1>12 DEF StartIo, SingleLowerFile
<1>13. CASE LockForIo(f)
  BY <1>13 DEF LockForIo, SingleLowerFile
<1>14. CASE Io(f)
  BY <1>14 DEF Io, SingleLowerFile
<1>15. CASE MmapStore(f)
  BY <1>15 DEF MmapStore, SingleLowerFile
<1>16. CASE Close(f)
  BY <1>16 DEF Close, SingleLowerFile
<1>17. CASE Release(f)
  BY <1>17 DEF Release, SingleLowerFile
<1> QED
  BY <1>0, <1>1, <1>2, <1>3, <1>4, <1>5, <1>6, <1>7, <1>8, <1>9, <1>10, <1>11, <1>12, <1>13, <1>14, <1>15, <1>16, <1>17, <1>18 DEF OpenStep, UseStep

\* Writeback, and the end of the inode.
LEMMA InodeKeepsInv ==
  ASSUME PInv, Writeback \/ DestroyInode
  PROVE  PInv'
<1> USE NullsAreNull DEF PInv, TypeOK, MutexInv, HandleInv, InMutex, Holding
<1>1. CASE Writeback
  <2>1. OpenHandles' = OpenHandles /\ Openers' = Openers /\ pathRefs' = pathRefs
    BY <1>1 DEF Writeback, OpenHandles, Openers
  <2>2. RefsInv'
    BY <2>1 DEF RefsInv
  <2> QED
    BY <1>1, <2>2 DEF Writeback, SingleLowerFile
<1>2. CASE DestroyInode
  <2>1. OpenHandles' = OpenHandles \ {lower} /\ lower \in OpenHandles /\ Openers' = Openers
    BY <1>2 DEF DestroyInode, Fput, OpenHandles, Openers
  <2>2. Cardinality(OpenHandles') = Cardinality(OpenHandles) - 1 /\ Cardinality(OpenHandles') \in Nat
    BY <2>1, OneLess, CountsAreFinite
  <2>3. pathRefs' = pathRefs - 1
    BY <1>2 DEF DestroyInode, Fput
  <2>4. RefsInv' /\ pathRefs' \in Nat
    BY <2>1, <2>2, <2>3, CountsAreFinite DEF RefsInv
  <2>5. SingleLowerFile'
    BY <1>2 DEF DestroyInode, Fput, SingleLowerFile
  <2> QED
    BY <1>2, <2>4, <2>5 DEF DestroyInode, Fput
<1> QED
  BY <1>1, <1>2

LEMMA InitInv == Init => PInv
<1> SUFFICES ASSUME Init PROVE PInv
  OBVIOUS
<1>1. OpenHandles = {} /\ Openers = {}
  BY DEF Init, OpenHandles, Openers
<1>2. RefsInv
  BY <1>1, FS_EmptySet DEF Init, RefsInv
<1> QED
  BY <1>2, NullsAreNull DEF Init, PInv, TypeOK, Pcs, MutexInv, InMutex, HandleInv, Holding, SingleLowerFile

LEMMA NextInv == PInv /\ [Next]_vars => PInv'
<1> SUFFICES ASSUME PInv, [Next]_vars PROVE PInv'
  OBVIOUS
<1>1. CASE \E f \in Files : (\E m \in OpenModes : Open(f, m)) \/ OpenStep(f) \/ UseStep(f)
  BY <1>1, OpenFileKeepsRefs, OpenFileKeepsHandles DEF PInv
<1>2. CASE UNCHANGED vars
  BY <1>2 DEF vars, PInv, TypeOK, MutexInv, HandleInv, SingleLowerFile, RefsInv, OpenHandles, Openers
<1> QED
  BY <1>1, <1>2, InodeKeepsInv DEF Next

\* The path references balance, on every way an open can end, and one lower file
\* is kept, for any lower filesystem.
THEOREM ReferencesBalance == Spec => []PathRefsBalance
<1>1. PInv => PathRefsBalance
  BY DEF PInv, PathRefsBalance, RefsInv, OpenHandles, Openers
<1> QED
  BY <1>1, InitInv, NextInv, PTL DEF Spec

THEOREM OneLowerFile == Spec => []SingleLowerFile
<1>1. PInv => SingleLowerFile
  BY DEF PInv, HandleInv
<1> QED
  BY <1>1, InitInv, NextInv, PTL DEF Spec

-----------------------------------------------------------------------------
\* What a file is opened for never gets less.
LEMMA OpenFileKeepsWriters ==
  ASSUME LowerSeekable, WInv, NEW f \in Files,
         (\E m \in OpenModes : Open(f, m)) \/ OpenStep(f) \/ UseStep(f)
  PROVE  WriterInv'
<1> USE NullsAreNull DEF WInv, PInv, TypeOK, MutexInv, HandleInv, WriterInv, Writers, At, Lock, Unlock, Pcs, InMutex,
   Holding, Replacing, Using
<1>0. CASE \E m \in OpenModes : Open(f, m)
  BY <1>0 DEF Open
<1>1. CASE LockToOpen(f)
  BY <1>1 DEF LockToOpen
<1>2. CASE KeepLower(f)
  BY <1>2 DEF KeepLower, Sufficient, OpenModes
<1>3. CASE TakePath(f)
  BY <1>3 DEF TakePath, Sufficient, OpenModes
<1>4. CASE OpenLower(f)
  BY <1>4 DEF OpenLower, Unreferenced, OpenedMode, OpenModes
<1>5. CASE OpenLowerFails(f)
  BY <1>5 DEF OpenLowerFails
<1>6. CASE OpenFails(f)
  BY <1>6 DEF OpenFails
<1>7. CASE DropOldLower(f)
  BY <1>7 DEF DropOldLower, Fput
<1>8. CASE ClearLower(f)
  BY <1>8 DEF ClearLower
<1>9. CASE AssignLower(f)
  BY <1>9 DEF AssignLower, OpenedMode
<1>10. CASE UnlockAfterOpen(f)
  BY <1>10 DEF UnlockAfterOpen
<1>11. CASE SetFileLower(f)
  BY <1>11 DEF SetFileLower
<1>12. CASE StartIo(f)
  BY <1>12 DEF StartIo
<1>13. CASE LockForIo(f)
  BY <1>13 DEF LockForIo
<1>14. CASE Io(f)
  BY <1>14 DEF Io
<1>15. CASE MmapStore(f)
  BY <1>15 DEF MmapStore
<1>16. CASE Close(f)
  BY <1>16 DEF Close
<1>17. CASE Release(f)
  BY <1>17 DEF Release
<1> QED
  BY <1>0, <1>1, <1>2, <1>3, <1>4, <1>5, <1>6, <1>7, <1>8, <1>9, <1>10, <1>11, <1>12, <1>13, <1>14, <1>15, <1>16, <1>17 DEF OpenStep, UseStep

LEMMA WritersInit == Init => WriterInv
BY DEF Init, WriterInv, Writers, Using, Replacing, Holding

LEMMA WritersNext ==
  ASSUME LowerSeekable PROVE WInv /\ [Next]_vars => WriterInv'
<1> SUFFICES ASSUME WInv, [Next]_vars PROVE WriterInv'
  OBVIOUS
<1>1. CASE \E f \in Files : (\E m \in OpenModes : Open(f, m)) \/ OpenStep(f) \/ UseStep(f)
  BY <1>1, OpenFileKeepsWriters
<1>2. CASE Writeback
  BY <1>2 DEF Writeback, WInv, WriterInv, Writers
<1>3. CASE DestroyInode
  BY <1>3 DEF DestroyInode, WInv, WriterInv, Writers, Using, Replacing, Holding
<1>4. CASE UNCHANGED vars
  BY <1>4 DEF vars, WInv, WriterInv, Writers
<1> QED
  BY <1>1, <1>2, <1>3, <1>4 DEF Next

LEMMA WritersAlways ==
  ASSUME LowerSeekable PROVE Spec => []WInv
BY InitInv, NextInv, WritersInit, WritersNext, PTL DEF Spec, WInv

\* Over a lower filesystem with seekable files, page I/O finds a lower file that
\* allows it, whatever was opened and closed before.
THEOREM IoAlwaysFindsHandle ==
  ASSUME LowerSeekable PROVE Spec => []IoFindsHandle
<1>1. ASSUME WInv PROVE IoFindsHandle
  <2> SUFFICES ASSUME NEW f \in Files, fpc[f] = "io"
               PROVE  Usable(lower, {"R"} \cup (mode[f] \cap {"W"}))
    BY DEF IoFindsHandle
  <2>1. mutex = f /\ \A g \in Files : fpc[g] \notin {"assign", "clear"}
    BY <1>1 DEF WInv, PInv, MutexInv, InMutex
  <2>2. lower # NoHandle /\ isOpen[lower] /\ "R" \in hmode[lower]
    BY <1>1, <2>1 DEF WInv, PInv, HandleInv, WriterInv, Using
  <2>3. "W" \in mode[f] => "W" \in hmode[lower]
    BY <1>1 DEF WInv, WriterInv, Writers, Using
  <2> QED
    BY <2>2, <2>3 DEF Usable
<1> QED
  BY <1>1, WritersAlways, PTL

\* Pages dirtied through a mapping can be written back at any time.
THEOREM WritebackAlwaysFindsHandle ==
  ASSUME LowerSeekable PROVE Spec => []WritebackFindsHandle
<1>1. ASSUME WInv PROVE WritebackFindsHandle
  BY <1>1 DEF WInv, PInv, HandleInv, WriterInv, Writers, Replacing, WritebackFindsHandle, Usable
<1> QED
  BY <1>1, WritersAlways, PTL

\* "The read/write handle will never be demoted to a read-only handle!"
THEOREM WritersAreKept ==
  ASSUME LowerSeekable PROVE Spec => NeverDemoted
<1> DEFINE Kept == \A h \in Handles :
             isOpen[h] /\ ~isOpen'[h] /\ "W" \in hmode[h] => mutex = NoFile \/ "W" \in hmode[tmp[mutex]]
<1>1. ASSUME WInv, [Next]_vars PROVE [Kept]_vars
  <2>1. CASE \E f \in Files : DropOldLower(f)
    <3>1. PICK f \in Files : DropOldLower(f)
      BY <2>1
    <3>2. \A h \in Handles : isOpen[h] /\ ~isOpen'[h] => h = lower
      BY <1>1, <3>1 DEF DropOldLower, Fput, WInv, PInv, TypeOK
    <3>3. lower # NoHandle => "W" \notin hmode[lower]
      BY <1>1, <3>1 DEF DropOldLower, At, WInv, WriterInv, Replacing
    <3> QED
      BY <3>2, <3>3, NullsAreNull
  <2>2. CASE DestroyInode
    BY <1>1, <2>2 DEF DestroyInode, WInv, PInv, TypeOK, MutexInv, InMutex
  <2>3. CASE ~(\E f \in Files : DropOldLower(f)) /\ ~DestroyInode
    <3>1. \A h \in Handles : isOpen[h] => isOpen'[h]
      BY <1>1, <2>3 DEF Next, OpenStep, UseStep, vars, Open, LockToOpen, KeepLower, TakePath, OpenLower, OpenLowerFails,
        OpenFails, ClearLower, AssignLower, UnlockAfterOpen, SetFileLower, StartIo, LockForIo, Io, MmapStore,
        Close, Release, Writeback, WInv, PInv, TypeOK
    <3> QED
      BY <3>1
  <2> QED
    BY <2>1, <2>2, <2>3
<1> QED
  BY <1>1, WritersAlways, PTL DEF Spec, NeverDemoted
=============================================================================
