--------------------------- MODULE LofsPagesProofs ---------------------------
(***************************************************************************)
(* Theorems about LofsPages, for any tasks, pages, stores and scenarios.     *)
(***************************************************************************)
EXTENDS LofsPages, FiniteSetTheorems, TLAPS

-----------------------------------------------------------------------------
(* Cells and pages: cell i of page p is cell p * PageSize + i of the file.    *)

LEMMA PagesAreApart ==
  ASSUME NEW p \in Nat, NEW q \in Nat, p < q
  PROVE  p * PageSize + PageSize <= q * PageSize /\ p * PageSize \in Nat /\ q * PageSize \in Nat
<1>1. q * PageSize = (p + 1) * PageSize + (q - p - 1) * PageSize
  BY PageBounds
<1>2. (q - p - 1) * PageSize >= 0
  BY PageBounds
<1> QED
  BY <1>1, <1>2, PageBounds

LEMMA PagesFit ==
  ASSUME NEW p \in Pages
  PROVE  p * PageSize + PageSize <= NumPages * PageSize /\ p * PageSize \in Nat /\ p \in Nat
         /\ NumPages * PageSize \in Nat
BY PagesAreApart, PageBounds DEF Pages

\* The page of a cell, and its place in it.
LEMMA CellsHavePages ==
  ASSUME NEW c \in Nat \ {0}
  PROVE  /\ (c - 1) \div PageSize \in Nat
         /\ c - ((c - 1) \div PageSize) * PageSize \in 1..PageSize
BY PageBounds

LEMMA SizeHasPage ==
  ASSUME NEW n \in Nat
  PROVE  /\ n \div PageSize \in Nat /\ n % PageSize \in 0..(PageSize - 1)
         /\ (n \div PageSize) * PageSize \in Nat
         /\ n = (n \div PageSize) * PageSize + (n % PageSize)
BY PageBounds

-----------------------------------------------------------------------------
(* What the operators on the lower file return.                             *)

LEMMA ResizedType ==
  ASSUME NEW n \in Nat, lower \in Seq(Vals)
  PROVE  /\ Resized(n) \in Seq(Vals) /\ Len(Resized(n)) = n
         /\ \A c \in 1..n : Resized(n)[c] = IF c <= Len(lower) THEN lower[c] ELSE 0
BY PageBounds DEF Resized, Vals

\* The size of the file when n cells were written at cell offset.
WrittenEnd(offset, n) == IF n = 0 \/ offset + n < Len(lower) THEN Len(lower) ELSE offset + n

LEMMA WrittenType ==
  ASSUME NEW offset \in Nat, NEW p \in Pages, NEW n \in 0..PageSize, lower \in Seq(Vals),
         pdata \in [Pages -> [1..PageSize -> Vals]]
  PROVE  /\ WrittenAt(offset, p, n) \in Seq(Vals)
         /\ Len(WrittenAt(offset, p, n)) = WrittenEnd(offset, n)
         /\ WrittenEnd(offset, n) \in Nat /\ WrittenEnd(offset, n) >= Len(lower)
         /\ \A c \in 1..WrittenEnd(offset, n) : WrittenAt(offset, p, n)[c] =
                IF c > offset /\ c <= offset + n THEN pdata[p][c - offset]
                ELSE IF c <= Len(lower) THEN lower[c] ELSE 0
<1> DEFINE end == WrittenEnd(offset, n)
           cell(c) == IF c > offset /\ c <= offset + n THEN pdata[p][c - offset]
                      ELSE IF c <= Len(lower) THEN lower[c] ELSE 0
<1>1. end \in Nat /\ end >= Len(lower) /\ Len(lower) \in Nat
  BY PageBounds DEF WrittenEnd
<1>2. \A c \in 1..end : cell(c) \in Vals
  BY PageBounds DEF Vals
<1>3. WrittenAt(offset, p, n) = [c \in 1..end |-> cell(c)]
  BY DEF WrittenAt, WrittenEnd
<1> HIDE DEF end, cell
<1>4. WrittenAt(offset, p, n) \in Seq(Vals) /\ Len(WrittenAt(offset, p, n)) = end
      /\ \A c \in 1..end : WrittenAt(offset, p, n)[c] = cell(c)
  BY <1>1, <1>2, <1>3
<1> QED
  BY <1>1, <1>4 DEF end, cell

LEMMA LowerPageType ==
  ASSUME NEW p \in Pages, lower \in Seq(Vals)
  PROVE  LowerPage(p) \in [1..PageSize -> Vals]
BY PagesFit, PageBounds DEF LowerPage, Vals

LEMMA OutcomesType ==
  ASSUME NEW n \in 0..PageSize, NEW o \in Outcomes(n)
  PROVE  /\ o.cells \in 0..n /\ o.error \in BOOLEAN
         /\ o.error => o.cells = 0
         /\ ~o.error /\ "short_write" \notin scenario.faults => o.cells = n
         /\ ~o.error => (o.cells = 0 <=> n = 0)
         /\ LowerTakesAll => ~o.error /\ o.cells = n
<1>1. n \in Nat
  BY PageBounds
<1>2. CASE o = [cells |-> n, error |-> FALSE]
  BY <1>1, <1>2
<1>3. ASSUME "short_write" \in scenario.faults, NEW k \in 1..(n - 1),
             o = [cells |-> k, error |-> FALSE]
      PROVE  o.cells \in 0..n /\ o.error = FALSE /\ ~LowerTakesAll /\ o.cells # 0 /\ n # 0
  BY <1>1, <1>3 DEF LowerTakesAll
<1>4. CASE "write_error" \in scenario.faults /\ n > 0 /\ o = [cells |-> 0, error |-> TRUE]
  BY <1>1, <1>4 DEF LowerTakesAll
<1>5. \/ o = [cells |-> n, error |-> FALSE]
      \/ "short_write" \in scenario.faults /\ \E k \in 1..(n - 1) : o = [cells |-> k, error |-> FALSE]
      \/ "write_error" \in scenario.faults /\ n > 0 /\ o = [cells |-> 0, error |-> TRUE]
  BY DEF Outcomes
<1>6. CASE "short_write" \in scenario.faults /\ \E k \in 1..(n - 1) : o = [cells |-> k, error |-> FALSE]
  BY <1>3, <1>6
<1> QED
  BY <1>2, <1>4, <1>5, <1>6

LEMMA PageLengthType ==
  ASSUME NEW p \in Pages, isize \in Nat
  PROVE  /\ PageLength(p) \in 0..PageSize
         /\ PageLength(p) = 0 \/ p * PageSize + PageLength(p) <= isize
         /\ \A i \in 1..PageSize : p * PageSize + i <= isize => i <= PageLength(p)
<1>1. (p + 1) * PageSize = p * PageSize + PageSize /\ p * PageSize \in Nat
  BY PagesFit, PageBounds
<1> QED
  BY <1>1, PageBounds DEF PageLength

LEMMA OffsetFits ==
  ASSUME NEW p \in Pages
  PROVE  WritepageOffset(p) \in Nat /\ WritepageOffset(p) <= p * PageSize
<1>1. \A x \in Nat : x % OffsetSpan \in Nat /\ x % OffsetSpan <= x
  BY PageBounds
<1> QED
  BY <1>1, PagesFit DEF WritepageOffset

-----------------------------------------------------------------------------
(* Who has which lock, and what is known of a page meanwhile.               *)

FillPcs == {"r_fill", "w_fill"}
CopyPcs == {"w_copy", "w_push", "w_end"}
WritebackPcs == {"f_size", "f_push", "s_size", "s_push"}
UsingPcs == FillPcs \cup CopyPcs \cup WritebackPcs

RolesInv ==
    /\ pc[Flusher] \in {"idle", "f_size", "f_push"}
    /\ \A t \in Tasks : pc[t] \notin {"f_size", "f_push"}

MutexInv == \A t \in Tasks : imutex = t <=> pc[t] \in WritePcs \cup TruncPcs

LockInv ==
    \A t \in Actors :
        /\ pc[t] \in UsingPcs \cup {"w_grab", "s_lock"} => at[t] \in Pages
        /\ pc[t] \in UsingPcs => plock[at[t]] = t /\ at[t] \in cached
        /\ pc[t] \in CopyPcs \cup WritebackPcs => at[t] \in uptodate
        /\ pc[t] \in FillPcs => at[t] \notin uptodate
        /\ pc[t] \in WritePcs => from[t] <= to[t]
        /\ pc[t] \in TruncPcs => arg[t] <= NumPages * PageSize

\* A dirty page that is not up to date is one whose writeback failed: it stays locked.
StuckInv ==
    \A p \in dirty \ uptodate :
        plock[p] # NoOne /\ \A t \in Actors : pc[t] \in UsingPcs => at[t] # p

ActorTypes ==
    /\ pc \in [Actors -> Pcs]
    /\ at \in [Actors -> 0..NumPages]
    /\ from \in [Actors -> 0..PageSize]
    /\ to \in [Actors -> 0..PageSize]
    /\ arg \in [Actors -> Nat]
    /\ ok \in [Actors -> BOOLEAN]
    /\ want \in [Actors -> Seq(Vals)]

FileTypes ==
    /\ scenario \in Scenarios
    /\ lower \in Seq(Vals) /\ Len(lower) <= NumPages * PageSize
    /\ isize \in 0..(NumPages * PageSize)
    /\ imutex \in Tasks \cup {NoOne}
    /\ clock \in Vals

PageTypes ==
    /\ dirty \subseteq cached /\ uptodate \subseteq cached /\ tagged \subseteq cached
    /\ cached \subseteq Pages
    /\ plock \in [Pages -> Actors \cup {NoOne}]
    /\ pdata \in [Pages -> [1..PageSize -> Vals]]

Types == ActorTypes /\ FileTypes /\ PageTypes

LockedInv == Types /\ RolesInv /\ MutexInv /\ LockInv /\ StuckInv

\* Bound: the stores of a behaviour.
Storing == {t \in Tasks : pc[t] \in {"w_grab", "w_fill", "w_copy"}}
StoresInv == clock + Cardinality(Storing) <= scenario.stores

LEMMA StoresFit ==
  ASSUME Types, StoresInv
  PROVE  /\ Cardinality(Storing) \in Nat /\ IsFiniteSet(Storing)
         /\ Storing # {} => clock + 1 \in Vals
         /\ StoresLeft => clock + 1 \in Vals
<1>1. Storing \in SUBSET Tasks
  BY DEF Storing
<1>2. IsFiniteSet(Storing) /\ Cardinality(Storing) \in Nat
  BY <1>1, TasksAreFinite, FS_Subset, FS_CardinalityType
<1>3. Storing # {} => Cardinality(Storing) # 0
  BY <1>2, FS_EmptySet
<1>4. scenario.stores \in 0..MaxVal
  BY ScenariosAreKnown DEF Types, FileTypes, ScenarioSet
<1>5. clock \in Nat
  BY PageBounds DEF Types, FileTypes, Vals
<1>6. Storing # {} => clock + 1 <= MaxVal
  <2>1. PICK n \in Nat : n = Cardinality(Storing)
    BY <1>2
  <2>2. clock + n <= scenario.stores /\ scenario.stores \in Nat /\ scenario.stores <= MaxVal
    BY <1>4, <2>1, PageBounds DEF StoresInv
  <2> QED
    BY <1>3, <1>5, <2>1, <2>2, PageBounds
<1>7. StoresLeft => clock + 1 <= MaxVal
  BY <1>2, <1>4, <1>5, PageBounds DEF StoresLeft, Storing
<1> QED
  BY <1>2, <1>5, <1>6, <1>7, PageBounds DEF Vals

\* The file as its user sees it has the size of the inode.
LEMMA ViewType ==
  ASSUME Types
  PROVE  /\ View \in Seq(Vals) /\ Len(View) = isize
<1>1. ASSUME NEW c \in 1..isize
      PROVE  /\ (c - 1) \div PageSize \in Nat
             /\ c - ((c - 1) \div PageSize) * PageSize \in 1..PageSize
  <2>1. c \in Nat \ {0}
    BY PageBounds DEF Types, FileTypes, PageTypes
  <2> QED
    BY <2>1, CellsHavePages
<1> DEFINE p(c) == (c - 1) \div PageSize
           seen(c) == IF p(c) \in uptodate THEN pdata[p(c)][c - p(c) * PageSize]
                      ELSE IF c <= Len(lower) THEN lower[c] ELSE 0
           view(c) == IF \E t \in Tasks : pc[t] \in WritePcs /\ arg[t] = seen(c) THEN 0 ELSE seen(c)
<1>2. View = [c \in 1..isize |-> view(c)]
  BY DEF View
<1>3. \A c \in 1..isize : seen(c) \in Vals
  BY <1>1, PageBounds DEF Types, FileTypes, PageTypes, Vals
<1>4. \A c \in 1..isize : view(c) \in Vals
  BY <1>3, PageBounds DEF Vals
<1>5. isize \in Nat
  BY PageBounds DEF Types, FileTypes, PageTypes
<1> HIDE DEF view
<1> QED
  BY <1>2, <1>4, <1>5

LEMMA FinishTypes ==
  ASSUME ActorTypes, NEW t \in Actors, Finish(t)
  PROVE  ActorTypes'
<1>1. <<>> \in Seq(Vals) /\ 0 \in 0..PageSize /\ 0 \in 0..NumPages /\ "idle" \in Pcs
  BY PageBounds DEF Pcs
<1> QED
  BY <1>1 DEF Finish, ActorTypes

LEMMA WriteKeepsLocked ==
  ASSUME LockedInv, StoresInv, NEW t \in Tasks,
         \/ WriteStep(t)
         \/ \E p \in Pages, i \in 0..(PageSize - 1) : \E n \in 1..(PageSize - i) : WriteStart(t, p, i, n)
  PROVE  LockedInv'
<1> USE PageBounds, ActorsAreDistinct DEF LockedInv, Goto, Actors, fileVars, pageVars
<1>1. ASSUME NEW p \in Pages, NEW i \in 0..(PageSize - 1), NEW n \in 1..(PageSize - i),
             WriteStart(t, p, i, n)
      PROVE  LockedInv'
  <2>1. p \in 0..NumPages /\ i \in 0..PageSize /\ i + n \in 0..PageSize /\ i <= i + n
    BY DEF Pages
  <2>2. Types'
    BY <1>1, <2>1 DEF WriteStart, LockInode, Types, ActorTypes, FileTypes, PageTypes, Pcs,
       WritePcs, TruncPcs, SyncPcs
  <2>3. RolesInv' /\ MutexInv'
    BY <1>1 DEF WriteStart, LockInode, Types, ActorTypes, FileTypes, RolesInv, MutexInv,
       WritePcs, TruncPcs
  <2>4. LockInv'
    BY <1>1, <2>1 DEF WriteStart, LockInode, Types, ActorTypes, PageTypes, LockInv,
       FillPcs, CopyPcs, WritebackPcs, UsingPcs, WritePcs, TruncPcs
  <2>5. StuckInv'
    BY <1>1 DEF WriteStart, LockInode, Types, ActorTypes, PageTypes, LockInv, StuckInv,
       FillPcs, CopyPcs, WritebackPcs, UsingPcs
  <2> QED
    BY <2>2, <2>3, <2>4, <2>5
<1>2. CASE WriteGrab(t)
  <2>1. Zeros \in [1..PageSize -> Vals]
    BY DEF Zeros, Vals
  <2>2. pdata' \in [Pages -> [1..PageSize -> Vals]] /\ cached' = cached \cup {at[t]}
    BY <1>2, <2>1 DEF WriteGrab, NewPage, Types, PageTypes
  <2>3. at[t] \in Pages
    BY <1>2 DEF WriteGrab, LockInv
  <2>4. Types'
    BY <1>2, <2>2, <2>3 DEF WriteGrab, LockPage, Types, ActorTypes, FileTypes, PageTypes,
       Pcs, WritePcs, TruncPcs, SyncPcs
  <2>5. RolesInv' /\ MutexInv'
    BY <1>2 DEF WriteGrab, LockPage, Types, ActorTypes, FileTypes, RolesInv, MutexInv,
       WritePcs, TruncPcs
  <2>6. LockInv'
    BY <1>2, <2>2, <2>3 DEF WriteGrab, LockPage, Types, ActorTypes, PageTypes, LockInv,
       FillPcs, CopyPcs, WritebackPcs, UsingPcs, WritePcs, TruncPcs
  <2>7. StuckInv'
    BY <1>2, <2>2, <2>3 DEF WriteGrab, LockPage, Types, ActorTypes, PageTypes, LockInv,
       StuckInv, FillPcs, CopyPcs, WritebackPcs, UsingPcs
  <2> QED
    BY <2>4, <2>5, <2>6, <2>7
<1>3. CASE WriteFill(t)
  <2>1. at[t] \in Pages /\ LowerPage(at[t]) \in [1..PageSize -> Vals]
    BY <1>3, LowerPageType DEF WriteFill, LockInv, UsingPcs, FillPcs, Types, FileTypes
  <2>2. Types'
    BY ZenonT(30), <1>3, <2>1 DEF WriteFill, Types, ActorTypes, FileTypes, PageTypes, Pcs, WritePcs,
       TruncPcs, SyncPcs, LockInv, UsingPcs, FillPcs
  <2>3. RolesInv' /\ MutexInv'
    BY <1>3 DEF WriteFill, Types, ActorTypes, FileTypes, RolesInv, MutexInv, WritePcs,
       TruncPcs
  <2>4. LockInv'
    BY <1>3, <2>1 DEF WriteFill, Types, ActorTypes, PageTypes, LockInv, FillPcs, CopyPcs,
       WritebackPcs, UsingPcs, WritePcs, TruncPcs
  <2>5. StuckInv'
    BY <1>3, <2>1 DEF WriteFill, Types, ActorTypes, PageTypes, LockInv, StuckInv, FillPcs,
       CopyPcs, WritebackPcs, UsingPcs
  <2> QED
    BY <2>2, <2>3, <2>4, <2>5
<1>4. CASE WriteFillFails(t)
  <2>1. Types'
    BY <1>4 DEF WriteFillFails, Types, ActorTypes, FileTypes, PageTypes, Pcs, WritePcs,
       TruncPcs, SyncPcs
  <2>2. RolesInv' /\ MutexInv'
    BY <1>4 DEF WriteFillFails, Types, ActorTypes, FileTypes, RolesInv, MutexInv,
       WritePcs, TruncPcs
  <2>3. LockInv'
    BY <1>4 DEF WriteFillFails, Types, ActorTypes, PageTypes, LockInv, FillPcs, CopyPcs,
       WritebackPcs, UsingPcs, WritePcs, TruncPcs
  <2>4. StuckInv'
    BY <1>4 DEF WriteFillFails, Types, ActorTypes, PageTypes, LockInv, StuckInv, FillPcs,
       CopyPcs, WritebackPcs, UsingPcs
  <2> QED
    BY <2>1, <2>2, <2>3, <2>4
<1>5. CASE WriteCopy(t)
  <2>1. clock + 1 \in Vals /\ clock + 1 \in Nat
    BY <1>5, StoresFit DEF WriteCopy, Storing, Vals
  <2>2. PICK end \in from[t]..to[t] :
          /\ to' = [to EXCEPT ![t] = end]
          /\ pdata' = [pdata EXCEPT ![at[t]] =
                          [i \in 1..PageSize |->
                              IF i > from[t] /\ i <= end THEN clock + 1 ELSE @[i]]]
    BY <1>5 DEF WriteCopy
  <2>3. end \in 0..PageSize /\ from[t] <= end
    BY DEF Types, ActorTypes
  <2>4. pdata' \in [Pages -> [1..PageSize -> Vals]]
    BY <1>5, <2>1, <2>2 DEF WriteCopy, Types, PageTypes
  <2>5. Types'
    BY <1>5, <2>1, <2>2, <2>3, <2>4 DEF WriteCopy, Types, ActorTypes, FileTypes,
       PageTypes, Pcs, WritePcs, TruncPcs, SyncPcs
  <2>6. RolesInv' /\ MutexInv'
    BY <1>5 DEF WriteCopy, Types, ActorTypes, FileTypes, RolesInv, MutexInv, WritePcs,
       TruncPcs
  <2>7. LockInv'
    BY <1>5, <2>2, <2>3 DEF WriteCopy, Types, ActorTypes, PageTypes, LockInv, FillPcs,
       CopyPcs, WritebackPcs, UsingPcs, WritePcs, TruncPcs
  <2>8. StuckInv'
    BY <1>5 DEF WriteCopy, Types, ActorTypes, PageTypes, LockInv, StuckInv, FillPcs,
       CopyPcs, WritebackPcs, UsingPcs
  <2> QED
    BY <2>5, <2>6, <2>7, <2>8
<1>6. CASE WritePush(t)
  <2>1. PICK o \in Outcomes(to[t]) :
          /\ lower' = WrittenAt(at[t] * PageSize, at[t], o.cells)
          /\ ok' = [ok EXCEPT ![t] = ~o.error]
    BY <1>6 DEF WritePush
  <2>2. o.cells \in 0..PageSize /\ o.error \in BOOLEAN
    BY OutcomesType DEF Types, ActorTypes
  <2>3. at[t] \in Pages
    BY <1>6 DEF WritePush, LockInv, UsingPcs, CopyPcs
  <2>4. o.cells \in Nat /\ at[t] * PageSize \in Nat /\ at[t] * PageSize + o.cells <= NumPages * PageSize
    BY <2>2, <2>3, PagesFit
  <2>5. lower' \in Seq(Vals) /\ Len(lower') = WrittenEnd(at[t] * PageSize, o.cells)
    BY <2>1, <2>2, <2>3, <2>4, WrittenType DEF Types, FileTypes, PageTypes
  <2>6. WrittenEnd(at[t] * PageSize, o.cells) <= NumPages * PageSize
    BY <2>4, PagesFit DEF WrittenEnd, Types, FileTypes
  <2>7. Types'
    BY <1>6, <2>1, <2>2, <2>5, <2>6 DEF WritePush, Types, ActorTypes, FileTypes,
       PageTypes, Pcs, WritePcs, TruncPcs, SyncPcs
  <2>8. RolesInv' /\ MutexInv'
    BY <1>6 DEF WritePush, Types, ActorTypes, FileTypes, RolesInv, MutexInv, WritePcs,
       TruncPcs
  <2>9. LockInv'
    BY <1>6 DEF WritePush, Types, ActorTypes, PageTypes, LockInv, FillPcs, CopyPcs,
       WritebackPcs, UsingPcs, WritePcs, TruncPcs
  <2>10. StuckInv'
    BY <1>6 DEF WritePush, Types, ActorTypes, PageTypes, LockInv, StuckInv, FillPcs,
       CopyPcs, WritebackPcs, UsingPcs
  <2> QED
    BY <2>7, <2>8, <2>9, <2>10
<1>7. CASE WriteEnd(t)
  <2>1. Len(lower) \in 0..(NumPages * PageSize)
    BY DEF Types, FileTypes
  <2>2. at[t] \in Pages
    BY <1>7 DEF WriteEnd, LockInv, UsingPcs, CopyPcs
  <2>3. Types'
    BY <1>7, <2>1, <2>2 DEF WriteEnd, UnlockPage, Types, ActorTypes, FileTypes, PageTypes,
       Pcs, WritePcs, TruncPcs, SyncPcs
  <2>4. RolesInv' /\ MutexInv'
    BY <1>7 DEF WriteEnd, UnlockPage, Types, ActorTypes, FileTypes, RolesInv, MutexInv,
       WritePcs, TruncPcs
  <2>5. LockInv'
    BY SMTT(30), <1>7, <2>2 DEF WriteEnd, UnlockPage, Types, ActorTypes, PageTypes, LockInv,
       FillPcs, CopyPcs, WritebackPcs, UsingPcs, WritePcs, TruncPcs
  <2>6. StuckInv'
    BY <1>7, <2>2 DEF WriteEnd, UnlockPage, Types, ActorTypes, PageTypes, LockInv,
       StuckInv, FillPcs, CopyPcs, WritebackPcs, UsingPcs
  <2> QED
    BY <2>3, <2>4, <2>5, <2>6
<1>8. CASE WriteReturn(t)
  <2>1. ActorTypes'
    BY <1>8, FinishTypes DEF WriteReturn, Types
  <2>2. Types'
    BY <1>8, <2>1 DEF WriteReturn, Finish, UnlockInode, Types, ActorTypes, FileTypes,
       PageTypes, Pcs, WritePcs, TruncPcs, SyncPcs
  <2>3. RolesInv' /\ MutexInv'
    BY <1>8 DEF WriteReturn, Finish, UnlockInode, Types, ActorTypes, FileTypes, RolesInv,
       MutexInv, WritePcs, TruncPcs
  <2>4. LockInv'
    BY <1>8 DEF WriteReturn, Finish, UnlockInode, Types, ActorTypes, PageTypes, LockInv,
       FillPcs, CopyPcs, WritebackPcs, UsingPcs, WritePcs, TruncPcs
  <2>5. StuckInv'
    BY <1>8 DEF WriteReturn, Finish, UnlockInode, Types, ActorTypes, PageTypes, LockInv,
       StuckInv, FillPcs, CopyPcs, WritebackPcs, UsingPcs
  <2> QED
    BY <2>2, <2>3, <2>4, <2>5
<1> QED
  BY <1>1, <1>2, <1>3, <1>4, <1>5, <1>6, <1>7, <1>8 DEF WriteStep

LEMMA ReadKeepsLocked ==
  ASSUME LockedInv, StoresInv, NEW t \in Tasks,
         ReadFill(t) \/ (\E p \in Pages : ReadStart(t, p))
         \/ \E p \in Pages, i \in 1..PageSize : Store(t, p, i)
  PROVE  LockedInv'
<1> USE PageBounds, ActorsAreDistinct DEF LockedInv, Goto, Actors, fileVars, pageVars
<1>1. ASSUME NEW p \in Pages, ReadStart(t, p)
      PROVE  LockedInv'
  <2>1. Zeros \in [1..PageSize -> Vals]
    BY DEF Zeros, Vals
  <2>2. pdata' \in [Pages -> [1..PageSize -> Vals]] /\ cached' = cached \cup {p} /\ p \in 0..NumPages
    BY <1>1, <2>1 DEF ReadStart, NewPage, Types, PageTypes, Pages
  <2>3. Types'
    BY <1>1, <2>2 DEF ReadStart, LockPage, Types, ActorTypes, FileTypes, PageTypes, Pcs,
       WritePcs, TruncPcs, SyncPcs
  <2>4. RolesInv' /\ MutexInv'
    BY <1>1 DEF ReadStart, LockPage, Types, ActorTypes, FileTypes, RolesInv, MutexInv,
       WritePcs, TruncPcs
  <2>5. LockInv'
    BY SMTT(30), <1>1, <2>2 DEF ReadStart, LockPage, Types, ActorTypes, PageTypes, LockInv, FillPcs,
       CopyPcs, WritebackPcs, UsingPcs, WritePcs, TruncPcs
  <2>6. StuckInv'
    BY <1>1, <2>2 DEF ReadStart, LockPage, Types, ActorTypes, PageTypes, LockInv,
       StuckInv, FillPcs, CopyPcs, WritebackPcs, UsingPcs
  <2> QED
    BY <2>3, <2>4, <2>5, <2>6
<1>2. CASE ReadFill(t)
  <2>1. at[t] \in Pages /\ LowerPage(at[t]) \in [1..PageSize -> Vals]
    BY <1>2, LowerPageType DEF ReadFill, LockInv, UsingPcs, FillPcs, Types, FileTypes
  <2>2. at[t] \in cached /\ plock[at[t]] = t /\ at[t] \notin dirty
    BY <1>2 DEF ReadFill, LockInv, StuckInv, UsingPcs, FillPcs
  <2>3. ActorTypes'
    BY <1>2, FinishTypes DEF ReadFill, Types
  <2>4. Types'
    <3>1. FileTypes'
      BY <1>2 DEF ReadFill, Types, FileTypes
    <3>2. pdata' \in [Pages -> [1..PageSize -> Vals]]
      BY <1>2, <2>1 DEF ReadFill, Types, PageTypes
    <3>3. plock' \in [Pages -> Actors \cup {NoOne}]
      BY <1>2 DEF ReadFill, UnlockPage, Types, PageTypes
    <3>4. dirty' = dirty /\ cached' = cached /\ tagged' = tagged /\ uptodate' \subseteq cached
      BY <1>2, <2>2 DEF ReadFill, Types, PageTypes
    <3> QED
      BY <2>3, <3>1, <3>2, <3>3, <3>4 DEF Types, PageTypes
  <2>5. RolesInv' /\ MutexInv'
    BY <1>2 DEF ReadFill, UnlockPage, Types, ActorTypes, FileTypes, RolesInv, MutexInv,
       WritePcs, TruncPcs, Finish
  <2>6. LockInv'
    BY <1>2, <2>1, <2>2 DEF ReadFill, UnlockPage, Types, ActorTypes, PageTypes, LockInv,
       FillPcs, CopyPcs, WritebackPcs, UsingPcs, WritePcs, TruncPcs, Finish
  <2>7. StuckInv'
    BY <1>2, <2>1, <2>2 DEF ReadFill, UnlockPage, Types, ActorTypes, PageTypes, LockInv,
       StuckInv, FillPcs, CopyPcs, WritebackPcs, UsingPcs, Finish
  <2> QED
    BY <2>4, <2>5, <2>6, <2>7
<1>3. ASSUME NEW p \in Pages, NEW i \in 1..PageSize, Store(t, p, i)
      PROVE  LockedInv'
  <2>1. clock + 1 \in Vals
    BY <1>3, StoresFit DEF Store
  <2>2. pdata' \in [Pages -> [1..PageSize -> Vals]]
    BY <1>3, <2>1 DEF Store, Types, PageTypes
  <2>3. ActorTypes'
    BY <1>3 DEF Store, actorVars, Types, ActorTypes
  <2>4. Types'
    BY <1>3, <2>1, <2>2, <2>3 DEF Store, actorVars, Types, FileTypes, PageTypes
  <2>5. RolesInv' /\ MutexInv'
    BY <1>3 DEF Store, actorVars, Types, ActorTypes, FileTypes, RolesInv, MutexInv,
       WritePcs, TruncPcs
  <2>6. LockInv'
    BY <1>3 DEF Store, actorVars, Types, ActorTypes, PageTypes, LockInv, FillPcs, CopyPcs,
       WritebackPcs, UsingPcs, WritePcs, TruncPcs
  <2>7. StuckInv'
    BY <1>3 DEF Store, actorVars, Types, ActorTypes, PageTypes, LockInv, StuckInv,
       FillPcs, CopyPcs, WritebackPcs, UsingPcs
  <2> QED
    BY <2>4, <2>5, <2>6, <2>7
<1> QED
  BY <1>1, <1>2, <1>3 DEF Types

LEMMA WritepageEndTypes ==
  ASSUME Types, NEW t \in Actors, at[t] \in Pages, at[t] \in cached, NEW written \in BOOLEAN,
         WritepageEnd(t, written)
  PROVE  FileTypes' /\ PageTypes'
<1>1. PICK o \in Outcomes(to[t]) : lower' = WrittenAt(WritepageOffset(at[t]), at[t], o.cells)
  BY DEF WritepageEnd
<1>2. o.cells \in 0..PageSize
  BY OutcomesType, PageBounds DEF Types, ActorTypes
<1>3. /\ lower' \in Seq(Vals)
      /\ Len(lower') = WrittenEnd(WritepageOffset(at[t]), o.cells)
  BY <1>1, <1>2, OffsetFits, WrittenType DEF Types, FileTypes, PageTypes
<1>4. WritepageOffset(at[t]) \in Nat /\ WritepageOffset(at[t]) + o.cells <= NumPages * PageSize
  BY <1>2, OffsetFits, PagesFit, PageBounds
<1>5. Len(lower') <= NumPages * PageSize
  BY <1>2, <1>3, <1>4 DEF WrittenEnd, Types, FileTypes
<1> QED
  BY <1>3, <1>5 DEF WritepageEnd, UnlockPage, Types, FileTypes, PageTypes, Actors

\* What the transfer does to the page: it is unlocked, or stays so for ever.
LEMMA WritepageEndEffect ==
  ASSUME NEW t \in Actors, at[t] \in uptodate, NEW written, WritepageEnd(t, written)
  PROVE  /\ \/ plock' = plock
            \/ plock' = [plock EXCEPT ![at[t]] = NoOne] /\ at[t] \in uptodate'
         /\ cached' = cached /\ dirty' = dirty /\ imutex' = imutex
         /\ \A p \in Pages : p # at[t] => (p \in uptodate' <=> p \in uptodate)
BY DEF WritepageEnd, UnlockPage

LEMMA WritepageBeginTypes ==
  ASSUME Types, NEW t \in Actors, NEW p \in Pages, WritepageBegin(t, p)
  PROVE  /\ FileTypes' /\ PageTypes'
         /\ to' \in [Actors -> 0..PageSize] /\ p \in cached
<1>1. PageLength(p) \in 0..PageSize
  BY PageLengthType, PageBounds DEF Types, FileTypes
<1> QED
  BY <1>1 DEF WritepageBegin, LockPage, Types, ActorTypes, FileTypes, PageTypes, fileVars

LEMMA FlushKeepsLocked ==
  ASSUME LockedInv, StoresInv, FlushSize \/ FlushEnd \/ (\E p \in Pages : FlushBegin(p))
  PROVE  LockedInv'
<1> USE PageBounds, ActorsAreDistinct DEF LockedInv, Goto, Actors, fileVars, pageVars
<1>1. ASSUME NEW p \in Pages, FlushBegin(p)
      PROVE  LockedInv'
  <2>1. p \in 0..NumPages /\ Flusher \in Actors
    BY DEF Pages
  <2>2. FileTypes' /\ PageTypes' /\ to' \in [Actors -> 0..PageSize] /\ p \in cached /\ p \in uptodate
    BY <1>1, <2>1, WritepageBeginTypes DEF FlushBegin, WritepageBegin, LockPage, StuckInv
  <2>3. Types'
    BY <1>1, <2>1, <2>2 DEF FlushBegin, WritepageBegin, LockPage, LengthStep, Types,
       ActorTypes, Pcs
  <2>4. RolesInv' /\ MutexInv'
    BY <1>1 DEF FlushBegin, WritepageBegin, LockPage, LengthStep, Types, ActorTypes,
       FileTypes, RolesInv, MutexInv, WritePcs, TruncPcs
  <2>5. LockInv'
    BY <1>1, <2>2 DEF FlushBegin, WritepageBegin, LockPage, LengthStep, Types, ActorTypes,
       PageTypes, LockInv, FillPcs, CopyPcs, WritebackPcs, UsingPcs, WritePcs, TruncPcs
  <2>6. StuckInv'
    BY <1>1, <2>2 DEF FlushBegin, WritepageBegin, LockPage, LengthStep, Types, ActorTypes,
       PageTypes, LockInv, StuckInv, FillPcs, CopyPcs, WritebackPcs, UsingPcs
  <2> QED
    BY <2>3, <2>4, <2>5, <2>6
<1>2. CASE FlushSize
  <2>1. isize \in Nat
    BY DEF Types, FileTypes
  <2>2. isize % PageSize \in 0..PageSize
    BY <2>1, SizeHasPage
  <2>3. Types'
    BY <1>2, <2>2 DEF FlushSize, WritepageSize, Types, ActorTypes, FileTypes, PageTypes,
       Pcs, WritePcs, TruncPcs, SyncPcs
  <2>4. RolesInv' /\ MutexInv'
    BY <1>2 DEF FlushSize, WritepageSize, Types, ActorTypes, FileTypes, RolesInv,
       MutexInv, WritePcs, TruncPcs
  <2>5. LockInv'
    BY <1>2 DEF FlushSize, WritepageSize, Types, ActorTypes, PageTypes, LockInv, FillPcs,
       CopyPcs, WritebackPcs, UsingPcs, WritePcs, TruncPcs
  <2>6. StuckInv'
    BY <1>2 DEF FlushSize, WritepageSize, Types, ActorTypes, PageTypes, LockInv, StuckInv,
       FillPcs, CopyPcs, WritebackPcs, UsingPcs
  <2> QED
    BY <2>3, <2>4, <2>5, <2>6
<1>3. CASE FlushEnd
  <2>1. PICK written \in BOOLEAN : WritepageEnd(Flusher, written)
    BY <1>3 DEF FlushEnd
  <2>2. Flusher \in Actors /\ at[Flusher] \in Pages /\ at[Flusher] \in cached /\ plock[at[Flusher]] = Flusher
        /\ at[Flusher] \in uptodate
    BY <1>3 DEF FlushEnd, LockInv, UsingPcs, WritebackPcs
  <2>3. FileTypes' /\ PageTypes' /\ ActorTypes'
    BY <1>3, <2>1, <2>2, WritepageEndTypes, FinishTypes DEF FlushEnd, Types
  <2>4. /\ \/ plock' = plock
           \/ plock' = [plock EXCEPT ![at[Flusher]] = NoOne] /\ at[Flusher] \in uptodate'
        /\ cached' = cached /\ dirty' = dirty /\ imutex' = imutex
        /\ \A p \in Pages : p # at[Flusher] => (p \in uptodate' <=> p \in uptodate)
    BY <2>1, <2>2, WritepageEndEffect
  <2>5. Types'
    BY <1>3, <2>3 DEF FlushEnd, Finish, Types
  <2>6. RolesInv' /\ MutexInv'
    BY <1>3, <2>4 DEF FlushEnd, Finish, Types, ActorTypes, FileTypes, RolesInv, MutexInv,
       WritePcs, TruncPcs
  <2>7. LockInv'
    BY <1>3, <2>2, <2>4 DEF FlushEnd, Finish, Types, ActorTypes, PageTypes, LockInv,
       FillPcs, CopyPcs, WritebackPcs, UsingPcs, WritePcs, TruncPcs
  <2>8. StuckInv'
    BY <1>3, <2>2, <2>4 DEF FlushEnd, Finish, Types, ActorTypes, PageTypes, LockInv,
       StuckInv, FillPcs, CopyPcs, WritebackPcs, UsingPcs
  <2> QED
    BY <2>5, <2>6, <2>7, <2>8
<1> QED
  BY <1>1, <1>2, <1>3 DEF Types

LEMMA SyncKeepsLocked ==
  ASSUME LockedInv, StoresInv, NEW t \in Tasks, SyncStep(t) \/ SyncStart(t)
  PROVE  LockedInv'
<1> USE PageBounds, ActorsAreDistinct DEF LockedInv, Goto, Actors, fileVars, pageVars
<1>1. CASE SyncStart(t)
  <2>1. View \in Seq(Vals)
    BY ViewType
  <2>2. FileTypes' /\ PageTypes'
    BY <1>1 DEF SyncStart, Types, FileTypes, PageTypes
  <2>3. Types'
    BY <1>1, <2>1, <2>2 DEF SyncStart, Types, ActorTypes, Pcs, SyncPcs
  <2>4. RolesInv' /\ MutexInv'
    BY <1>1 DEF SyncStart, Types, ActorTypes, FileTypes, RolesInv, MutexInv, WritePcs,
       TruncPcs
  <2>5. LockInv'
    BY <1>1 DEF SyncStart, Types, ActorTypes, PageTypes, LockInv, FillPcs, CopyPcs,
       WritebackPcs, UsingPcs, WritePcs, TruncPcs
  <2>6. StuckInv'
    BY <1>1 DEF SyncStart, Types, ActorTypes, PageTypes, LockInv, StuckInv, FillPcs,
       CopyPcs, WritebackPcs, UsingPcs
  <2> QED
    BY <2>3, <2>4, <2>5, <2>6
<1>2. CASE SyncNext(t)
  <2>1. pc[t] = "s_next" /\ UNCHANGED <<fileVars, pageVars, clock, scenario, from, to, arg, ok, want>>
    BY <1>2 DEF SyncNext
  <2>2. FileTypes' /\ PageTypes'
    BY <2>1 DEF Types, FileTypes, PageTypes
  <2>3. /\ at' \in [Actors -> 0..NumPages] /\ pc' \in [Actors -> Pcs]
        /\ \A u \in Actors \ {t} : pc'[u] = pc[u] /\ at'[u] = at[u]
        /\ pc'[t] \in {"s_next", "s_lock", "s_done"} /\ (pc'[t] = "s_lock" => at'[t] \in Pages)
    <3>1. at[t] \in tagged => at[t] \in Pages
      BY DEF Types, PageTypes
    <3>2. at[t] \in Pages => at[t] + 1 \in 0..NumPages
      BY DEF Pages
    <3>3. CASE at' = at /\ \E there \in {"s_done", "s_lock"} :
              pc' = [pc EXCEPT ![t] = there] /\ (there = "s_lock" => at[t] \in tagged)
      BY <3>1, <3>3 DEF Types, ActorTypes, Pcs, SyncPcs
    <3>4. CASE at[t] \in Pages /\ pc' = [pc EXCEPT ![t] = "s_next"] /\ at' = [at EXCEPT ![t] = @ + 1]
      BY <3>2, <3>4 DEF Types, ActorTypes, Pcs, SyncPcs
    <3> QED
      BY <1>2, <3>3, <3>4 DEF SyncNext
  <2>4. Types'
    BY <2>1, <2>2, <2>3 DEF Types, ActorTypes
  <2>5. RolesInv' /\ MutexInv'
    BY <2>1, <2>3 DEF RolesInv, MutexInv, WritePcs, TruncPcs
  <2>6. LockInv'
    BY <2>1, <2>3 DEF LockInv, FillPcs, CopyPcs, WritebackPcs, UsingPcs, WritePcs, TruncPcs
  <2>7. StuckInv'
    BY <2>1, <2>3 DEF StuckInv, FillPcs, CopyPcs, WritebackPcs, UsingPcs
  <2> QED
    BY <2>4, <2>5, <2>6, <2>7
<1>3. CASE SyncLock(t)
  <2>1. at[t] \in Pages /\ at[t] + 1 \in 0..NumPages /\ pc[t] = "s_lock"
    BY <1>3 DEF SyncLock, LockInv, Pages
  <2>2. ASSUME pc' = [pc EXCEPT ![t] = LengthStep(at[t], "s_size", "s_push")],
               WritepageBegin(t, at[t]), UNCHANGED <<at, ok>>
        PROVE  LockedInv'
    <3>1. /\ FileTypes' /\ PageTypes' /\ to' \in [Actors -> 0..PageSize]
          /\ at[t] \in cached /\ at[t] \in uptodate /\ plock[at[t]] = NoOne
      BY <2>1, <2>2, WritepageBeginTypes DEF WritepageBegin, LockPage, StuckInv
    <3>2. Types'
      BY <2>1, <2>2, <3>1 DEF WritepageBegin, LengthStep, Types, ActorTypes, Pcs, SyncPcs
    <3>3. RolesInv' /\ MutexInv'
      BY <2>1, <2>2 DEF WritepageBegin, LengthStep, Types, ActorTypes, RolesInv, MutexInv,
                        WritePcs, TruncPcs
    <3>4. LockInv'
      BY SMTT(30), <2>1, <2>2, <3>1 DEF WritepageBegin, LockPage, LengthStep, Types, ActorTypes, PageTypes,
                        LockInv, FillPcs, CopyPcs, WritebackPcs, UsingPcs, WritePcs, TruncPcs
    <3>5. StuckInv'
      BY <2>1, <2>2, <3>1 DEF WritepageBegin, LockPage, LengthStep, Types, ActorTypes, PageTypes,
                        StuckInv, FillPcs, CopyPcs, WritebackPcs, UsingPcs
    <3> QED
      BY <3>2, <3>3, <3>4, <3>5
  <2>3. ASSUME Goto(t, "s_lock", "s_next"), at' = [at EXCEPT ![t] = @ + 1],
               UNCHANGED <<fileVars, pageVars, clock, scenario, from, to, arg, ok, want>>
        PROVE  LockedInv'
    <3>1. FileTypes' /\ PageTypes'
      BY <2>3 DEF Types, FileTypes, PageTypes
    <3>2. Types'
      BY <2>1, <2>3, <3>1 DEF Types, ActorTypes, Pcs, SyncPcs
    <3>3. RolesInv' /\ MutexInv'
      BY <2>1, <2>3 DEF Types, ActorTypes, RolesInv, MutexInv, WritePcs, TruncPcs
    <3>4. LockInv'
      BY <2>1, <2>3 DEF Types, ActorTypes, LockInv, FillPcs, CopyPcs, WritebackPcs, UsingPcs,
                        WritePcs, TruncPcs
    <3>5. StuckInv'
      BY <2>1, <2>3 DEF Types, ActorTypes, StuckInv, FillPcs, CopyPcs, WritebackPcs, UsingPcs
    <3> QED
      BY <3>2, <3>3, <3>4, <3>5
  <2> QED
    BY <1>3, <2>2, <2>3 DEF SyncLock
<1>4. CASE SyncSize(t)
  <2>1. isize \in Nat
    BY DEF Types, FileTypes
  <2>2. isize % PageSize \in 0..PageSize
    BY <2>1, SizeHasPage
  <2>3. FileTypes' /\ PageTypes'
    BY <1>4 DEF SyncSize, WritepageSize, Types, FileTypes, PageTypes
  <2>4. Types'
    BY <1>4, <2>2, <2>3 DEF SyncSize, WritepageSize, Types, ActorTypes, Pcs, SyncPcs
  <2>5. RolesInv' /\ MutexInv'
    BY <1>4 DEF SyncSize, WritepageSize, Types, ActorTypes, FileTypes, RolesInv, MutexInv,
       WritePcs, TruncPcs
  <2>6. LockInv'
    BY <1>4 DEF SyncSize, WritepageSize, Types, ActorTypes, PageTypes, LockInv, FillPcs,
       CopyPcs, WritebackPcs, UsingPcs, WritePcs, TruncPcs
  <2>7. StuckInv'
    BY <1>4 DEF SyncSize, WritepageSize, Types, ActorTypes, PageTypes, LockInv, StuckInv,
       FillPcs, CopyPcs, WritebackPcs, UsingPcs
  <2> QED
    BY <2>4, <2>5, <2>6, <2>7
<1>5. CASE SyncPush(t)
  <2>1. PICK written \in BOOLEAN :
          /\ WritepageEnd(t, written)
          /\ ok' = [ok EXCEPT ![t] = written]
          /\ pc' = [pc EXCEPT ![t] = IF written THEN "s_next" ELSE "s_done"]
    BY <1>5 DEF SyncPush
  <2>2. /\ at[t] \in Pages /\ at[t] \in cached /\ plock[at[t]] = t /\ at[t] \in uptodate
        /\ at[t] + 1 \in 0..NumPages
    BY <1>5 DEF SyncPush, LockInv, UsingPcs, WritebackPcs, Pages
  <2>3. FileTypes' /\ PageTypes'
    BY <2>1, <2>2, WritepageEndTypes
  <2>4. /\ \/ plock' = plock
           \/ plock' = [plock EXCEPT ![at[t]] = NoOne] /\ at[t] \in uptodate'
        /\ cached' = cached /\ dirty' = dirty /\ imutex' = imutex
        /\ \A p \in Pages : p # at[t] => (p \in uptodate' <=> p \in uptodate)
    BY <2>1, <2>2, WritepageEndEffect
  <2>5. Types'
    BY <1>5, <2>1, <2>2, <2>3 DEF SyncPush, Types, ActorTypes, Pcs, SyncPcs
  <2>6. RolesInv' /\ MutexInv'
    BY <1>5, <2>1, <2>4 DEF SyncPush, Types, ActorTypes, FileTypes, RolesInv, MutexInv,
       WritePcs, TruncPcs
  <2>7. LockInv'
    BY SMTT(30), <1>5, <2>1, <2>2, <2>4 DEF SyncPush, Types, ActorTypes, PageTypes, LockInv,
       FillPcs, CopyPcs, WritebackPcs, UsingPcs, WritePcs, TruncPcs
  <2>8. StuckInv'
    BY <1>5, <2>1, <2>2, <2>4 DEF SyncPush, Types, ActorTypes, PageTypes, LockInv,
       StuckInv, FillPcs, CopyPcs, WritebackPcs, UsingPcs
  <2> QED
    BY <2>5, <2>6, <2>7, <2>8
<1>6. CASE SyncReturn(t)
  <2>1. ActorTypes'
    BY <1>6, FinishTypes DEF SyncReturn, Types
  <2>2. FileTypes' /\ PageTypes'
    BY <1>6 DEF SyncReturn, Types, FileTypes, PageTypes
  <2>3. Types'
    BY <1>6, <2>1, <2>2 DEF SyncReturn, Finish, Types
  <2>4. RolesInv' /\ MutexInv'
    BY <1>6 DEF SyncReturn, Finish, Types, ActorTypes, FileTypes, RolesInv, MutexInv,
       WritePcs, TruncPcs
  <2>5. LockInv'
    BY <1>6 DEF SyncReturn, Finish, Types, ActorTypes, PageTypes, LockInv, FillPcs,
       CopyPcs, WritebackPcs, UsingPcs, WritePcs, TruncPcs
  <2>6. StuckInv'
    BY <1>6 DEF SyncReturn, Finish, Types, ActorTypes, PageTypes, LockInv, StuckInv,
       FillPcs, CopyPcs, WritebackPcs, UsingPcs
  <2> QED
    BY <2>3, <2>4, <2>5, <2>6
<1> QED
  BY <1>1, <1>2, <1>3, <1>4, <1>5, <1>6 DEF SyncStep

LEMMA PageOfSize ==
  ASSUME NEW n \in Nat, n <= NumPages * PageSize
  PROVE  n \div PageSize \in 0..NumPages
<1> DEFINE q == n \div PageSize
<1>1. q \in Nat /\ q * PageSize \in Nat /\ q * PageSize <= n
  BY SizeHasPage, PageBounds
<1>2. q > NumPages => NumPages * PageSize + PageSize <= q * PageSize
  BY <1>1, PagesAreApart, PageBounds
<1>3. NumPages * PageSize \in Nat
  BY PageBounds
<1> QED
  BY <1>1, <1>2, <1>3, PageBounds

LEMMA TruncKeepsLocked ==
  ASSUME LockedInv, StoresInv, NEW t \in Tasks,
         TruncStep(t) \/ \E n \in 0..(NumPages * PageSize) : TruncStart(t, n)
  PROVE  LockedInv'
<1> USE PageBounds, ActorsAreDistinct DEF LockedInv, Goto, Actors, fileVars, pageVars
<1>1. ASSUME NEW n \in 0..(NumPages * PageSize), TruncStart(t, n)
      PROVE  LockedInv'
  <2>1. n \in Nat /\ n <= NumPages * PageSize
    OBVIOUS
  <2>2. PageTypes' /\ FileTypes'
    BY <1>1 DEF TruncStart, LockInode, Types, PageTypes, FileTypes
  <2>3. Types'
    BY <1>1, <2>1, <2>2 DEF TruncStart, LockInode, Types, ActorTypes, Pcs, TruncPcs
  <2>4. RolesInv' /\ MutexInv'
    BY <1>1 DEF TruncStart, LockInode, Types, ActorTypes, FileTypes, RolesInv, MutexInv,
       WritePcs, TruncPcs
  <2>5. LockInv'
    BY <1>1, <2>1 DEF TruncStart, LockInode, Types, ActorTypes, PageTypes, LockInv,
       FillPcs, CopyPcs, WritebackPcs, UsingPcs, WritePcs, TruncPcs
  <2>6. StuckInv'
    BY <1>1 DEF TruncStart, LockInode, Types, ActorTypes, PageTypes, LockInv, StuckInv,
       FillPcs, CopyPcs, WritebackPcs, UsingPcs
  <2> QED
    BY <2>3, <2>4, <2>5, <2>6
<1>2. CASE TruncLower(t)
  <2>1. arg[t] \in Nat /\ arg[t] <= NumPages * PageSize
    BY <1>2 DEF TruncLower, LockInv, TruncPcs, Types, ActorTypes
  <2>2. lower' \in Seq(Vals) /\ Len(lower') = arg[t]
    BY <1>2, <2>1, ResizedType DEF TruncLower, Types, FileTypes
  <2>3. PageTypes' /\ FileTypes'
    BY <1>2, <2>1, <2>2 DEF TruncLower, Types, PageTypes, FileTypes
  <2>4. Types'
    BY <1>2, <2>3 DEF TruncLower, Types, ActorTypes, Pcs, TruncPcs
  <2>5. RolesInv' /\ MutexInv'
    BY <1>2 DEF TruncLower, Types, ActorTypes, FileTypes, RolesInv, MutexInv, WritePcs,
       TruncPcs
  <2>6. LockInv'
    BY <1>2 DEF TruncLower, Types, ActorTypes, PageTypes, LockInv, FillPcs, CopyPcs,
       WritebackPcs, UsingPcs, WritePcs, TruncPcs
  <2>7. StuckInv'
    BY <1>2 DEF TruncLower, Types, ActorTypes, PageTypes, LockInv, StuckInv, FillPcs,
       CopyPcs, WritebackPcs, UsingPcs
  <2> QED
    BY <2>4, <2>5, <2>6, <2>7
<1>3. CASE TruncLowerFails(t)
  <2>1. Types'
    BY <1>3 DEF TruncLowerFails, Types, ActorTypes, FileTypes, PageTypes, Pcs, WritePcs,
       TruncPcs, SyncPcs
  <2>2. RolesInv' /\ MutexInv'
    BY <1>3 DEF TruncLowerFails, Types, ActorTypes, FileTypes, RolesInv, MutexInv,
       WritePcs, TruncPcs
  <2>3. LockInv'
    BY <1>3 DEF TruncLowerFails, Types, ActorTypes, PageTypes, LockInv, FillPcs, CopyPcs,
       WritebackPcs, UsingPcs, WritePcs, TruncPcs
  <2>4. StuckInv'
    BY <1>3 DEF TruncLowerFails, Types, ActorTypes, PageTypes, LockInv, StuckInv, FillPcs,
       CopyPcs, WritebackPcs, UsingPcs
  <2> QED
    BY <2>1, <2>2, <2>3, <2>4
<1>4. CASE TruncSize(t)
  <2>1. arg[t] \in Nat /\ arg[t] <= NumPages * PageSize
    BY <1>4 DEF TruncSize, LockInv, TruncPcs, Types, ActorTypes
  <2>2. arg[t] \div PageSize \in 0..NumPages
    BY <2>1, PageOfSize
  <2>3. PageTypes' /\ FileTypes'
    BY <1>4, <2>1 DEF TruncSize, Types, PageTypes, FileTypes
  <2>4. Types'
    BY <1>4, <2>2, <2>3 DEF TruncSize, Types, ActorTypes, Pcs, TruncPcs
  <2>5. RolesInv' /\ MutexInv'
    BY <1>4 DEF TruncSize, Types, ActorTypes, FileTypes, RolesInv, MutexInv, WritePcs,
       TruncPcs
  <2>6. LockInv'
    BY <1>4 DEF TruncSize, Types, ActorTypes, PageTypes, LockInv, FillPcs, CopyPcs,
       WritebackPcs, UsingPcs, WritePcs, TruncPcs
  <2>7. StuckInv'
    BY <1>4 DEF TruncSize, Types, ActorTypes, PageTypes, LockInv, StuckInv, FillPcs,
       CopyPcs, WritebackPcs, UsingPcs
  <2> QED
    BY <2>4, <2>5, <2>6, <2>7
<1>5. CASE TruncPages(t)
  <2>1. at[t] \in Pages /\ at[t] + 1 \in 0..NumPages
    BY SMTT(30), <1>5 DEF TruncPages, Types, ActorTypes, Pages
  <2>2. Zeros \in [1..PageSize -> Vals] /\ 0 \in Vals
    BY DEF Zeros, Vals
  <2>3. /\ pc[t] = "t_pages" /\ pc' = pc /\ at' = [at EXCEPT ![t] = at[t] + 1]
        /\ UNCHANGED <<fileVars, plock, clock, scenario, from, to, arg, ok, want>>
    BY <1>5 DEF TruncPages
  <2> DEFINE Leaves(S) == /\ cached' = cached \ S /\ uptodate' = uptodate \ S /\ dirty' = dirty \ S
                          /\ \A p \in S : plock[p] = NoOne
  <2>4. PageTypes' /\ \E S \in SUBSET {at[t]} : Leaves(S)
    <3>1. ASSUME UNCHANGED <<cached, uptodate, dirty>>
          PROVE  \E S \in SUBSET {at[t]} : Leaves(S)
      <4>1. Leaves({})
        BY <3>1
      <4>2. {} \in SUBSET {at[t]}
        OBVIOUS
      <4> HIDE DEF Leaves
      <4> QED
        BY <4>1, <4>2
    <3>2. CASE UNCHANGED <<cached, uptodate, dirty, tagged, pdata>>
      <4>1. PageTypes'
        BY <2>3, <3>2 DEF Types, PageTypes
      <4> HIDE DEF Leaves
      <4> QED
        BY <3>1, <3>2, <4>1
    <3>3. CASE Dropped({at[t]}) /\ plock[at[t]] = NoOne
      <4>1. PageTypes'
        BY <2>2, <2>3, <3>3 DEF Dropped, Types, PageTypes
      <4>2. Leaves({at[t]})
        BY <3>3 DEF Dropped
      <4>3. {at[t]} \in SUBSET {at[t]}
        OBVIOUS
      <4> HIDE DEF Leaves
      <4> QED
        BY <4>1, <4>2, <4>3
    <3>4. CASE /\ UNCHANGED <<cached, uptodate, dirty, tagged>>
               /\ pdata' = [pdata EXCEPT ![at[t]] =
                      [i \in 1..PageSize |-> IF at[t] * PageSize + i <= arg[t] THEN @[i] ELSE 0]]
      <4>1. [i \in 1..PageSize |-> IF at[t] * PageSize + i <= arg[t] THEN pdata[at[t]][i] ELSE 0]
                \in [1..PageSize -> Vals]
        BY <2>1, <2>2 DEF Types, PageTypes
      <4>2. pdata' \in [Pages -> [1..PageSize -> Vals]]
        BY <2>1, <3>4, <4>1 DEF Types, PageTypes
      <4>3. PageTypes'
        BY <2>3, <3>4, <4>2 DEF Types, PageTypes
      <4> HIDE DEF Leaves
      <4> QED
        BY <3>1, <3>4, <4>3
    <3> QED
      BY <1>5, <3>2, <3>3, <3>4 DEF TruncPages
  <2>5. PICK S \in SUBSET {at[t]} : Leaves(S)
    BY <2>4
  <2>6. Types'
    BY <2>1, <2>3, <2>4 DEF Types, ActorTypes, FileTypes
  <2>7. RolesInv' /\ MutexInv'
    BY <2>3 DEF RolesInv, MutexInv
  <2>8. \A u \in Actors : pc[u] \in UsingPcs => u # t /\ at[u] \notin S /\ at'[u] = at[u]
    <3>1. \A u \in Actors : pc[u] \in UsingPcs => plock[at[u]] = u /\ u # NoOne
      BY DEF LockInv
    <3> QED
      BY <2>3, <2>5, <3>1 DEF FillPcs, CopyPcs, WritebackPcs, UsingPcs, Types, ActorTypes
  <2>9. LockInv'
    BY <2>3, <2>5, <2>8 DEF Types, ActorTypes, LockInv, FillPcs, CopyPcs, WritebackPcs, UsingPcs,
                            WritePcs, TruncPcs
  <2>10. StuckInv'
    BY <2>3, <2>5, <2>8 DEF StuckInv
  <2> QED
    BY <2>4, <2>6, <2>7, <2>9, <2>10
<1>6. CASE TruncPagesDone(t)
  <2>1. Types'
    BY <1>6 DEF TruncPagesDone, Types, ActorTypes, FileTypes, PageTypes, Pcs, WritePcs,
       TruncPcs, SyncPcs
  <2>2. RolesInv' /\ MutexInv'
    BY <1>6 DEF TruncPagesDone, Types, ActorTypes, FileTypes, RolesInv, MutexInv,
       WritePcs, TruncPcs
  <2>3. LockInv'
    BY <1>6 DEF TruncPagesDone, Types, ActorTypes, PageTypes, LockInv, FillPcs, CopyPcs,
       WritebackPcs, UsingPcs, WritePcs, TruncPcs
  <2>4. StuckInv'
    BY <1>6 DEF TruncPagesDone, Types, ActorTypes, PageTypes, LockInv, StuckInv, FillPcs,
       CopyPcs, WritebackPcs, UsingPcs
  <2> QED
    BY <2>1, <2>2, <2>3, <2>4
<1>7. CASE TruncCopy(t)
  <2>1. Len(lower) \in 0..(NumPages * PageSize)
    BY DEF Types, FileTypes
  <2>2. Types'
    BY <1>7, <2>1 DEF TruncCopy, Types, ActorTypes, FileTypes, PageTypes, Pcs, WritePcs,
       TruncPcs, SyncPcs
  <2>3. RolesInv' /\ MutexInv'
    BY <1>7 DEF TruncCopy, Types, ActorTypes, FileTypes, RolesInv, MutexInv, WritePcs,
       TruncPcs
  <2>4. LockInv'
    BY <1>7 DEF TruncCopy, Types, ActorTypes, PageTypes, LockInv, FillPcs, CopyPcs,
       WritebackPcs, UsingPcs, WritePcs, TruncPcs
  <2>5. StuckInv'
    BY <1>7 DEF TruncCopy, Types, ActorTypes, PageTypes, LockInv, StuckInv, FillPcs,
       CopyPcs, WritebackPcs, UsingPcs
  <2> QED
    BY <2>2, <2>3, <2>4, <2>5
<1>8. CASE TruncReturn(t)
  <2>1. ActorTypes'
    BY <1>8, FinishTypes DEF TruncReturn, Types
  <2>2. Types'
    BY <1>8, <2>1 DEF TruncReturn, Finish, UnlockInode, Types, FileTypes, PageTypes
  <2>3. RolesInv' /\ MutexInv'
    BY <1>8 DEF TruncReturn, Finish, UnlockInode, Types, ActorTypes, FileTypes, RolesInv,
       MutexInv, WritePcs, TruncPcs
  <2>4. LockInv'
    BY <1>8 DEF TruncReturn, Finish, UnlockInode, Types, ActorTypes, PageTypes, LockInv,
       FillPcs, CopyPcs, WritebackPcs, UsingPcs, WritePcs, TruncPcs
  <2>5. StuckInv'
    BY <1>8 DEF TruncReturn, Finish, UnlockInode, Types, ActorTypes, PageTypes, LockInv,
       StuckInv, FillPcs, CopyPcs, WritebackPcs, UsingPcs
  <2> QED
    BY <2>2, <2>3, <2>4, <2>5
<1> QED
  BY <1>1, <1>2, <1>3, <1>4, <1>5, <1>6, <1>7, <1>8 DEF TruncStep

LEMMA DropKeepsLocked ==
  ASSUME LockedInv, StoresInv, EvictInode \/ (\E p \in Pages : Reclaim(p))
  PROVE  LockedInv'
<1> USE PageBounds, ActorsAreDistinct DEF LockedInv, Goto, Actors, fileVars, pageVars
<1>1. ASSUME NEW p \in Pages, Reclaim(p)
      PROVE  LockedInv'
  <2>1. Zeros \in [1..PageSize -> Vals] /\ 0 \in Vals
    BY DEF Zeros, Vals
  <2>2. PageTypes' /\ FileTypes'
    BY <1>1, <2>1 DEF Reclaim, Dropped, Types, PageTypes, FileTypes
  <2>3. Types'
    BY <1>1, <2>2 DEF Reclaim, Dropped, actorVars, Types, ActorTypes
  <2>4. RolesInv' /\ MutexInv'
    BY <1>1 DEF Reclaim, Dropped, actorVars, Types, ActorTypes, FileTypes, RolesInv,
       MutexInv, WritePcs, TruncPcs
  <2>5. LockInv'
    BY <1>1 DEF Reclaim, Dropped, actorVars, Types, ActorTypes, PageTypes, LockInv,
       FillPcs, CopyPcs, WritebackPcs, UsingPcs, WritePcs, TruncPcs
  <2>6. StuckInv'
    BY <1>1 DEF Reclaim, Dropped, actorVars, Types, ActorTypes, PageTypes, LockInv,
       StuckInv, FillPcs, CopyPcs, WritebackPcs, UsingPcs
  <2> QED
    BY <2>3, <2>4, <2>5, <2>6
<1>2. CASE EvictInode
  <2>1. Zeros \in [1..PageSize -> Vals] /\ 0 \in Vals
    BY DEF Zeros, Vals
  <2>2. Len(lower) \in 0..(NumPages * PageSize)
    BY DEF Types, FileTypes
  <2>3. PageTypes' /\ FileTypes'
    BY <1>2, <2>1, <2>2 DEF EvictInode, Dropped, Types, PageTypes, FileTypes
  <2>4. Types'
    BY <1>2, <2>3 DEF EvictInode, Dropped, actorVars, Types, ActorTypes
  <2>5. RolesInv' /\ MutexInv'
    BY <1>2 DEF EvictInode, Dropped, actorVars, Types, ActorTypes, FileTypes, RolesInv,
       MutexInv, WritePcs, TruncPcs
  <2>6. LockInv'
    BY <1>2 DEF EvictInode, Dropped, actorVars, Types, ActorTypes, PageTypes, LockInv,
       FillPcs, CopyPcs, WritebackPcs, UsingPcs, WritePcs, TruncPcs
  <2>7. StuckInv'
    BY <1>2 DEF EvictInode, Dropped, actorVars, Types, ActorTypes, PageTypes, LockInv,
       StuckInv, FillPcs, CopyPcs, WritebackPcs, UsingPcs
  <2> QED
    BY <2>4, <2>5, <2>6, <2>7
<1> QED
  BY <1>1, <1>2 DEF Types

\* No step makes more of the writes and stores that may still come.
LEMMA FewerStores ==
  ASSUME Types, StoresInv, clock' = clock, scenario' = scenario, Storing' \subseteq Storing
  PROVE  StoresInv'
<1>1. IsFiniteSet(Storing) /\ Cardinality(Storing) \in Nat
  BY StoresFit
<1>2. Cardinality(Storing') \in Nat /\ Cardinality(Storing') <= Cardinality(Storing)
  BY <1>1, FS_Subset, FS_CardinalityType
<1>3. clock \in Nat /\ scenario.stores \in Nat
  BY ScenariosAreKnown, PageBounds DEF Types, FileTypes, ScenarioSet, Vals
<1> QED
  BY <1>1, <1>2, <1>3 DEF StoresInv

LEMMA StoresKept ==
  ASSUME LockedInv, StoresInv, [Next]_vars
  PROVE  StoresInv'
<1> USE DEF LockedInv, Types, ActorTypes
<1>1. IsFiniteSet(Storing) /\ Cardinality(Storing) \in Nat
  BY StoresFit
<1>2. clock \in Nat /\ scenario.stores \in Nat
  BY ScenariosAreKnown, PageBounds DEF FileTypes, ScenarioSet, Vals
<1>3. ASSUME NEW t \in Tasks, NEW p \in Pages, NEW i \in 0..(PageSize - 1),
             NEW n \in 1..(PageSize - i), WriteStart(t, p, i, n)
      PROVE  StoresInv'
  <2>1. Storing' = Storing \cup {t} /\ clock' = clock /\ scenario' = scenario
    BY <1>3 DEF WriteStart, Goto, Storing, Actors
  <2>2. t \notin Storing
    BY <1>3 DEF WriteStart, Goto, Storing
  <2>3. Cardinality(Storing \cup {t}) = Cardinality(Storing) + 1
    BY <1>1, <2>2, FS_AddElement
  <2>4. Cardinality(Storing') = Cardinality(Storing) + 1
    BY <2>1, <2>3
  <2> QED
    BY <1>1, <1>2, <1>3, <2>1, <2>4 DEF WriteStart, StoresLeft, Storing, StoresInv
<1>4. ASSUME NEW t \in Tasks, WriteCopy(t)
      PROVE  StoresInv'
  <2>1. t \in Storing /\ Storing' = Storing \ {t} /\ clock' = clock + 1 /\ scenario' = scenario
    BY <1>4 DEF WriteCopy, Goto, Storing, Actors
  <2>2. Cardinality(Storing') = Cardinality(Storing) - 1
    BY <1>1, <2>1, FS_RemoveElement
  <2> QED
    BY <1>1, <1>2, <2>1, <2>2 DEF StoresInv
<1>5. ASSUME NEW t \in Tasks, NEW p \in Pages, NEW i \in 1..PageSize, Store(t, p, i)
      PROVE  StoresInv'
  <2>1. Storing' = Storing /\ clock' = clock + 1 /\ scenario' = scenario
    BY <1>5 DEF Store, actorVars, Storing
  <2>2. Cardinality(Storing') = Cardinality(Storing)
    BY <2>1
  <2> QED
    BY <1>1, <1>2, <1>5, <2>1, <2>2 DEF Store, StoresLeft, Storing, StoresInv
<1>6. ASSUME clock' = clock, scenario' = scenario,
             NEW t \in Actors, NEW there \in Pcs, pc' = [pc EXCEPT ![t] = there],
             there \in {"w_grab", "w_fill", "w_copy"} => t \in Storing
      PROVE  StoresInv'
  <2>1. Storing' \subseteq Storing
    BY <1>6 DEF Storing, Actors
  <2> QED
    BY <1>6, <2>1, FewerStores
<1>7. ASSUME clock' = clock, scenario' = scenario, pc' = pc
      PROVE  StoresInv'
  BY <1>7, FewerStores DEF Storing
<1>8. ASSUME NEW t \in Tasks, ReadFill(t) \/ \E p \in Pages : ReadStart(t, p)
      PROVE  StoresInv'
  <2> t \in Actors
    BY DEF Actors
  <2>1. clock' = clock /\ scenario' = scenario /\ \E there \in {"idle", "r_fill"} :
            pc' = [pc EXCEPT ![t] = there]
    BY <1>8 DEF ReadFill, ReadStart, Goto, Finish
  <2> QED
    BY <1>6, <2>1 DEF Pcs
<1>13. ASSUME NEW t \in Tasks, WriteStep(t)
      PROVE  StoresInv'
  <2> t \in Actors
    BY DEF Actors
  <2>1. CASE WriteGrab(t) \/ WriteFill(t) \/ WriteFillFails(t)
    <3>1. clock' = clock /\ scenario' = scenario
      BY <2>1 DEF WriteGrab, WriteFill, WriteFillFails
    <3>2. t \in Storing /\ \E there \in {"w_fill", "w_copy", "w_done"} : pc' = [pc EXCEPT ![t] = there]
      BY <2>1 DEF WriteGrab, WriteFill, WriteFillFails, Goto, Storing
    <3> QED
      BY <1>6, <3>1, <3>2 DEF Pcs, WritePcs
  <2>2. CASE WritePush(t) \/ WriteEnd(t) \/ WriteReturn(t)
    <3>1. clock' = clock /\ scenario' = scenario
      BY <2>2 DEF WritePush, WriteEnd, WriteReturn
    <3>2. \E there \in {"idle", "w_end", "w_done"} : pc' = [pc EXCEPT ![t] = there]
      BY <2>2 DEF WritePush, WriteEnd, WriteReturn, Goto, Finish
    <3> QED
      BY <1>6, <3>1, <3>2 DEF Pcs, WritePcs
  <2> QED
    BY <1>4, <1>13, <2>1, <2>2 DEF WriteStep
<1>9. ASSUME NEW t \in Tasks, SyncStep(t) \/ SyncStart(t)
      PROVE  StoresInv'
  <2> t \in Actors
    BY DEF Actors
  <2>1. clock' = clock /\ scenario' = scenario /\ \E there \in SyncPcs \cup {"idle"} :
            pc' = [pc EXCEPT ![t] = there]
    BY <1>9 DEF SyncStep, SyncStart, SyncNext, SyncLock, SyncSize, SyncPush, SyncReturn, Goto, Finish,
       WritepageBegin, WritepageSize, WritepageEnd, LengthStep, SyncPcs
  <2> QED
    BY <1>6, <2>1 DEF SyncPcs, Pcs
<1>10. ASSUME NEW t \in Tasks, TruncStep(t) \/ \E n \in 0..(NumPages * PageSize) : TruncStart(t, n)
       PROVE  StoresInv'
  <2> t \in Actors
    BY DEF Actors
  <2>1. clock' = clock /\ scenario' = scenario /\ (pc' = pc \/ \E there \in TruncPcs \cup {"idle"} :
            pc' = [pc EXCEPT ![t] = there])
    BY <1>10 DEF TruncStep, TruncStart, TruncLower, TruncLowerFails, TruncSize, TruncPages,
       TruncPagesDone, TruncCopy, TruncReturn, Goto, Finish, TruncPcs
  <2> QED
    BY <1>6, <1>7, <2>1 DEF TruncPcs, Pcs
<1>11. CASE FlushSize \/ FlushEnd \/ (\E p \in Pages : FlushBegin(p))
  <2> Flusher \in Actors
    BY DEF Actors
  <2>1. clock' = clock /\ scenario' = scenario /\ \E there \in {"idle", "f_size", "f_push"} :
            pc' = [pc EXCEPT ![Flusher] = there]
    BY <1>11 DEF FlushBegin, FlushSize, FlushEnd, Goto, Finish,
       WritepageBegin, WritepageSize, WritepageEnd, LengthStep
  <2> QED
    BY <1>6, <2>1 DEF Pcs
<1>12. CASE EvictInode \/ (\E p \in Pages : Reclaim(p)) \/ UNCHANGED vars
  BY <1>7, <1>12 DEF EvictInode, Reclaim, vars, actorVars
<1> QED
  BY <1>3, <1>5, <1>8, <1>9, <1>10, <1>11, <1>12, <1>13 DEF Next, Begin, Step

LEMMA LockedKept ==
  ASSUME LockedInv, StoresInv, [Next]_vars
  PROVE  LockedInv'
<1>1. CASE UNCHANGED vars
  BY <1>1 DEF vars, fileVars, pageVars, actorVars, LockedInv, Types, ActorTypes, FileTypes, PageTypes,
              RolesInv, MutexInv, LockInv, StuckInv
<1> QED
  BY <1>1, WriteKeepsLocked, ReadKeepsLocked, SyncKeepsLocked, TruncKeepsLocked, FlushKeepsLocked,
     DropKeepsLocked DEF Next, Begin, Step

LEMMA LockedStart ==
  ASSUME Init
  PROVE  LockedInv /\ StoresInv
<1> USE PageBounds, ActorsAreDistinct DEF Init, Actors
<1>1. <<>> \in Seq(Vals) /\ Len(<<>>) = 0 /\ Zeros \in [1..PageSize -> Vals] /\ 0 \in Vals
      /\ NumPages * PageSize \in Nat
  BY DEF Zeros, Vals
<1>2. Types
  BY <1>1 DEF Types, ActorTypes, FileTypes, PageTypes, Pcs
<1>3. RolesInv /\ MutexInv /\ StuckInv
  BY DEF RolesInv, MutexInv, StuckInv, WritePcs, TruncPcs
<1>4. LockInv
  BY DEF LockInv, FillPcs, CopyPcs, WritebackPcs, UsingPcs, WritePcs, TruncPcs
<1>5. Storing = {}
  BY DEF Storing
<1>6. StoresInv
  BY <1>5, FS_EmptySet, ScenariosAreKnown DEF StoresInv, ScenarioSet
<1> QED
  BY <1>2, <1>3, <1>4, <1>6 DEF LockedInv

LEMMA LockedAlways == Spec => [](LockedInv /\ StoresInv)
<1>1. Init => LockedInv /\ StoresInv
  BY LockedStart
<1>2. LockedInv /\ StoresInv /\ [Next]_vars => (LockedInv /\ StoresInv)'
  BY LockedKept, StoresKept
<1> QED
  BY <1>1, <1>2, PTL DEF Spec
-----------------------------------------------------------------------------
(* The size of the file, above and below.                                   *)

\* Where the holder of i_mutex knows that both inodes have the same size.
SettledPcs == (WritePcs \ {"w_end"}) \cup {"t_lower", "t_done"}

SizeInv ==
    /\ imutex = NoOne => isize = Len(lower)
    /\ \A t \in Tasks :
        /\ pc[t] \in SettledPcs => isize = Len(lower)
        /\ pc[t] = "w_end" => isize <= Len(lower) /\ (~ok[t] => isize = Len(lower))
        /\ pc[t] = "t_size" => arg[t] <= Len(lower)
        /\ pc[t] = "t_pages" => isize = arg[t] /\ isize <= Len(lower)
        /\ pc[t] = "t_copy" => isize <= Len(lower)

\* A truncation has set i_size and will come by page p.
CutPending(p) == \E u \in Tasks : pc[u] = "t_pages" /\ at[u] <= p

\* What a writeback has in hand lies within i_size, or a truncation waits for it.
WithinInv ==
    \A t \in Actors :
        /\ pc[t] \in {"f_push", "s_push"} =>
              to[t] = 0 \/ at[t] * PageSize + to[t] <= isize \/ CutPending(at[t])
        /\ pc[t] \in {"f_size", "s_size"} => at[t] * PageSize <= isize \/ CutPending(at[t])

LEMMA OnePerMutex ==
  ASSUME MutexInv, NEW t \in Tasks, pc[t] \in WritePcs \cup TruncPcs
  PROVE  /\ imutex = t /\ imutex # NoOne
         /\ \A u \in Tasks \ {t} : pc[u] \notin WritePcs \cup TruncPcs
BY ActorsAreDistinct DEF MutexInv

\* A step that leaves the file and the actors with i_mutex alone.
LEMMA SizeQuiet ==
  ASSUME LockedInv, SizeInv, UNCHANGED <<lower, isize, imutex>>, NEW t \in Actors,
         \A u \in Tasks \ {t} : pc'[u] = pc[u] /\ arg'[u] = arg[u] /\ ok'[u] = ok[u],
         t \in Tasks => \/ pc'[t] \notin WritePcs \cup TruncPcs
                        \/ pc[t] \in SettledPcs /\ pc'[t] \in SettledPcs
  PROVE  SizeInv'
BY DEF SizeInv, SettledPcs, WritePcs, TruncPcs

\* A step of somebody else leaves what a writeback has in hand within i_size.
LEMMA WithinQuiet ==
  ASSUME LockedInv, WithinInv, isize' \in Nat, isize <= isize', NEW t \in Actors,
         \A u \in Actors \ {t} : pc'[u] = pc[u] /\ at'[u] = at[u] /\ to'[u] = to[u],
         pc'[t] \notin WritebackPcs, pc[t] = "t_pages" => pc'[t] = pc[t] /\ at'[t] = at[t]
  PROVE  WithinInv'
<1>1. \A u \in Actors : at[u] * PageSize \in Nat /\ to[u] \in Nat /\ isize \in Nat
  BY PageBounds DEF LockedInv, Types, ActorTypes, FileTypes
<1>2. \A p \in Nat : CutPending(p) => CutPending(p)'
  BY DEF CutPending, Actors
<1>3. \A u \in Actors : at[u] \in Nat
  BY PageBounds DEF LockedInv, Types, ActorTypes
<1> QED
  BY <1>1, <1>2, <1>3 DEF WithinInv, WritebackPcs

LEMMA WriteKeepsSize ==
  ASSUME LockedInv, SizeInv, WithinInv, NEW t \in Tasks,
         \/ WriteStep(t)
         \/ \E p \in Pages, i \in 0..(PageSize - 1) : \E n \in 1..(PageSize - i) : WriteStart(t, p, i, n)
  PROVE  SizeInv' /\ WithinInv'
<1> USE DEF Goto
<1> t \in Actors
  BY DEF Actors
<1>1. isize \in Nat /\ Len(lower) \in Nat /\ pc \in [Actors -> Pcs] /\ at \in [Actors -> 0..NumPages]
      /\ to \in [Actors -> 0..PageSize] /\ arg \in [Actors -> Nat] /\ ok \in [Actors -> BOOLEAN]
      /\ MutexInv /\ \A u \in Tasks : u # NoOne
  BY PageBounds, ActorsAreDistinct DEF LockedInv, Types, ActorTypes, FileTypes
<1>2. ASSUME NEW p \in Pages, NEW i \in 0..(PageSize - 1), NEW n \in 1..(PageSize - i),
             WriteStart(t, p, i, n)
      PROVE  SizeInv' /\ WithinInv'
  <2>1. SizeInv'
    BY <1>1, <1>2 DEF WriteStart, LockInode, MutexInv, SizeInv, SettledPcs, WritePcs, TruncPcs
  <2>2. WithinInv'
    BY <1>1, <1>2, WithinQuiet DEF WriteStart, WritebackPcs
  <2> QED
    BY <2>1, <2>2
<1>3. CASE WriteGrab(t) \/ WriteFill(t) \/ WriteFillFails(t) \/ WriteCopy(t)
  <2>1. /\ fileVars' = fileVars /\ pc[t] \in {"w_grab", "w_fill", "w_copy"}
        /\ pc'[t] \in {"w_fill", "w_copy", "w_push", "w_done"}
        /\ \A u \in Actors \ {t} : /\ pc'[u] = pc[u] /\ arg'[u] = arg[u] /\ ok'[u] = ok[u]
                                   /\ at'[u] = at[u] /\ to'[u] = to[u]
    <3>1. CASE WriteGrab(t)
      BY <1>1, <3>1 DEF WriteGrab
    <3>2. CASE WriteFill(t) \/ WriteFillFails(t)
      BY <1>1, <3>2 DEF WriteFill, WriteFillFails
    <3>3. CASE WriteCopy(t)
      BY <1>1, <3>3 DEF WriteCopy
    <3> QED
      BY <1>3, <3>1, <3>2, <3>3
  <2>2. SizeInv'
    BY <2>1, SizeQuiet DEF fileVars, SettledPcs, WritePcs, Actors
  <2>3. WithinInv'
    BY SMTT(30), <1>1, <2>1, WithinQuiet DEF fileVars, WritebackPcs
  <2> QED
    BY <2>2, <2>3
<1>4. CASE WritePush(t)
  <2>1. PICK o \in Outcomes(to[t]) :
          /\ lower' = WrittenAt(at[t] * PageSize, at[t], o.cells)
          /\ ok' = [ok EXCEPT ![t] = ~o.error]
    BY <1>4 DEF WritePush
  <2>2. o.cells \in 0..PageSize /\ o.error \in BOOLEAN /\ (o.error => o.cells = 0) /\ at[t] \in Pages
    BY <1>1, <1>4, OutcomesType, PageBounds DEF WritePush, LockedInv, LockInv, CopyPcs, UsingPcs
  <2>3. Len(lower') \in Nat /\ Len(lower') >= Len(lower) /\ (o.error => Len(lower') = Len(lower))
    <3>1. at[t] * PageSize \in Nat
      BY <2>2, PagesFit
    <3>2. /\ Len(lower') = WrittenEnd(at[t] * PageSize, o.cells)
          /\ WrittenEnd(at[t] * PageSize, o.cells) \in Nat /\ WrittenEnd(at[t] * PageSize, o.cells) >= Len(lower)
      BY <2>1, <2>2, <3>1, WrittenType DEF LockedInv, Types, FileTypes, PageTypes
    <3> QED
      BY <2>2, <3>2 DEF WrittenEnd
  <2>4. SizeInv'
    BY <1>1, <1>4, <2>1, <2>2, <2>3, OnePerMutex
       DEF WritePush, SizeInv, SettledPcs, WritePcs, TruncPcs, Actors
  <2>5. WithinInv'
    BY <1>1, <1>4, WithinQuiet DEF WritePush, WritebackPcs
  <2> QED
    BY <2>4, <2>5
<1>5. CASE WriteEnd(t)
  <2>1. SizeInv'
    BY <1>1, <1>5, OnePerMutex DEF WriteEnd, SizeInv, SettledPcs, WritePcs, TruncPcs, Actors
  <2>2. isize' \in Nat /\ isize <= isize'
    BY <1>1, <1>5 DEF WriteEnd, SizeInv
  <2>3. WithinInv'
    BY <1>1, <1>5, <2>2, WithinQuiet DEF WriteEnd, WritebackPcs
  <2> QED
    BY <2>1, <2>3
<1>6. CASE WriteReturn(t)
  <2>1. SizeInv'
    BY <1>1, <1>6, OnePerMutex DEF WriteReturn, UnlockInode, Finish, SizeInv, SettledPcs, WritePcs, TruncPcs, Actors
  <2>2. WithinInv'
    BY <1>1, <1>6, WithinQuiet DEF WriteReturn, Finish, WritebackPcs
  <2> QED
    BY <2>1, <2>2
<1> QED
  BY <1>2, <1>3, <1>4, <1>5, <1>6 DEF WriteStep

\* Writeback of a page: taking it, reading i_size again, the transfer.
LEMMA BeginKeepsSize ==
  ASSUME LockedInv, SizeInv, WithinInv, NEW t \in Actors, NEW p \in Pages, pc[t] \in {"idle", "s_lock"},
         pc' = [pc EXCEPT ![t] = LengthStep(p, IF t = Flusher THEN "f_size" ELSE "s_size",
                                               IF t = Flusher THEN "f_push" ELSE "s_push")],
         at' = [at EXCEPT ![t] = p], WritepageBegin(t, p), UNCHANGED ok
  PROVE  SizeInv' /\ WithinInv'
<1>1. isize \in Nat /\ pc \in [Actors -> Pcs] /\ at \in [Actors -> 0..NumPages]
      /\ to \in [Actors -> 0..PageSize] /\ p * PageSize \in Nat
  BY PageBounds, PagesFit DEF LockedInv, Types, ActorTypes, FileTypes
<1>2. pc'[t] \in {"f_push", "s_push"} \/ (pc'[t] \in {"f_size", "s_size"} /\ p * PageSize <= isize)
  <2>1. p = isize \div PageSize => p * PageSize <= isize
    <3>1. \A n \in Nat : n \div PageSize \in Nat /\ (n \div PageSize) * PageSize <= n
      BY PageBounds
    <3> QED
      BY <1>1, <3>1
  <2>2. pc'[t] = LengthStep(p, IF t = Flusher THEN "f_size" ELSE "s_size",
                               IF t = Flusher THEN "f_push" ELSE "s_push")
    BY <1>1
  <2>3. CASE p = isize \div PageSize
    BY <2>1, <2>2, <2>3 DEF LengthStep
  <2>4. CASE p # isize \div PageSize
    BY <2>2, <2>4 DEF LengthStep
  <2> QED
    BY <2>3, <2>4
<1>3. PageLength(p) = 0 \/ p * PageSize + PageLength(p) <= isize
  BY <1>1, PageLengthType
<1>4. SizeInv'
  BY <1>1, <1>2, SizeQuiet DEF WritepageBegin, fileVars, WritePcs, TruncPcs, Actors
<1>5. \A q \in Nat : CutPending(q) => CutPending(q)'
  BY <1>1 DEF CutPending, Actors
<1>6. \A u \in Actors : at[u] \in Nat
  BY <1>1, PageBounds
<1>7. /\ isize' = isize /\ at'[t] = p /\ to'[t] = PageLength(p)
      /\ \A u \in Actors \ {t} : pc'[u] = pc[u] /\ at'[u] = at[u] /\ to'[u] = to[u]
  BY <1>1 DEF WritepageBegin, fileVars
<1>8. WithinInv'
  BY <1>2, <1>3, <1>5, <1>6, <1>7 DEF WithinInv
<1> QED
  BY <1>4, <1>8

LEMMA LengthKeepsSize ==
  ASSUME LockedInv, SizeInv, WithinInv, NEW t \in Actors, pc[t] \in {"f_size", "s_size"},
         pc' = [pc EXCEPT ![t] = IF t = Flusher THEN "f_push" ELSE "s_push"], WritepageSize(t)
  PROVE  SizeInv' /\ WithinInv'
<1>1. isize \in Nat /\ pc \in [Actors -> Pcs] /\ at \in [Actors -> 0..NumPages]
      /\ to \in [Actors -> 0..PageSize] /\ at[t] \in Pages /\ at[t] * PageSize \in Nat
      /\ isize % PageSize \in Nat
  <2>1. isize \in Nat /\ at[t] \in Pages
    BY PageBounds DEF LockedInv, Types, FileTypes, LockInv, WritebackPcs, UsingPcs
  <2>2. isize % PageSize \in Nat /\ at[t] * PageSize \in Nat
    BY <2>1, PagesFit, PageBounds
  <2> QED
    BY <2>1, <2>2 DEF LockedInv, Types, ActorTypes
<1>2. at[t] * PageSize <= isize => at[t] * PageSize + (isize % PageSize) <= isize
  <2>1. isize \div PageSize \in Nat /\ at[t] \in Nat
        /\ isize = (isize \div PageSize) * PageSize + (isize % PageSize)
        /\ isize % PageSize < PageSize /\ (isize \div PageSize) * PageSize \in Nat
    <3>1. \A n \in Nat : /\ n \div PageSize \in Nat /\ (n \div PageSize) * PageSize \in Nat
                         /\ n = (n \div PageSize) * PageSize + (n % PageSize) /\ n % PageSize < PageSize
      BY PageBounds
    <3> QED
      BY <1>1, <3>1 DEF Pages
  <2>2. CASE isize \div PageSize < at[t]
    BY <1>1, <2>1, <2>2, PagesAreApart, PageBounds
  <2>3. CASE at[t] <= isize \div PageSize
    <3>1. at[t] * PageSize <= (isize \div PageSize) * PageSize
      BY <1>1, <2>1, <2>3, PagesAreApart, PageBounds
    <3> QED
      BY <1>1, <2>1, <3>1
  <2> QED
    BY <2>1, <2>2, <2>3
<1>3. SizeInv'
  BY <1>1, SizeQuiet DEF WritepageSize, fileVars, WritePcs, TruncPcs, Actors
<1>4. \A q \in Nat : CutPending(q) => CutPending(q)'
  BY <1>1 DEF CutPending, Actors, WritepageSize
<1>5. \A u \in Actors : at[u] \in Nat
  BY <1>1, PageBounds
<1>6. /\ isize' = isize /\ at' = at /\ to'[t] = isize % PageSize
      /\ \A u \in Actors \ {t} : pc'[u] = pc[u] /\ to'[u] = to[u]
  BY <1>1 DEF WritepageSize, fileVars
<1>7. WithinInv'
  BY <1>1, <1>2, <1>4, <1>5, <1>6 DEF WithinInv
<1> QED
  BY <1>3, <1>7

LEMMA EndKeepsSize ==
  ASSUME LockedInv, SizeInv, WithinInv, NEW t \in Actors, pc[t] \in {"f_push", "s_push"},
         NEW written \in BOOLEAN, WritepageEnd(t, written),
         pc'[t] \in {"idle", "s_next", "s_done"},
         \A u \in Actors \ {t} : /\ pc'[u] = pc[u] /\ at'[u] = at[u] /\ to'[u] = to[u]
                                 /\ arg'[u] = arg[u] /\ ok'[u] = ok[u]
  PROVE  SizeInv' /\ WithinInv'
<1>1. isize \in Nat /\ Len(lower) \in Nat /\ at[t] \in Pages /\ at[t] * PageSize \in Nat
      /\ to[t] \in 0..PageSize
  BY PageBounds, PagesFit DEF LockedInv, Types, ActorTypes, FileTypes, LockInv, WritebackPcs, UsingPcs
<1>2. PICK o \in Outcomes(to[t]) : lower' = WrittenAt(WritepageOffset(at[t]), at[t], o.cells)
  BY DEF WritepageEnd
<1>3. o.cells \in 0..PageSize /\ o.cells <= to[t]
  BY <1>1, OutcomesType, PageBounds
<1>4. /\ Len(lower') \in Nat /\ Len(lower') >= Len(lower)
      /\ Len(lower') = Len(lower) \/ Len(lower') <= isize \/ CutPending(at[t])
  <2>1. WritepageOffset(at[t]) \in Nat /\ WritepageOffset(at[t]) <= at[t] * PageSize
    BY <1>1, OffsetFits
  <2>2. Len(lower') = WrittenEnd(WritepageOffset(at[t]), o.cells) /\ Len(lower') \in Nat
        /\ Len(lower') >= Len(lower)
    BY <1>2, <1>3, <1>1, <2>1, WrittenType DEF LockedInv, Types, FileTypes, PageTypes
  <2>3. to[t] = 0 \/ at[t] * PageSize + to[t] <= isize \/ CutPending(at[t])
    BY DEF WithinInv
  <2> QED
    BY <1>1, <1>3, <2>1, <2>2, <2>3 DEF WrittenEnd
<1>5. CutPending(at[t]) => imutex # NoOne /\ \A u \in Tasks : pc[u] \in WritePcs \cup TruncPcs => pc[u] = "t_pages"
  BY OnePerMutex DEF LockedInv, CutPending, WritePcs, TruncPcs
<1>6. isize' = isize /\ imutex' = imutex
  BY DEF WritepageEnd
<1>7. SizeInv'
  <2>1. \A u \in Tasks : u # t => pc'[u] = pc[u] /\ arg'[u] = arg[u] /\ ok'[u] = ok[u]
    BY DEF Actors
  <2>2. (imutex' = NoOne => isize' = Len(lower'))
    BY <1>1, <1>4, <1>5, <1>6 DEF SizeInv
  <2>3. \A u \in Tasks : arg[u] \in Nat
    BY DEF LockedInv, Types, ActorTypes, Actors
  <2> QED
    BY <1>1, <1>4, <1>5, <1>6, <2>1, <2>2, <2>3 DEF SizeInv, SettledPcs, WritePcs, TruncPcs
<1>8. WithinInv'
  BY <1>1, <1>6, WithinQuiet DEF WritebackPcs
<1> QED
  BY <1>7, <1>8

LEMMA OthersKeepSize ==
  ASSUME LockedInv, SizeInv, WithinInv, NEW t \in Actors,
         \/ ReadFill(t) \/ SyncStart(t) \/ SyncNext(t) \/ SyncReturn(t)
         \/ \E p \in Pages : ReadStart(t, p) \/ \E i \in 1..PageSize : Store(t, p, i)
  PROVE  SizeInv' /\ WithinInv'
<1> USE DEF Goto
<1>1. isize \in Nat /\ pc \in [Actors -> Pcs] /\ at \in [Actors -> 0..NumPages]
      /\ to \in [Actors -> 0..PageSize] /\ arg \in [Actors -> Nat] /\ ok \in [Actors -> BOOLEAN]
  BY PageBounds DEF LockedInv, Types, ActorTypes, FileTypes
<1> DEFINE Quiet == /\ fileVars' = fileVars /\ pc[t] \in {"idle", "r_fill", "s_next", "s_done"}
                    /\ pc'[t] \in {"idle", "r_fill", "s_next", "s_lock", "s_done"}
                    /\ \A u \in Actors \ {t} : /\ pc'[u] = pc[u] /\ arg'[u] = arg[u] /\ ok'[u] = ok[u]
                                               /\ at'[u] = at[u] /\ to'[u] = to[u]
<1>2. Quiet
  <2>1. CASE ReadFill(t) \/ SyncReturn(t)
    BY <1>1, <2>1 DEF ReadFill, SyncReturn, Finish
  <2>2. CASE SyncStart(t) \/ SyncNext(t)
    BY <1>1, <2>2 DEF SyncStart, SyncNext
  <2>3. ASSUME NEW p \in Pages, ReadStart(t, p) \/ \E i \in 1..PageSize : Store(t, p, i)
        PROVE  Quiet
    BY <1>1, <2>3 DEF ReadStart, Store, actorVars
  <2> QED
    BY <2>1, <2>2, <2>3
<1>3. SizeInv'
  BY <1>2, SizeQuiet DEF fileVars, WritePcs, TruncPcs, Actors
<1>4. WithinInv'
  BY <1>1, <1>2, WithinQuiet DEF fileVars, WritebackPcs
<1> QED
  BY <1>3, <1>4

LEMMA WritebackKeepsSize ==
  ASSUME LockedInv, SizeInv, WithinInv,
         \/ FlushSize \/ FlushEnd \/ \E p \in Pages : FlushBegin(p)
         \/ \E t \in Tasks : SyncLock(t) \/ SyncSize(t) \/ SyncPush(t)
  PROVE  SizeInv' /\ WithinInv'
<1> USE DEF Goto
<1> Flusher \in Actors /\ \A t \in Tasks : t \in Actors /\ t # Flusher
  BY ActorsAreDistinct DEF Actors
<1>1. isize \in Nat /\ pc \in [Actors -> Pcs] /\ at \in [Actors -> 0..NumPages]
      /\ to \in [Actors -> 0..PageSize] /\ arg \in [Actors -> Nat] /\ ok \in [Actors -> BOOLEAN]
  BY SMTT(30), PageBounds DEF LockedInv, Types, ActorTypes, FileTypes
<1>2. ASSUME NEW p \in Pages, FlushBegin(p)
      PROVE  SizeInv' /\ WithinInv'
  BY <1>1, <1>2, BeginKeepsSize DEF FlushBegin
<1>3. CASE FlushSize
  BY <1>1, <1>3, LengthKeepsSize DEF FlushSize
<1>4. CASE FlushEnd
  <2>1. PICK written \in BOOLEAN : WritepageEnd(Flusher, written)
    BY <1>4 DEF FlushEnd
  <2>2. pc[Flusher] = "f_push" /\ pc'[Flusher] = "idle"
        /\ \A u \in Actors \ {Flusher} : /\ pc'[u] = pc[u] /\ at'[u] = at[u] /\ to'[u] = to[u]
                                         /\ arg'[u] = arg[u] /\ ok'[u] = ok[u]
    BY <1>1, <1>4 DEF FlushEnd, Finish
  <2> QED
    BY <2>1, <2>2, EndKeepsSize
<1>5. ASSUME NEW t \in Tasks, SyncLock(t)
      PROVE  SizeInv' /\ WithinInv'
  <2>1. at[t] \in Pages /\ pc[t] = "s_lock"
    BY <1>5 DEF SyncLock, LockedInv, LockInv
  <2>2. CASE /\ pc' = [pc EXCEPT ![t] = LengthStep(at[t], "s_size", "s_push")]
             /\ WritepageBegin(t, at[t]) /\ UNCHANGED <<at, ok>>
    <3>1. at' = [at EXCEPT ![t] = at[t]]
      BY <1>1, <2>2
    <3> QED
      BY <1>1, <2>1, <2>2, <3>1, BeginKeepsSize
  <2>3. CASE /\ Goto(t, "s_lock", "s_next") /\ at' = [at EXCEPT ![t] = @ + 1]
             /\ UNCHANGED <<fileVars, pageVars, clock, scenario, from, to, arg, ok, want>>
    <3>1. SizeInv'
      BY <1>1, <2>3, SizeQuiet DEF fileVars, WritePcs, TruncPcs, Actors
    <3>2. WithinInv'
      BY <1>1, <2>3, WithinQuiet DEF fileVars, WritebackPcs
    <3> QED
      BY <3>1, <3>2
  <2> QED
    BY <1>5, <2>2, <2>3 DEF SyncLock
<1>6. ASSUME NEW t \in Tasks, SyncSize(t)
      PROVE  SizeInv' /\ WithinInv'
  BY <1>1, <1>6, LengthKeepsSize DEF SyncSize
<1>7. ASSUME NEW t \in Tasks, SyncPush(t)
      PROVE  SizeInv' /\ WithinInv'
  <2>1. PICK written \in BOOLEAN : WritepageEnd(t, written) /\ ok' = [ok EXCEPT ![t] = written]
          /\ pc' = [pc EXCEPT ![t] = IF written THEN "s_next" ELSE "s_done"]
    BY <1>7 DEF SyncPush
  <2>2. pc[t] = "s_push" /\ pc'[t] \in {"s_next", "s_done"}
        /\ \A u \in Actors \ {t} : /\ pc'[u] = pc[u] /\ at'[u] = at[u] /\ to'[u] = to[u]
                                   /\ arg'[u] = arg[u] /\ ok'[u] = ok[u]
    BY <1>1, <1>7, <2>1 DEF SyncPush
  <2> QED
    BY <2>1, <2>2, EndKeepsSize
<1> QED
  BY <1>2, <1>3, <1>4, <1>5, <1>6, <1>7

LEMMA TruncKeepsSize ==
  ASSUME LockedInv, SizeInv, WithinInv, NEW t \in Tasks,
         TruncStep(t) \/ \E n \in 0..(NumPages * PageSize) : TruncStart(t, n)
  PROVE  SizeInv' /\ WithinInv'
<1> USE DEF Goto
<1> t \in Actors
  BY DEF Actors
<1>1. isize \in Nat /\ Len(lower) \in Nat /\ pc \in [Actors -> Pcs] /\ at \in [Actors -> 0..NumPages]
      /\ to \in [Actors -> 0..PageSize] /\ arg \in [Actors -> Nat] /\ ok \in [Actors -> BOOLEAN]
      /\ MutexInv /\ \A u \in Tasks : u # NoOne /\ u \in Actors
  BY SMTT(30), PageBounds, ActorsAreDistinct DEF LockedInv, Types, ActorTypes, FileTypes, Actors
<1>2. ASSUME NEW n \in 0..(NumPages * PageSize), TruncStart(t, n)
      PROVE  SizeInv' /\ WithinInv'
  <2>1. SizeInv'
    BY <1>1, <1>2 DEF TruncStart, LockInode, MutexInv, SizeInv, SettledPcs, WritePcs, TruncPcs
  <2>2. WithinInv'
    BY <1>1, <1>2, WithinQuiet DEF TruncStart, WritebackPcs
  <2> QED
    BY <2>1, <2>2
<1>3. CASE TruncLower(t)
  <2>1. Len(lower') = arg[t]
    BY <1>1, <1>3, ResizedType DEF TruncLower, LockedInv, Types, FileTypes
  <2>2. SizeInv'
    BY <1>1, <1>3, <2>1, OnePerMutex DEF TruncLower, SizeInv, SettledPcs, WritePcs, TruncPcs
  <2>3. WithinInv'
    BY <1>1, <1>3, WithinQuiet DEF TruncLower, WritebackPcs
  <2> QED
    BY <2>2, <2>3
<1>4. CASE TruncLowerFails(t)
  <2>1. SizeInv'
    BY <1>1, <1>4, OnePerMutex DEF TruncLowerFails, fileVars, SizeInv, SettledPcs, WritePcs, TruncPcs
  <2>2. WithinInv'
    BY <1>1, <1>4, WithinQuiet DEF TruncLowerFails, fileVars, WritebackPcs
  <2> QED
    BY <2>1, <2>2
<1>5. CASE TruncSize(t)
  <2>1. SizeInv'
    BY <1>1, <1>5, OnePerMutex DEF TruncSize, SizeInv, SettledPcs, WritePcs, TruncPcs
  <2>2. ASSUME NEW u \in Actors, at[u] \in Pages, pc[u] \in WritebackPcs
        PROVE  at[u] * PageSize + PageSize <= arg[t] \/ arg[t] \div PageSize <= at[u]
    <3>1. arg[t] \div PageSize \in Nat /\ (arg[t] \div PageSize) * PageSize \in Nat
          /\ (arg[t] \div PageSize) * PageSize <= arg[t]
      <4>1. \A n \in Nat : n \div PageSize \in Nat /\ (n \div PageSize) * PageSize \in Nat
                           /\ (n \div PageSize) * PageSize <= n
        BY PageBounds
      <4> QED
        BY <1>1, <4>1
    <3>2. CASE at[u] < arg[t] \div PageSize
      <4>1. at[u] * PageSize + PageSize <= (arg[t] \div PageSize) * PageSize /\ at[u] * PageSize \in Nat
        BY <2>2, <3>1, <3>2, PagesAreApart DEF Pages
      <4> QED
        BY <1>1, <3>1, <4>1, PageBounds
    <3> QED
      BY <2>2, <3>1, <3>2 DEF Pages
  <2>3. isize' = arg[t] /\ pc'[t] = "t_pages" /\ at'[t] = arg[t] \div PageSize /\ to' = to
        /\ \A u \in Actors \ {t} : pc'[u] = pc[u] /\ at'[u] = at[u]
    BY <1>1, <1>5 DEF TruncSize
  <2>4. \A u \in Actors : pc[u] \in WritebackPcs =>
            /\ u # t /\ at[u] \in Pages /\ to[u] \in Nat /\ to[u] <= PageSize /\ at[u] * PageSize \in Nat
            /\ at[u] * PageSize + PageSize <= arg[t] \/ CutPending(at[u])'
    <3>1. \A u \in Actors : pc[u] \in WritebackPcs => u # t /\ at[u] \in Pages
      BY <1>5 DEF TruncSize, LockedInv, LockInv, WritebackPcs, UsingPcs
    <3>2. \A u \in Actors : pc[u] \in WritebackPcs =>
              to[u] \in Nat /\ to[u] <= PageSize /\ at[u] * PageSize \in Nat
      BY <1>1, <3>1, PagesFit, PageBounds
    <3>3. \A u \in Actors : pc[u] \in WritebackPcs =>
              at[u] * PageSize + PageSize <= arg[t] \/ CutPending(at[u])'
      BY <2>2, <2>3, <3>1 DEF CutPending
    <3> QED
      BY <3>1, <3>2, <3>3
  <2>5. WithinInv'
    <3>1. \A u \in Actors : pc'[u] \in WritebackPcs => u # t
      BY <2>3 DEF WritebackPcs
    <3>2. \A u \in Actors : pc[u] \in WritebackPcs =>
              /\ at[u] * PageSize + to[u] <= arg[t] \/ CutPending(at[u])'
              /\ at[u] * PageSize <= arg[t] \/ CutPending(at[u])'
      BY <1>1, <2>4, PageBounds
    <3>3. \A u \in Actors : pc'[u] \in WritebackPcs => pc[u] \in WritebackPcs /\ at'[u] = at[u]
      BY <2>3, <3>1
    <3> QED
      BY <2>3, <3>2, <3>3 DEF WithinInv, WritebackPcs
  <2> QED
    BY <2>1, <2>5
<1>6. CASE TruncPages(t)
  <2>1. SizeInv'
    BY <1>1, <1>6 DEF TruncPages, fileVars, SizeInv
  <2>2. isize' = isize /\ pc' = pc /\ pc[t] = "t_pages" /\ at[t] \in Pages
        /\ at' = [at EXCEPT ![t] = at[t] + 1] /\ to' = to
    <3>1. at[t] < NumPages /\ at[t] \in Nat /\ NumPages \in Nat
      BY <1>1, <1>6, PageBounds DEF TruncPages
    <3> QED
      BY <1>6, <3>1 DEF TruncPages, fileVars, Pages
  <2>3. \A u \in Actors : pc[u] \in WritebackPcs => u # t /\ at[u] # at[t] /\ at[u] \in Nat
    <3>1. \A u \in Actors : pc[u] \in WritebackPcs =>
              u # NoOne /\ at[u] \in cached /\ plock[at[u]] = u /\ at[u] \in Pages
      BY ActorsAreDistinct DEF LockedInv, LockInv, UsingPcs, Actors
    <3>2. at[t] \in cached => plock[at[t]] = NoOne
      BY <1>6 DEF TruncPages
    <3>3. \A u \in Actors : pc[u] \in WritebackPcs => u # t
      BY <2>2 DEF WritebackPcs
    <3> QED
      BY <3>1, <3>2, <3>3 DEF Pages
  <2>4. \A p \in Nat : CutPending(p) /\ p # at[t] => CutPending(p)'
    BY <1>1, <2>2, PageBounds DEF CutPending, Pages
  <2>5. WithinInv'
    BY <1>1, <2>2, <2>3, <2>4 DEF WithinInv, WritebackPcs
  <2> QED
    BY <2>1, <2>5
<1>7. CASE TruncPagesDone(t)
  <2>1. SizeInv'
    BY <1>1, <1>7, OnePerMutex DEF TruncPagesDone, fileVars, SizeInv, SettledPcs, WritePcs, TruncPcs
  <2>2. \A u \in Actors : pc[u] \in WritebackPcs => u # t /\ at[u] < at[t] /\ at[u] \in Nat
    <3>1. \A u \in Actors : pc[u] \in WritebackPcs => at[u] \in Pages
      BY DEF LockedInv, LockInv, UsingPcs
    <3> QED
      BY <1>7, <3>1, PageBounds DEF TruncPagesDone, Pages, WritebackPcs
  <2>3. \A p \in Nat : CutPending(p) /\ p < at[t] => CutPending(p)'
    BY <1>1, <1>7, PageBounds DEF TruncPagesDone, CutPending
  <2>4. WithinInv'
    <3>1. isize' = isize /\ at' = at /\ to' = to /\ pc[t] = "t_pages" /\ pc' = [pc EXCEPT ![t] = "t_copy"]
      BY <1>7 DEF TruncPagesDone, fileVars
    <3> QED
      BY <1>1, <2>2, <2>3, <3>1 DEF WithinInv, WritebackPcs
  <2> QED
    BY <2>1, <2>4
<1>8. CASE TruncCopy(t)
  <2>1. SizeInv'
    BY <1>1, <1>8, OnePerMutex DEF TruncCopy, SizeInv, SettledPcs, WritePcs, TruncPcs
  <2>2. isize <= Len(lower)
    BY <1>8 DEF TruncCopy, SizeInv
  <2>3. WithinInv'
    BY <1>1, <1>8, <2>2, WithinQuiet DEF TruncCopy, WritebackPcs
  <2> QED
    BY <2>1, <2>3
<1>9. CASE TruncReturn(t)
  <2>1. SizeInv'
    BY <1>1, <1>9, OnePerMutex DEF TruncReturn, UnlockInode, Finish, SizeInv, SettledPcs, WritePcs, TruncPcs
  <2>2. WithinInv'
    BY <1>1, <1>9, WithinQuiet DEF TruncReturn, Finish, WritebackPcs
  <2> QED
    BY <2>1, <2>2
<1> QED
  BY <1>2, <1>3, <1>4, <1>5, <1>6, <1>7, <1>8, <1>9 DEF TruncStep

LEMMA DropKeepsSize ==
  ASSUME LockedInv, SizeInv, WithinInv,
         EvictInode \/ (\E p \in Pages : Reclaim(p)) \/ UNCHANGED vars
  PROVE  SizeInv' /\ WithinInv'
<1>1. CASE EvictInode
  BY <1>1 DEF EvictInode, actorVars, SizeInv, WithinInv, CutPending, SettledPcs, WritePcs, Actors
<1>2. CASE (\E p \in Pages : Reclaim(p)) \/ UNCHANGED vars
  BY <1>2 DEF Reclaim, vars, fileVars, actorVars, SizeInv, WithinInv, CutPending
<1> QED
  BY <1>1, <1>2

LEMMA SizeAlways == Spec => [](LockedInv /\ StoresInv /\ SizeInv /\ WithinInv)
<1>1. Init => SizeInv /\ WithinInv
  BY DEF Init, SizeInv, WithinInv, SettledPcs, WritePcs, Actors
<1>2. LockedInv /\ SizeInv /\ WithinInv /\ [Next]_vars => SizeInv' /\ WithinInv'
  <2> SUFFICES ASSUME LockedInv, SizeInv, WithinInv, [Next]_vars PROVE SizeInv' /\ WithinInv'
    OBVIOUS
  <2>1. ASSUME NEW t \in Tasks, SyncStep(t)
        PROVE  SizeInv' /\ WithinInv'
    BY <2>1, OthersKeepSize, WritebackKeepsSize DEF SyncStep, Actors
  <2>2. ASSUME NEW t \in Tasks, Begin(t)
        PROVE  SizeInv' /\ WithinInv'
    BY <2>2, OthersKeepSize, WriteKeepsSize, TruncKeepsSize DEF Begin, Actors
  <2>3. ASSUME NEW t \in Tasks, Step(t)
        PROVE  SizeInv' /\ WithinInv'
    BY <2>1, <2>3, OthersKeepSize, WriteKeepsSize, TruncKeepsSize DEF Step, Actors
  <2> QED
    BY <2>2, <2>3, WritebackKeepsSize, DropKeepsSize DEF Next
<1> QED
  BY <1>1, <1>2, LockedAlways, PTL DEF Spec

\* For any number of tasks, pages and stores, whatever the lower filesystem
\* fails: when nobody changes the file, lofs and the lower file agree on its
\* size (WriteEnd and TruncCopy, src/lofs/mmap.c and inode.c, restore that).
THEOREM SizesAlwaysAgree == Spec => []SizesAgree
<1>1. LockedInv /\ SizeInv => SizesAgree
  BY DEF LockedInv, Types, ActorTypes, FileTypes, PageTypes, SizeInv, SizesAgree, TypeOK
<1> QED
  BY <1>1, SizeAlways, PTL

-----------------------------------------------------------------------------
(* What a step of one actor leaves alone.                                   *)

Alone(t) ==
    /\ scenario' = scenario
    /\ \A u \in Actors \ {t} :
          /\ pc'[u] = pc[u] /\ at'[u] = at[u] /\ from'[u] = from[u] /\ to'[u] = to[u]
          /\ arg'[u] = arg[u] /\ ok'[u] = ok[u] /\ want'[u] = want[u]

LEMMA FinishAlone ==
  ASSUME ActorTypes, NEW t \in Actors, Finish(t), scenario' = scenario
  PROVE  /\ Alone(t) /\ pc'[t] = "idle" /\ at'[t] = 0 /\ from'[t] = 0 /\ to'[t] = 0
         /\ arg'[t] = 0 /\ ok'[t] = TRUE /\ want'[t] = <<>>
BY DEF Finish, ActorTypes, Alone

LEMMA WriteAlone ==
  ASSUME ActorTypes, NEW t \in Actors,
         \/ WriteStep(t)
         \/ \E p \in Pages, i \in 0..(PageSize - 1) : \E n \in 1..(PageSize - i) : WriteStart(t, p, i, n)
  PROVE  Alone(t)
<1> USE DEF Goto, ActorTypes
<1>1. ASSUME NEW p \in Pages, NEW i \in 0..(PageSize - 1), NEW n \in 1..(PageSize - i),
             WriteStart(t, p, i, n)
      PROVE  Alone(t)
  BY <1>1 DEF WriteStart, Alone
<1>2. CASE WriteGrab(t) \/ WriteFill(t) \/ WriteFillFails(t)
  BY <1>2 DEF WriteGrab, WriteFill, WriteFillFails, Alone
<1>3. CASE WriteCopy(t)
  BY <1>3 DEF WriteCopy, Alone
<1>4. CASE WritePush(t) \/ WriteEnd(t)
  BY <1>4 DEF WritePush, WriteEnd, Alone
<1>5. CASE WriteReturn(t)
  BY <1>5, FinishAlone DEF WriteReturn
<1> QED
  BY <1>1, <1>2, <1>3, <1>4, <1>5 DEF WriteStep

LEMMA ReadAlone ==
  ASSUME ActorTypes, NEW t \in Actors,
         ReadFill(t) \/ \E p \in Pages : ReadStart(t, p) \/ \E i \in 1..PageSize : Store(t, p, i)
  PROVE  Alone(t)
<1>1. CASE ReadFill(t)
  BY <1>1, FinishAlone DEF ReadFill
<1>2. ASSUME NEW p \in Pages, ReadStart(t, p)
      PROVE  Alone(t)
  BY <1>2 DEF ReadStart, Goto, Alone, ActorTypes
<1>3. ASSUME NEW p \in Pages, NEW i \in 1..PageSize, Store(t, p, i)
      PROVE  Alone(t)
  BY <1>3 DEF Store, actorVars, Alone
<1> QED
  BY <1>1, <1>2, <1>3

LEMMA SyncAlone ==
  ASSUME ActorTypes, NEW t \in Actors, SyncStep(t) \/ SyncStart(t)
  PROVE  Alone(t)
<1> USE DEF Goto, ActorTypes
<1>1. CASE SyncStart(t) \/ SyncNext(t)
  BY <1>1 DEF SyncStart, SyncNext, Alone
<1>2. CASE SyncLock(t) \/ SyncSize(t)
  BY <1>2 DEF SyncLock, SyncSize, WritepageBegin, WritepageSize, Alone
<1>3. CASE SyncPush(t)
  BY <1>3 DEF SyncPush, WritepageEnd, Alone
<1>4. CASE SyncReturn(t)
  BY <1>4, FinishAlone DEF SyncReturn
<1> QED
  BY <1>1, <1>2, <1>3, <1>4 DEF SyncStep

LEMMA TruncAlone ==
  ASSUME ActorTypes, NEW t \in Actors,
         TruncStep(t) \/ \E n \in 0..(NumPages * PageSize) : TruncStart(t, n)
  PROVE  Alone(t)
<1> USE DEF Goto, ActorTypes
<1>1. ASSUME NEW n \in 0..(NumPages * PageSize), TruncStart(t, n)
      PROVE  Alone(t)
  BY <1>1 DEF TruncStart, Alone
<1>2. CASE TruncLower(t) \/ TruncLowerFails(t) \/ TruncSize(t) \/ TruncPagesDone(t) \/ TruncCopy(t)
  BY <1>2 DEF TruncLower, TruncLowerFails, TruncSize, TruncPagesDone, TruncCopy, Alone
<1>3. CASE TruncPages(t)
  BY <1>3 DEF TruncPages, Alone
<1>4. CASE TruncReturn(t)
  BY <1>4, FinishAlone DEF TruncReturn
<1> QED
  BY <1>1, <1>2, <1>3, <1>4 DEF TruncStep

LEMMA FlushAlone ==
  ASSUME ActorTypes, FlushSize \/ FlushEnd \/ \E p \in Pages : FlushBegin(p)
  PROVE  Alone(Flusher) /\ Flusher \in Actors
<1> Flusher \in Actors
  BY DEF Actors
<1>1. ASSUME NEW p \in Pages, FlushBegin(p)
      PROVE  Alone(Flusher)
  BY <1>1 DEF FlushBegin, WritepageBegin, Goto, ActorTypes, Alone
<1>2. CASE FlushSize
  BY <1>2 DEF FlushSize, WritepageSize, Goto, ActorTypes, Alone
<1>3. CASE FlushEnd
  <2>1. scenario' = scenario
    BY <1>3 DEF FlushEnd, WritepageEnd
  <2> QED
    BY <1>3, <2>1, FinishAlone DEF FlushEnd
<1> QED
  BY <1>1, <1>2, <1>3

-----------------------------------------------------------------------------
(* A truncation, when nobody has mapped the file.                           *)

CutInv ==
    /\ \A t \in Tasks : pc[t] \in TruncPcs => "truncate" \in scenario.ops
    /\ "store" \notin scenario.ops =>
          /\ dirty = {} /\ \A t \in Actors : pc[t] \notin WritebackPcs
          /\ \A t \in Tasks :
                pc[t] \in {"t_size", "t_pages"} \/ (pc[t] \in {"t_copy", "t_done"} /\ ok[t]) =>
                    Len(lower) = arg[t]

\* A step that is none of a truncation's and takes no page for writing.
LEMMA CutQuiet ==
  ASSUME CutInv, NEW t \in Actors, Alone(t), pc'[t] \notin TruncPcs \cup WritebackPcs,
         dirty' \subseteq dirty \/ "store" \in scenario.ops,
         Len(lower') = Len(lower) \/ \A u \in Tasks \ {t} : pc[u] \notin TruncPcs
  PROVE  CutInv'
BY DEF CutInv, Alone, TruncPcs, Actors

LEMMA WriteKeepsCut ==
  ASSUME LockedInv, CutInv, NEW t \in Tasks,
         \/ WriteStep(t)
         \/ \E p \in Pages, i \in 0..(PageSize - 1) : \E n \in 1..(PageSize - i) : WriteStart(t, p, i, n)
  PROVE  CutInv'
<1> t \in Actors
  BY DEF Actors
<1>1. Alone(t) /\ ActorTypes /\ MutexInv
  BY WriteAlone DEF LockedInv, Types
<1>2. pc'[t] \in WritePcs \cup {"idle"} /\ dirty' = dirty
      /\ (lower' = lower \/ pc[t] = "w_push")
  <2> USE <1>1 DEF Goto, ActorTypes, fileVars, pageVars, WritePcs
  <2>1. CASE WriteGrab(t) \/ WriteFill(t) \/ WriteFillFails(t) \/ WriteCopy(t)
    BY <2>1 DEF WriteGrab, WriteFill, WriteFillFails, WriteCopy
  <2>2. CASE WritePush(t) \/ WriteEnd(t) \/ WriteReturn(t)
    BY <2>2 DEF WritePush, WriteEnd, WriteReturn, Finish
  <2>3. ASSUME NEW p \in Pages, NEW i \in 0..(PageSize - 1), NEW n \in 1..(PageSize - i),
               WriteStart(t, p, i, n)
        PROVE  pc'[t] \in WritePcs \cup {"idle"} /\ dirty' = dirty /\ lower' = lower
    BY <2>3 DEF WriteStart
  <2> QED
    BY <2>1, <2>2, <2>3 DEF WriteStep
<1>3. pc[t] = "w_push" => \A u \in Tasks \ {t} : pc[u] \notin TruncPcs
  BY <1>1, OnePerMutex DEF WritePcs
<1> QED
  BY <1>1, <1>2, <1>3, CutQuiet DEF WritePcs, TruncPcs, WritebackPcs

LEMMA OthersKeepCut ==
  ASSUME LockedInv, CutInv, NEW t \in Tasks,
         \/ ReadFill(t) \/ SyncStart(t) \/ SyncNext(t) \/ SyncReturn(t)
         \/ \E p \in Pages : ReadStart(t, p) \/ \E i \in 1..PageSize : Store(t, p, i)
  PROVE  CutInv'
<1> t \in Actors
  BY DEF Actors
<1>1. Alone(t) /\ ActorTypes
  BY ReadAlone, SyncAlone DEF LockedInv, Types, SyncStep
<1>2. /\ pc'[t] \in {"idle", "r_fill", "s_next", "s_lock", "s_done"} /\ lower' = lower
      /\ dirty' \subseteq dirty \/ "store" \in scenario.ops
  <2> USE <1>1 DEF Goto, ActorTypes, fileVars, pageVars
  <2>1. CASE ReadFill(t) \/ SyncReturn(t)
    BY <2>1 DEF ReadFill, SyncReturn, Finish
  <2>2. CASE SyncStart(t) \/ SyncNext(t)
    BY <2>2 DEF SyncStart, SyncNext
  <2>3. ASSUME NEW p \in Pages, ReadStart(t, p)
        PROVE  pc'[t] = "r_fill" /\ lower' = lower /\ dirty' = dirty
    BY <2>3 DEF ReadStart
  <2>4. ASSUME NEW p \in Pages, NEW i \in 1..PageSize, Store(t, p, i)
        PROVE  pc'[t] = "idle" /\ lower' = lower /\ "store" \in scenario.ops
    BY <2>4 DEF Store, actorVars
  <2> QED
    BY <2>1, <2>2, <2>3, <2>4
<1> QED
  BY <1>1, <1>2, CutQuiet DEF TruncPcs, WritebackPcs

\* Writeback: there is none if nothing is ever stored through a mapping.
LEMMA WritebackKeepsCut ==
  ASSUME LockedInv, CutInv,
         \/ FlushSize \/ FlushEnd \/ \E p \in Pages : FlushBegin(p)
         \/ \E t \in Tasks : SyncLock(t) \/ SyncSize(t) \/ SyncPush(t)
  PROVE  CutInv'
<1> Flusher \in Actors /\ \A t \in Tasks : t \in Actors /\ t # Flusher
  BY ActorsAreDistinct DEF Actors
<1>1. ASSUME NEW t \in Actors, Alone(t), pc'[t] \notin TruncPcs, "store" \in scenario.ops
      PROVE  CutInv'
  BY <1>1 DEF CutInv, Alone, Actors
<1>2. CASE "store" \in scenario.ops
  <2>1. CASE FlushSize \/ FlushEnd \/ \E p \in Pages : FlushBegin(p)
    <3>1. Alone(Flusher)
      BY <2>1, FlushAlone DEF LockedInv, Types
    <3> QED
      BY <1>2, <3>1 DEF CutInv, Alone
  <2>2. ASSUME NEW t \in Tasks, SyncLock(t) \/ SyncSize(t) \/ SyncPush(t)
        PROVE  CutInv'
    <3>1. Alone(t) /\ pc'[t] \in SyncPcs
      <4>1. Alone(t) /\ ActorTypes
        BY <2>2, SyncAlone DEF LockedInv, Types, SyncStep
      <4>2. CASE SyncLock(t) \/ SyncSize(t)
        BY <4>1, <4>2 DEF SyncLock, SyncSize, Goto, LengthStep, ActorTypes, SyncPcs
      <4>3. CASE SyncPush(t)
        BY <4>1, <4>3 DEF SyncPush, ActorTypes, SyncPcs
      <4> QED
        BY <2>2, <4>1, <4>2, <4>3
    <3> QED
      BY <1>1, <1>2, <3>1 DEF SyncPcs, TruncPcs
  <2> QED
    BY <2>1, <2>2
<1>3. CASE "store" \notin scenario.ops
  <2>1. dirty = {} /\ \A t \in Actors : pc[t] \notin WritebackPcs
    BY <1>3 DEF CutInv
  <2>2. ~FlushSize /\ ~FlushEnd /\ \A p \in Pages : ~FlushBegin(p)
    BY <2>1 DEF FlushSize, FlushEnd, FlushBegin, WritepageBegin, Goto, WritebackPcs
  <2>3. PICK t \in Tasks : SyncLock(t) \/ SyncSize(t) \/ SyncPush(t)
    BY <2>2
  <2>4. SyncLock(t) /\ ~WritepageBegin(t, at[t])
    BY <2>1, <2>3 DEF SyncSize, SyncPush, WritepageBegin, Goto, WritebackPcs
  <2>5. Alone(t)
    BY <2>4, SyncAlone DEF SyncStep, LockedInv, Types
  <2>6. pc'[t] = "s_next" /\ dirty' = dirty /\ lower' = lower
    BY <2>4 DEF SyncLock, Goto, fileVars, pageVars, LockedInv, Types, ActorTypes
  <2> QED
    BY <2>5, <2>6, CutQuiet DEF TruncPcs, WritebackPcs
<1> QED
  BY <1>2, <1>3

LEMMA TruncKeepsCut ==
  ASSUME LockedInv, SizeInv, CutInv, NEW t \in Tasks,
         TruncStep(t) \/ \E n \in 0..(NumPages * PageSize) : TruncStart(t, n)
  PROVE  CutInv'
<1> USE DEF Goto
<1> t \in Actors
  BY DEF Actors
<1>1. Alone(t) /\ ActorTypes /\ MutexInv
  BY TruncAlone DEF LockedInv, Types
<1>2. ASSUME NEW n \in 0..(NumPages * PageSize), TruncStart(t, n)
      PROVE  CutInv'
  <2>1. pc'[t] = "t_lower" /\ dirty' = dirty /\ lower' = lower /\ "truncate" \in scenario.ops
    BY <1>1, <1>2 DEF TruncStart, pageVars, ActorTypes
  <2> QED
    BY <1>1, <2>1 DEF CutInv, Alone, Actors, WritebackPcs
<1>3. \A u \in Tasks \ {t} : pc[t] \in TruncPcs => pc[u] \notin TruncPcs
  BY <1>1, OnePerMutex
<1>4. ASSUME pc[t] \in TruncPcs, pc'[t] \in {"t_size", "t_pages", "t_copy", "t_done"},
             dirty' \subseteq dirty,
             "store" \notin scenario.ops =>
                 \/ Len(lower') = arg'[t]
                 \/ pc'[t] \in {"t_copy", "t_done"} /\ ~ok'[t]
      PROVE  CutInv'
  BY <1>1, <1>3, <1>4 DEF CutInv, Alone, Actors, TruncPcs, WritebackPcs
<1>5. CASE TruncLower(t)
  <2>1. Len(lower') = arg[t]
    <3>1. arg[t] \in Nat /\ lower \in Seq(Vals)
      BY DEF LockedInv, Types, ActorTypes, FileTypes
    <3> QED
      BY <1>5, <3>1, ResizedType DEF TruncLower
  <2> QED
    BY <1>1, <1>4, <1>5, <2>1 DEF TruncLower, ActorTypes, pageVars, TruncPcs
<1>6. CASE TruncLowerFails(t)
  BY <1>1, <1>4, <1>6 DEF TruncLowerFails, ActorTypes, pageVars, TruncPcs
<1>7. CASE TruncSize(t)
  BY <1>1, <1>4, <1>7 DEF TruncSize, ActorTypes, pageVars, TruncPcs, CutInv
<1>8. CASE TruncPages(t)
  BY <1>1, <1>4, <1>8 DEF TruncPages, Dropped, ActorTypes, fileVars, TruncPcs, CutInv
<1>9. CASE TruncPagesDone(t)
  BY <1>1, <1>4, <1>9 DEF TruncPagesDone, ActorTypes, fileVars, pageVars, TruncPcs, CutInv
<1>10. CASE TruncCopy(t)
  BY <1>1, <1>4, <1>10 DEF TruncCopy, ActorTypes, pageVars, TruncPcs, CutInv
<1>11. CASE TruncReturn(t)
  <2>1. pc'[t] = "idle" /\ dirty' = dirty /\ lower' = lower
    BY <1>1, <1>11 DEF TruncReturn, Finish, ActorTypes, pageVars
  <2> QED
    BY <1>1, <2>1, CutQuiet DEF TruncPcs, WritebackPcs
<1> QED
  BY <1>2, <1>5, <1>6, <1>7, <1>8, <1>9, <1>10, <1>11 DEF TruncStep

LEMMA DropKeepsCut ==
  ASSUME CutInv, EvictInode \/ (\E p \in Pages : Reclaim(p)) \/ UNCHANGED vars
  PROVE  CutInv'
BY DEF EvictInode, Reclaim, Dropped, vars, fileVars, pageVars, actorVars, CutInv

LEMMA CutAlways == Spec => [](LockedInv /\ StoresInv /\ SizeInv /\ WithinInv /\ CutInv)
<1>1. Init => CutInv
  BY DEF Init, CutInv, TruncPcs, WritebackPcs, Actors
<1>2. LockedInv /\ SizeInv /\ CutInv /\ [Next]_vars => CutInv'
  <2> SUFFICES ASSUME LockedInv, SizeInv, CutInv, [Next]_vars PROVE CutInv'
    OBVIOUS
  <2>1. ASSUME NEW t \in Tasks, SyncStep(t)
        PROVE  CutInv'
    BY <2>1, OthersKeepCut, WritebackKeepsCut DEF SyncStep
  <2>2. ASSUME NEW t \in Tasks, Begin(t)
        PROVE  CutInv'
    BY <2>2, OthersKeepCut, WriteKeepsCut, TruncKeepsCut DEF Begin
  <2>3. ASSUME NEW t \in Tasks, Step(t)
        PROVE  CutInv'
    BY <2>1, <2>3, OthersKeepCut, WriteKeepsCut, TruncKeepsCut DEF Step
  <2> QED
    BY <2>2, <2>3, WritebackKeepsCut, DropKeepsCut DEF Next
<1> QED
  BY <1>1, <1>2, SizeAlways, PTL DEF Spec

\* A change of size that has reported success is in effect, above and below,
\* for a file that is not mapped (lofs_setattr, src/lofs/inode.c).
THEOREM TruncationSticks == Spec => []TruncateSticks
<1>1. SizeInv /\ CutInv => TruncateSticks
  BY DEF SizeInv, CutInv, TruncateSticks, ChangeSticks, SettledPcs
<1> QED
  BY <1>1, CutAlways, PTL
=============================================================================
