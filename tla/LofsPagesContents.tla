--------------------------- MODULE LofsPagesContents ---------------------------
(***************************************************************************)
(* Theorems about what LofsPages keeps in its pages and in the lower file,   *)
(* for files whose offsets an unsigned long can hold.                        *)
(***************************************************************************)
EXTENDS LofsPagesProofs

OffsetsFit == NumPages * PageSize <= OffsetSpan

-----------------------------------------------------------------------------
(* Cell i of page p in the lower file, 0 behind its end.                     *)

Below(p, i) == IF p * PageSize + i <= Len(lower) THEN lower[p * PageSize + i] ELSE 0

LEMMA BelowType ==
  ASSUME Types, NEW p \in Pages, NEW i \in 1..PageSize
  PROVE  /\ Below(p, i) \in Nat /\ LowerPage(p)[i] = Below(p, i)
         /\ p * PageSize + i \in Nat /\ p * PageSize + i >= 1
<1>1. p * PageSize + i \in Nat /\ p * PageSize + i >= 1
  BY PagesFit, PageBounds
<1> QED
  BY <1>1, PageBounds DEF Below, LowerPage, Types, FileTypes, Vals

LEMMA CellsDiffer ==
  ASSUME NEW p \in Pages, NEW q \in Pages, NEW i \in 1..PageSize, NEW j \in 1..PageSize,
         p * PageSize + i = q * PageSize + j
  PROVE  p = q /\ i = j
<1>1. i \in Nat /\ j \in Nat /\ 1 <= i /\ 1 <= j /\ i <= PageSize /\ j <= PageSize /\ PageSize \in Nat
  BY PageBounds
<1>2. p \in Nat /\ q \in Nat /\ p * PageSize \in Nat /\ q * PageSize \in Nat
  BY PagesFit
<1>3. CASE p < q
  BY <1>1, <1>2, <1>3, PagesAreApart
<1>4. CASE q < p
  BY <1>1, <1>2, <1>4, PagesAreApart
<1>5. CASE p = q
  BY <1>1, <1>2, <1>5
<1> QED
  BY <1>2, <1>3, <1>4, <1>5

\* Every cell of the file is one of some page.
LEMMA CellIsInPage ==
  ASSUME NEW c \in Nat \ {0}, c <= NumPages * PageSize
  PROVE  \E p \in Pages, i \in 1..PageSize : c = p * PageSize + i
<1>1. PICK p \in Nat, i \in 1..PageSize : c = p * PageSize + i
  <2>1. (c - 1) \div PageSize \in Nat /\ c - ((c - 1) \div PageSize) * PageSize \in 1..PageSize
    BY CellsHavePages
  <2>2. ((c - 1) \div PageSize) * PageSize \in Nat
    BY <2>1, PageBounds
  <2>3. c = ((c - 1) \div PageSize) * PageSize + (c - ((c - 1) \div PageSize) * PageSize)
    BY <2>2
  <2> QED
    BY <2>1, <2>3
<1>2. p \in Pages
  <2>1. p >= NumPages => NumPages * PageSize <= p * PageSize
    BY <1>1, PagesAreApart, PageBounds
  <2>2. p * PageSize \in Nat /\ NumPages * PageSize \in Nat /\ i \in Nat /\ i >= 1
    BY <1>1, PageBounds
  <2> QED
    BY <1>1, <2>1, <2>2, PageBounds DEF Pages
<1> QED
  BY <1>1, <1>2

LEMMA OffsetIsPlace ==
  ASSUME OffsetsFit, NEW p \in Pages
  PROVE  WritepageOffset(p) = p * PageSize
<1>1. p * PageSize \in Nat /\ p * PageSize < OffsetSpan
  BY PagesFit, PageBounds DEF OffsetsFit
<1>2. \A x \in Nat : x < OffsetSpan => x % OffsetSpan = x
  BY PageBounds
<1> QED
  BY <1>1, <1>2 DEF WritepageOffset

\* The first n cells of page p reach the lower file, and nothing else changes.
LEMMA PushBelow ==
  ASSUME Types, NEW p \in Pages, NEW n \in 0..PageSize, lower' = WrittenAt(p * PageSize, p, n)
  PROVE  /\ Len(lower') \in Nat /\ Len(lower) \in Nat /\ Len(lower') >= Len(lower)
         /\ \A q \in Pages, i \in 1..PageSize :
                Below(q, i)' = IF q = p /\ i <= n THEN pdata[p][i] ELSE Below(q, i)
<1> DEFINE offset == p * PageSize
<1>1. offset \in Nat /\ PageSize \in Nat /\ n \in Nat /\ Len(lower) \in Nat
  BY PagesFit, PageBounds DEF Types, FileTypes
<1>2. /\ Len(lower') = WrittenEnd(offset, n)
      /\ WrittenEnd(offset, n) \in Nat /\ WrittenEnd(offset, n) >= Len(lower)
      /\ \A c \in 1..WrittenEnd(offset, n) : lower'[c] =
                IF c > offset /\ c <= offset + n THEN pdata[p][c - offset]
                ELSE IF c <= Len(lower) THEN lower[c] ELSE 0
  <2>1. lower \in Seq(Vals) /\ pdata \in [Pages -> [1..PageSize -> Vals]]
    BY DEF Types, FileTypes, PageTypes
  <2> HIDE DEF offset
  <2>2. /\ Len(WrittenAt(offset, p, n)) = WrittenEnd(offset, n)
        /\ WrittenEnd(offset, n) \in Nat /\ WrittenEnd(offset, n) >= Len(lower)
        /\ \A c \in 1..WrittenEnd(offset, n) : WrittenAt(offset, p, n)[c] =
                IF c > offset /\ c <= offset + n THEN pdata[p][c - offset]
                ELSE IF c <= Len(lower) THEN lower[c] ELSE 0
    BY <1>1, <2>1, WrittenType
  <2>3. lower' = WrittenAt(offset, p, n)
    BY DEF offset
  <2> QED
    BY <2>2, <2>3
<1>3. ASSUME NEW q \in Pages, NEW i \in 1..PageSize
      PROVE  Below(q, i)' = IF q = p /\ i <= n THEN pdata[p][i] ELSE Below(q, i)
  <2> DEFINE c == q * PageSize + i
  <2>1. c \in Nat /\ c >= 1 /\ i \in Nat /\ 1 <= i /\ i <= PageSize
    BY BelowType, PageBounds
  <2>2. Below(q, i)' = IF c <= Len(lower') THEN lower'[c] ELSE 0
    BY DEF Below
  <2>3. Below(q, i) = IF c <= Len(lower) THEN lower[c] ELSE 0
    BY DEF Below
  <2>4. CASE c > offset /\ c <= offset + n
    <3>1. c - offset \in 1..PageSize /\ c = offset + (c - offset)
      BY <1>1, <2>1, <2>4
    <3>2. q = p /\ i = c - offset
      BY <3>1, CellsDiffer
    <3>3. c <= WrittenEnd(offset, n)
      BY <1>1, <2>1, <2>4 DEF WrittenEnd
    <3> HIDE DEF c, offset
    <3> QED
      BY <1>1, <1>2, <2>1, <2>2, <2>4, <3>2, <3>3
  <2>5. CASE ~(c > offset /\ c <= offset + n)
    <3>1. ~(q = p /\ i <= n)
      BY <1>1, <2>1, <2>5
    <3>2. c \in 1..WrittenEnd(offset, n) =>
              lower'[c] = IF c <= Len(lower) THEN lower[c] ELSE 0
      BY <1>2, <2>5
    <3> HIDE DEF c, offset
    <3> QED
      BY <1>1, <1>2, <2>1, <2>2, <2>3, <3>1, <3>2
  <2> QED
    BY <2>4, <2>5
<1> QED
  BY <1>1, <1>2, <1>3

\* A new size cuts off, or fills up with zeros.
LEMMA ResizeBelow ==
  ASSUME Types, NEW n \in Nat, lower' = Resized(n), NEW q \in Pages, NEW i \in 1..PageSize
  PROVE  Below(q, i)' = IF q * PageSize + i <= n THEN Below(q, i) ELSE 0
<1>1. /\ Len(Resized(n)) = n
      /\ \A c \in 1..n : Resized(n)[c] = IF c <= Len(lower) THEN lower[c] ELSE 0
  BY ResizedType DEF Types, FileTypes
<1>2. q * PageSize + i \in Nat /\ q * PageSize + i >= 1
  BY BelowType
<1> QED
  BY <1>1, <1>2 DEF Below

-----------------------------------------------------------------------------
(* What a step that truncates nothing does to the cells: the lower file      *)
(* takes them from pages that are up to date, and these take them from the   *)
(* lower file, when they are filled, or are stored into.                     *)

Tame ==
    /\ clock' >= clock /\ Len(lower') >= Len(lower)
    /\ \A p \in Pages, i \in 1..PageSize :
          Below(p, i)' = Below(p, i) \/ (p \in uptodate /\ Below(p, i)' = pdata[p][i])
    /\ \A p \in uptodate', i \in 1..PageSize :
          IF p \in uptodate
          THEN \/ pdata'[p][i] = pdata[p][i]
               \/ pdata'[p][i] = clock' /\ clock' = clock + 1
          ELSE pdata'[p][i] = Below(p, i) /\ Below(p, i)' = Below(p, i)

LEMMA SameBelow ==
  ASSUME UNCHANGED lower
  PROVE  \A p, i : Below(p, i)' = Below(p, i)
BY DEF Below

\* No cell changes, except in pages that are not up to date.
LEMMA TameQuiet ==
  ASSUME Types, clock' = clock, lower' = lower, uptodate' \subseteq uptodate,
         \A p \in uptodate' : pdata'[p] = pdata[p]
  PROVE  Tame
BY SameBelow DEF Tame, Types, FileTypes, Vals

LEMMA TameFill ==
  ASSUME Types, clock' = clock, lower' = lower, NEW p \in Pages \ uptodate,
         uptodate' = uptodate \cup {p}, pdata' = [pdata EXCEPT ![p] = LowerPage(p)]
  PROVE  Tame
<1>1. uptodate \subseteq Pages /\ pdata \in [Pages -> [1..PageSize -> Vals]] /\ clock \in Nat
  BY DEF Types, PageTypes, FileTypes, Vals
<1>2. \A i \in 1..PageSize : pdata'[p][i] = Below(p, i)
  BY <1>1, BelowType
<1> QED
  BY <1>1, <1>2, SameBelow DEF Tame, Types, FileTypes

LEMMA TamePush ==
  ASSUME Types, clock' = clock, NEW p \in uptodate, NEW n \in 0..PageSize,
         lower' = WrittenAt(p * PageSize, p, n), uptodate' \subseteq uptodate, pdata' = pdata
  PROVE  Tame
<1>1. p \in Pages /\ clock \in Nat
  BY DEF Types, PageTypes, FileTypes, Vals
<1> QED
  BY <1>1, PushBelow DEF Tame

LEMMA WriteIsTame ==
  ASSUME LockedInv, NEW t \in Tasks,
         \/ WriteStep(t)
         \/ \E p \in Pages, i \in 0..(PageSize - 1) : \E n \in 1..(PageSize - i) : WriteStart(t, p, i, n)
  PROVE  Tame
<1> USE DEF Goto, fileVars, pageVars
<1> t \in Actors
  BY DEF Actors
<1>1. Types /\ uptodate \subseteq Pages /\ uptodate \subseteq cached /\ clock \in Nat
      /\ pdata \in [Pages -> [1..PageSize -> Vals]] /\ to[t] \in 0..PageSize
  BY DEF LockedInv, Types, PageTypes, FileTypes, ActorTypes, Vals
<1>2. ASSUME NEW p \in Pages, NEW i \in 0..(PageSize - 1), NEW n \in 1..(PageSize - i),
             WriteStart(t, p, i, n)
      PROVE  Tame
  BY <1>1, <1>2, TameQuiet DEF WriteStart
<1>3. CASE WriteGrab(t)
  BY <1>1, <1>3, TameQuiet DEF WriteGrab, NewPage
<1>4. CASE WriteFill(t)
  <2>1. at[t] \in Pages \ uptodate
    BY <1>4 DEF WriteFill, LockedInv, LockInv, FillPcs, UsingPcs
  <2> QED
    BY <1>1, <1>4, <2>1, TameFill DEF WriteFill
<1>5. CASE WriteFillFails(t)
  BY <1>1, <1>5, TameQuiet DEF WriteFillFails
<1>6. CASE WriteCopy(t)
  <2>1. at[t] \in uptodate
    BY <1>6 DEF WriteCopy, LockedInv, LockInv, CopyPcs
  <2>2. PICK end \in from[t]..to[t] : pdata' = [pdata EXCEPT ![at[t]] =
                          [i \in 1..PageSize |->
                              IF i > from[t] /\ i <= end THEN clock + 1 ELSE @[i]]]
    BY <1>6 DEF WriteCopy
  <2>3. \A p \in uptodate, i \in 1..PageSize : pdata'[p][i] = pdata[p][i] \/ pdata'[p][i] = clock + 1
    BY <1>1, <2>1, <2>2
  <2>4. clock' = clock + 1 /\ lower' = lower /\ uptodate' = uptodate
    BY <1>6 DEF WriteCopy
  <2> QED
    BY <1>1, <2>3, <2>4, SameBelow DEF Tame, Types, FileTypes
<1>7. CASE WritePush(t)
  <2>1. at[t] \in uptodate
    BY <1>7 DEF WritePush, LockedInv, LockInv, CopyPcs
  <2>2. PICK o \in Outcomes(to[t]) : lower' = WrittenAt(at[t] * PageSize, at[t], o.cells)
    BY <1>7 DEF WritePush
  <2>3. o.cells \in 0..PageSize
    BY <1>1, OutcomesType, PageBounds
  <2> QED
    BY <1>1, <1>7, <2>1, <2>2, <2>3, TamePush DEF WritePush
<1>8. CASE WriteEnd(t) \/ WriteReturn(t)
  BY <1>1, <1>8, TameQuiet DEF WriteEnd, WriteReturn
<1> QED
  BY <1>2, <1>3, <1>4, <1>5, <1>6, <1>7, <1>8 DEF WriteStep

LEMMA ReadIsTame ==
  ASSUME LockedInv, NEW t \in Tasks,
         ReadFill(t) \/ \E p \in Pages : ReadStart(t, p) \/ \E i \in 1..PageSize : Store(t, p, i)
  PROVE  Tame
<1> USE DEF Goto, fileVars, pageVars
<1> t \in Actors
  BY DEF Actors
<1>1. Types /\ uptodate \subseteq Pages /\ uptodate \subseteq cached /\ clock \in Nat
      /\ pdata \in [Pages -> [1..PageSize -> Vals]]
  BY DEF LockedInv, Types, PageTypes, FileTypes, Vals
<1>2. CASE ReadFill(t)
  <2>1. at[t] \in Pages \ uptodate
    BY <1>2 DEF ReadFill, LockedInv, LockInv, FillPcs, UsingPcs
  <2>2. clock' = clock /\ lower' = lower
    BY <1>2 DEF ReadFill
  <2>3. CASE pdata' = [pdata EXCEPT ![at[t]] = LowerPage(at[t])] /\ uptodate' = uptodate \cup {at[t]}
    BY <1>1, <2>1, <2>2, <2>3, TameFill
  <2>4. CASE pdata' = pdata /\ uptodate' = uptodate \ {at[t]}
    BY <1>1, <2>2, <2>4, TameQuiet
  <2> QED
    BY <1>2, <2>3, <2>4 DEF ReadFill
<1>3. ASSUME NEW p \in Pages, ReadStart(t, p)
      PROVE  Tame
  BY <1>1, <1>3, TameQuiet DEF ReadStart, NewPage
<1>4. ASSUME NEW p \in Pages, NEW i \in 1..PageSize, Store(t, p, i)
      PROVE  Tame
  <2>1. \A q \in uptodate, j \in 1..PageSize : pdata'[q][j] = pdata[q][j] \/ pdata'[q][j] = clock + 1
    BY <1>1, <1>4 DEF Store
  <2>2. clock' = clock + 1 /\ lower' = lower /\ uptodate' = uptodate
    BY <1>4 DEF Store
  <2> QED
    BY <1>1, <2>1, <2>2, SameBelow DEF Tame, Types, FileTypes
<1> QED
  BY <1>2, <1>3, <1>4

LEMMA EndIsTame ==
  ASSUME OffsetsFit, LockedInv, NEW t \in Actors, at[t] \in uptodate, NEW written \in BOOLEAN,
         WritepageEnd(t, written)
  PROVE  Tame
<1>1. Types /\ at[t] \in Pages /\ to[t] \in 0..PageSize
  BY DEF LockedInv, Types, PageTypes, ActorTypes
<1>2. PICK o \in Outcomes(to[t]) : lower' = WrittenAt(at[t] * PageSize, at[t], o.cells)
  BY <1>1, OffsetIsPlace DEF WritepageEnd
<1>3. o.cells \in 0..PageSize
  BY <1>1, OutcomesType, PageBounds
<1>4. uptodate' \subseteq uptodate /\ pdata' = pdata /\ clock' = clock
  BY DEF WritepageEnd
<1> QED
  BY <1>1, <1>2, <1>3, <1>4, TamePush

LEMMA WritebackIsTame ==
  ASSUME OffsetsFit, LockedInv,
         \/ FlushSize \/ FlushEnd \/ \E p \in Pages : FlushBegin(p)
         \/ \E t \in Tasks : SyncStep(t) \/ SyncStart(t)
  PROVE  Tame
<1> USE DEF Goto, fileVars, pageVars
<1> Flusher \in Actors /\ \A t \in Tasks : t \in Actors
  BY DEF Actors
<1>1. Types
  BY DEF LockedInv
<1>2. CASE FlushSize \/ \E p \in Pages : FlushBegin(p)
  BY <1>1, <1>2, TameQuiet DEF FlushSize, FlushBegin, WritepageSize, WritepageBegin
<1>3. CASE FlushEnd
  <2>1. PICK written \in BOOLEAN : WritepageEnd(Flusher, written)
    BY <1>3 DEF FlushEnd
  <2>2. at[Flusher] \in uptodate
    BY <1>3 DEF FlushEnd, LockedInv, LockInv, WritebackPcs
  <2> QED
    BY <2>1, <2>2, EndIsTame
<1>4. ASSUME NEW t \in Tasks, SyncStart(t) \/ SyncNext(t) \/ SyncSize(t) \/ SyncReturn(t)
      PROVE  Tame
  BY <1>1, <1>4, TameQuiet DEF SyncStart, SyncNext, SyncSize, WritepageSize, SyncReturn
<1>5. ASSUME NEW t \in Tasks, SyncLock(t)
      PROVE  Tame
  BY <1>1, <1>5, TameQuiet DEF SyncLock, WritepageBegin
<1>6. ASSUME NEW t \in Tasks, SyncPush(t)
      PROVE  Tame
  <2>1. PICK written \in BOOLEAN : WritepageEnd(t, written)
    BY <1>6 DEF SyncPush
  <2>2. at[t] \in uptodate
    BY <1>6 DEF SyncPush, LockedInv, LockInv, WritebackPcs
  <2> QED
    BY <2>1, <2>2, EndIsTame
<1> QED
  BY <1>2, <1>3, <1>4, <1>5, <1>6 DEF SyncStep

LEMMA TruncIsTame ==
  ASSUME LockedInv, NEW t \in Tasks,
         \/ \E n \in 0..(NumPages * PageSize) : TruncStart(t, n)
         \/ TruncLowerFails(t) \/ TruncSize(t) \/ TruncPagesDone(t) \/ TruncCopy(t) \/ TruncReturn(t)
  PROVE  Tame
<1> USE DEF Goto, fileVars, pageVars
<1>1. Types
  BY DEF LockedInv
<1>2. ASSUME NEW n \in 0..(NumPages * PageSize), TruncStart(t, n)
      PROVE  Tame
  BY <1>1, <1>2, TameQuiet DEF TruncStart
<1>3. CASE TruncLowerFails(t) \/ TruncSize(t) \/ TruncPagesDone(t)
  BY <1>1, <1>3, TameQuiet DEF TruncLowerFails, TruncSize, TruncPagesDone
<1>4. CASE TruncCopy(t) \/ TruncReturn(t)
  BY <1>1, <1>4, TameQuiet DEF TruncCopy, TruncReturn
<1> QED
  BY <1>2, <1>3, <1>4

LEMMA DropIsTame ==
  ASSUME LockedInv, EvictInode \/ (\E p \in Pages : Reclaim(p)) \/ UNCHANGED vars
  PROVE  Tame
<1>1. Types /\ uptodate \subseteq Pages
  BY DEF LockedInv, Types, PageTypes
<1>2. ASSUME NEW S, Dropped(S), UNCHANGED <<lower, clock>>
      PROVE  Tame
  BY <1>1, <1>2, TameQuiet DEF Dropped
<1> QED
  BY <1>1, <1>2, TameQuiet DEF EvictInode, Reclaim, vars, fileVars, pageVars

\* The steps of a truncation that are left.
LEMMA StepsAreTame ==
  ASSUME OffsetsFit, LockedInv, [Next]_vars
  PROVE  Tame \/ \E t \in Tasks : TruncLower(t) \/ TruncPages(t)
BY WriteIsTame, ReadIsTame, WritebackIsTame, TruncIsTame, DropIsTame
   DEF Next, Begin, Step, TruncStep

-----------------------------------------------------------------------------
(* How new a cell is.                                                       *)

\* A write has copied its data, and nothing has failed.
Copied(t) == pc[t] \in {"w_push", "w_end"} \/ (pc[t] = "w_done" /\ ok[t])

ClockInv ==
    /\ \A p \in uptodate, i \in 1..PageSize : pdata[p][i] <= clock
    /\ \A p \in Pages, i \in 1..PageSize : Below(p, i) <= clock
    /\ \A t \in Tasks : Copied(t) => at[t] \in Pages /\ 1 <= arg[t] /\ arg[t] <= clock

\* A page that is up to date is nowhere older than the lower file.
NewerInv ==
    ~MappedAndResized =>
        \A p \in uptodate, i \in 1..PageSize : Below(p, i) <= pdata[p][i]

\* What a write was given is in its page, and then in the lower file, from
\* where the page would be filled again.
TruthInv ==
    \A t \in Tasks, p \in Pages, i \in 1..PageSize :
        at[t] = p /\ from[t] < i /\ i <= to[t] =>
            /\ pc[t] = "w_push" => arg[t] <= pdata[p][i]
            /\ "short_write" \notin scenario.faults /\ pc[t] \in {"w_end", "w_done"} /\ ok[t] =>
                  arg[t] <= Below(p, i) /\ (p \in uptodate => arg[t] <= pdata[p][i])

CellsInv == ClockInv /\ NewerInv /\ TruthInv

CellPcs == {"w_push", "w_end", "w_done"}

LEMMA CellTypes ==
  ASSUME Types
  PROVE  /\ uptodate \subseteq Pages /\ clock \in Nat
         /\ \A p \in Pages, i \in 1..PageSize : pdata[p][i] \in Nat /\ Below(p, i) \in Nat
         /\ \A t \in Actors : arg[t] \in Nat /\ from[t] \in Nat /\ to[t] \in 0..PageSize /\ to[t] \in Nat
<1>1. uptodate \subseteq Pages /\ clock \in Nat
  BY DEF Types, FileTypes, PageTypes, Vals
<1>2. \A p \in Pages, i \in 1..PageSize : pdata[p][i] \in Nat
  <2>1. \A p \in Pages : pdata[p] \in [1..PageSize -> Vals]
    BY DEF Types, PageTypes
  <2>2. \A p \in Pages, i \in 1..PageSize : pdata[p][i] \in Vals
    BY <2>1
  <2> QED
    BY <2>2, PageBounds DEF Vals
<1>3. \A p \in Pages, i \in 1..PageSize : Below(p, i) \in Nat
  BY BelowType
<1>4. \A t \in Actors : arg[t] \in Nat /\ from[t] \in Nat /\ to[t] \in 0..PageSize /\ to[t] \in Nat
  BY PageBounds DEF Types, ActorTypes
<1> QED
  BY <1>1, <1>2, <1>3, <1>4

LEMMA CellTypesNext ==
  ASSUME Types'
  PROVE  /\ uptodate' \subseteq Pages /\ clock' \in Nat
         /\ \A p \in Pages, i \in 1..PageSize : pdata'[p][i] \in Nat /\ Below(p, i)' \in Nat
<1>1. uptodate' \subseteq Pages /\ clock' \in Nat
  BY DEF Types, FileTypes, PageTypes, Vals
<1>2. \A p \in Pages, i \in 1..PageSize : pdata'[p][i] \in Nat
  <2>1. \A p \in Pages : pdata'[p] \in [1..PageSize -> Vals]
    BY DEF Types, PageTypes
  <2>2. \A p \in Pages, i \in 1..PageSize : pdata'[p][i] \in Vals
    BY <2>1
  <2> QED
    BY <2>2, PageBounds DEF Vals
<1>3. \A p \in Pages, i \in 1..PageSize : p * PageSize + i \in Nat /\ p * PageSize + i >= 1
  BY PagesFit, PageBounds
<1>4. \A p \in Pages, i \in 1..PageSize : Below(p, i)' \in Nat
  BY <1>3, PageBounds DEF Below, Types, FileTypes, Vals
<1> QED
  BY <1>1, <1>2, <1>4

LEMMA ClockTame ==
  ASSUME Types, Types', ClockInv, Tame
  PROVE  /\ \A p \in uptodate', i \in 1..PageSize : pdata'[p][i] <= clock'
         /\ \A p \in Pages, i \in 1..PageSize : Below(p, i)' <= clock'
<1>1. /\ uptodate' \subseteq Pages /\ clock' \in Nat
      /\ \A p \in Pages, i \in 1..PageSize : pdata'[p][i] \in Nat /\ Below(p, i)' \in Nat
  BY CellTypesNext
<1>2. clock \in Nat /\ clock' >= clock
  BY CellTypes DEF Tame
<1>3. ASSUME NEW p \in Pages, NEW i \in 1..PageSize
      PROVE  /\ Below(p, i) \in Nat /\ Below(p, i) <= clock /\ pdata[p][i] \in Nat
             /\ p \in uptodate => pdata[p][i] <= clock
  BY CellTypes DEF ClockInv
<1>4. \A p \in Pages, i \in 1..PageSize : Below(p, i)' <= clock'
  BY <1>1, <1>2, <1>3 DEF Tame
<1>5. ASSUME NEW p \in uptodate', NEW i \in 1..PageSize
      PROVE  pdata'[p][i] <= clock'
  <2>1. IF p \in uptodate THEN pdata'[p][i] = pdata[p][i] \/ pdata'[p][i] = clock'
        ELSE pdata'[p][i] = Below(p, i)
    BY DEF Tame
  <2> QED
    BY <1>1, <1>2, <1>3, <2>1
<1> QED
  BY <1>4, <1>5

LEMMA NewerTame ==
  ASSUME Types, Types', ClockInv, NewerInv, Tame, scenario' = scenario
  PROVE  NewerInv'
<1>1. /\ uptodate' \subseteq Pages /\ clock' \in Nat
      /\ \A p \in Pages, i \in 1..PageSize : pdata'[p][i] \in Nat /\ Below(p, i)' \in Nat
  BY CellTypesNext
<1>2. MappedAndResized' <=> MappedAndResized
  BY DEF MappedAndResized
<1>3. ASSUME NEW p \in uptodate', NEW i \in 1..PageSize, ~MappedAndResized
      PROVE  Below(p, i)' <= pdata'[p][i]
  <2>1. p \in Pages /\ pdata[p][i] \in Nat /\ Below(p, i) \in Nat /\ Below(p, i) <= clock /\ clock \in Nat
    BY <1>1, CellTypes DEF ClockInv
  <2>2. CASE p \in uptodate
    <3>1. Below(p, i) <= pdata[p][i] /\ pdata[p][i] <= clock
      BY <1>3, <2>2 DEF NewerInv, ClockInv
    <3>2. Below(p, i)' = Below(p, i) \/ Below(p, i)' = pdata[p][i]
      BY <2>1 DEF Tame
    <3>3. pdata'[p][i] = pdata[p][i] \/ pdata'[p][i] = clock + 1
      BY <2>2 DEF Tame
    <3> QED
      BY <2>1, <3>1, <3>2, <3>3
  <2>3. CASE p \notin uptodate
    <3>1. pdata'[p][i] = Below(p, i) /\ Below(p, i)' = Below(p, i)
      BY <2>3 DEF Tame
    <3> QED
      BY <2>1, <3>1
  <2> QED
    BY <2>2, <2>3
<1> QED
  BY <1>2, <1>3 DEF NewerInv

\* A step of an actor that is not in the middle of its write.
LEMMA CellsTame ==
  ASSUME LockedInv, LockedInv', CellsInv, Tame, NEW t \in Actors, Alone(t),
         t \in Tasks => pc'[t] \notin CellPcs \/ (pc'[t] = "w_done" /\ ~ok'[t])
  PROVE  CellsInv'
<1>1. Types /\ Types' /\ clock \in Nat /\ clock' \in Nat /\ clock' >= clock
  BY CellTypes DEF LockedInv, Tame, FileTypes, Types, Vals
<1>2. ClockInv'
  <2>1. \A u \in Tasks : Copied(u)' => at'[u] \in Pages /\ 1 <= arg'[u] /\ arg'[u] <= clock'
    BY <1>1, CellTypes DEF CellsInv, ClockInv, Copied, Alone, CellPcs, Actors
  <2> QED
    BY <1>1, <2>1, ClockTame DEF CellsInv, ClockInv
<1>3. NewerInv'
  BY <1>1, NewerTame DEF CellsInv, Alone
<1>4. TruthInv'
  <2>1. ASSUME NEW u \in Tasks, NEW p \in Pages, NEW i \in 1..PageSize, u # t, u \in Actors,
               at[u] = p, from[u] < i, i <= to[u]
        PROVE  /\ pc[u] = "w_push" => arg[u] <= pdata'[p][i]
               /\ "short_write" \notin scenario.faults /\ pc[u] \in {"w_end", "w_done"} /\ ok[u] =>
                      arg[u] <= Below(p, i)' /\ (p \in uptodate' => arg[u] <= pdata'[p][i])
    <3>1. arg[u] \in Nat /\ pdata[p][i] \in Nat /\ Below(p, i) \in Nat
          /\ (Copied(u) => arg[u] <= clock)
      BY <1>1, <2>1, CellTypes DEF CellsInv, ClockInv
    <3>2. CASE pc[u] = "w_push"
      <4>1. p \in uptodate /\ p \in uptodate'
        BY <2>1, <3>2 DEF LockedInv, LockInv, CopyPcs, Alone
      <4>2. arg[u] <= pdata[p][i]
        BY <2>1, <3>2, <4>1 DEF CellsInv, TruthInv
      <4>3. pdata'[p][i] = pdata[p][i] \/ pdata'[p][i] = clock + 1
        BY <4>1 DEF Tame
      <4> QED
        BY <1>1, <3>1, <3>2, <4>2, <4>3 DEF Copied
    <3>3. CASE "short_write" \notin scenario.faults /\ pc[u] \in {"w_end", "w_done"} /\ ok[u]
      <4>1. arg[u] <= clock
        BY <3>1, <3>3 DEF Copied
      <4>2. arg[u] <= Below(p, i) /\ (p \in uptodate => arg[u] <= pdata[p][i])
        BY <2>1, <3>3 DEF CellsInv, TruthInv
      <4>3. Below(p, i)' = Below(p, i) \/ (p \in uptodate /\ Below(p, i)' = pdata[p][i])
        BY DEF Tame
      <4>4. p \in uptodate' => IF p \in uptodate
                               THEN pdata'[p][i] = pdata[p][i] \/ pdata'[p][i] = clock + 1
                               ELSE pdata'[p][i] = Below(p, i)
        BY DEF Tame
      <4> QED
        BY <1>1, <3>1, <3>3, <4>1, <4>2, <4>3, <4>4
    <3> QED
      BY <3>2, <3>3
  <2>2. \A u \in Tasks : u \in Actors
    BY DEF Actors
  <2>3. ASSUME NEW u \in Tasks, u # t
        PROVE  /\ pc'[u] = pc[u] /\ at'[u] = at[u] /\ from'[u] = from[u] /\ to'[u] = to[u]
               /\ arg'[u] = arg[u] /\ ok'[u] = ok[u] /\ scenario' = scenario
    BY <2>2, <2>3 DEF Alone
  <2> QED
    BY <2>1, <2>2, <2>3 DEF TruthInv, CellPcs
<1> QED
  BY <1>2, <1>3, <1>4 DEF CellsInv

\* A step of an actor in its write: nobody else has one then.
LEMMA CellsOwn ==
  ASSUME LockedInv, LockedInv', CellsInv, Tame, NEW t \in Tasks, Alone(t), pc[t] \in WritePcs,
         Copied(t)' => at'[t] \in Pages /\ 1 <= arg'[t] /\ arg'[t] <= clock',
         \A p \in Pages, i \in 1..PageSize :
             at'[t] = p /\ from'[t] < i /\ i <= to'[t] =>
                 /\ pc'[t] = "w_push" => arg'[t] <= pdata'[p][i]
                 /\ "short_write" \notin scenario.faults /\ pc'[t] \in {"w_end", "w_done"} /\ ok'[t] =>
                      arg'[t] <= Below(p, i)' /\ (p \in uptodate' => arg'[t] <= pdata'[p][i])
  PROVE  CellsInv'
<1>1. Types /\ Types'
  BY DEF LockedInv
<1>2. \A u \in Tasks \ {t} : pc'[u] \notin WritePcs
  <2>1. \A u \in Tasks \ {t} : pc[u] \notin WritePcs
    BY OnePerMutex DEF LockedInv
  <2> QED
    BY <2>1 DEF Alone, Actors
<1>3. ClockInv'
  BY <1>1, <1>2, ClockTame DEF CellsInv, ClockInv, Copied, WritePcs
<1>4. NewerInv'
  BY <1>1, NewerTame DEF CellsInv, Alone
<1>5. TruthInv'
  BY <1>2 DEF TruthInv, WritePcs, Alone
<1> QED
  BY <1>3, <1>4, <1>5 DEF CellsInv

LEMMA WriteKeepsCells ==
  ASSUME LockedInv, LockedInv', CellsInv, NEW t \in Tasks,
         \/ WriteStep(t)
         \/ \E p \in Pages, i \in 0..(PageSize - 1) : \E n \in 1..(PageSize - i) : WriteStart(t, p, i, n)
  PROVE  CellsInv'
<1> USE DEF Goto, fileVars, pageVars
<1> t \in Actors
  BY DEF Actors
<1>1. Types /\ Tame /\ Alone(t) /\ ActorTypes /\ clock \in Nat
      /\ uptodate \subseteq Pages /\ pdata \in [Pages -> [1..PageSize -> Vals]]
      /\ from[t] \in Nat /\ to[t] \in Nat /\ to[t] \in 0..PageSize
  BY WriteIsTame, WriteAlone, CellTypes DEF LockedInv, Types, PageTypes
<1>2. ASSUME NEW p \in Pages, NEW i \in 0..(PageSize - 1), NEW n \in 1..(PageSize - i),
             WriteStart(t, p, i, n)
      PROVE  CellsInv'
  <2>1. pc'[t] = "w_grab"
    BY <1>1, <1>2 DEF WriteStart, ActorTypes
  <2> QED
    BY <1>1, <2>1, CellsTame DEF CellPcs
<1>3. CASE WriteGrab(t) \/ WriteFill(t) \/ WriteFillFails(t)
  <2>1. pc'[t] \in {"w_fill", "w_copy"} \/ (pc'[t] = "w_done" /\ ~ok'[t])
    BY <1>1, <1>3 DEF WriteGrab, WriteFill, WriteFillFails, ActorTypes
  <2> QED
    BY <1>1, <2>1, CellsTame DEF CellPcs
<1>4. CASE WriteCopy(t)
  <2>1. at[t] \in uptodate
    BY <1>4 DEF WriteCopy, LockedInv, LockInv, CopyPcs
  <2>2. PICK end \in from[t]..to[t] :
          /\ to' = [to EXCEPT ![t] = end]
          /\ pdata' = [pdata EXCEPT ![at[t]] =
                          [i \in 1..PageSize |->
                              IF i > from[t] /\ i <= end THEN clock + 1 ELSE @[i]]]
    BY <1>4 DEF WriteCopy
  <2>3. /\ pc'[t] = "w_push" /\ pc[t] = "w_copy" /\ at' = at /\ from' = from /\ to'[t] = end
        /\ arg'[t] = clock + 1 /\ clock' = clock + 1
    BY <1>1, <1>4, <2>2 DEF WriteCopy, ActorTypes
  <2>4. \A i \in 1..PageSize : from[t] < i /\ i <= end => pdata'[at[t]][i] = clock + 1
    BY <1>1, <2>1, <2>2
  <2>5. Copied(t)' => at'[t] \in Pages /\ 1 <= arg'[t] /\ arg'[t] <= clock'
    BY <1>1, <2>1, <2>3
  <2>6. \A p \in Pages, i \in 1..PageSize :
             at'[t] = p /\ from'[t] < i /\ i <= to'[t] => arg'[t] <= pdata'[p][i]
    BY <1>1, <2>3, <2>4
  <2> QED
    BY <1>1, <2>3, <2>5, <2>6, CellsOwn DEF WritePcs
<1>5. CASE WritePush(t)
  <2>1. at[t] \in uptodate
    BY <1>5 DEF WritePush, LockedInv, LockInv, CopyPcs
  <2>2. PICK o \in Outcomes(to[t]) : /\ lower' = WrittenAt(at[t] * PageSize, at[t], o.cells)
                                     /\ ok' = [ok EXCEPT ![t] = ~o.error]
    BY <1>5 DEF WritePush
  <2>3. /\ o.cells \in 0..PageSize /\ o.error \in BOOLEAN
        /\ ~o.error /\ "short_write" \notin scenario.faults => o.cells = to[t]
    BY <1>1, <2>2, OutcomesType, PageBounds
  <2>4. /\ pc'[t] = "w_end" /\ pc[t] = "w_push" /\ at' = at /\ from' = from /\ to' = to /\ arg' = arg
        /\ ok'[t] = ~o.error /\ pdata' = pdata /\ clock' = clock
    BY <1>1, <1>5, <2>2 DEF WritePush, ActorTypes
  <2>5. at[t] \in Pages /\ 1 <= arg[t] /\ arg[t] <= clock
    BY <2>4 DEF CellsInv, ClockInv, Copied
  <2>6. \A i \in 1..PageSize : from[t] < i /\ i <= to[t] => arg[t] <= pdata[at[t]][i]
    BY <2>4, <2>5 DEF CellsInv, TruthInv
  <2>7. \A p \in Pages, i \in 1..PageSize : p = at[t] /\ i <= o.cells => Below(p, i)' = pdata[p][i]
    BY <1>1, <2>1, <2>2, <2>3, PushBelow
  <2>8. Copied(t)' => at'[t] \in Pages /\ 1 <= arg'[t] /\ arg'[t] <= clock'
    BY <2>4, <2>5
  <2>9. \A p \in Pages, i \in 1..PageSize :
             at'[t] = p /\ from'[t] < i /\ i <= to'[t] =>
                 /\ pc'[t] = "w_push" => arg'[t] <= pdata'[p][i]
                 /\ "short_write" \notin scenario.faults /\ pc'[t] \in {"w_end", "w_done"} /\ ok'[t] =>
                      arg'[t] <= Below(p, i)' /\ (p \in uptodate' => arg'[t] <= pdata'[p][i])
    BY <2>3, <2>4, <2>6, <2>7
  <2> QED
    BY <1>1, <2>4, <2>8, <2>9, CellsOwn DEF WritePcs
<1>6. CASE WriteEnd(t)
  <2>1. /\ pc'[t] = "w_done" /\ pc[t] = "w_end" /\ at' = at /\ from' = from /\ to' = to /\ arg' = arg
        /\ ok' = ok /\ pdata' = pdata /\ clock' = clock /\ uptodate' = uptodate /\ lower' = lower
    BY <1>1, <1>6 DEF WriteEnd, ActorTypes
  <2>2. at[t] \in Pages /\ 1 <= arg[t] /\ arg[t] <= clock
    BY <2>1 DEF CellsInv, ClockInv, Copied
  <2>3. \A p \in Pages, i \in 1..PageSize : Below(p, i)' = Below(p, i)
    BY <2>1, SameBelow
  <2>4. \A p \in Pages, i \in 1..PageSize :
             at'[t] = p /\ from'[t] < i /\ i <= to'[t] =>
                 /\ pc'[t] = "w_push" => arg'[t] <= pdata'[p][i]
                 /\ "short_write" \notin scenario.faults /\ pc'[t] \in {"w_end", "w_done"} /\ ok'[t] =>
                      arg'[t] <= Below(p, i)' /\ (p \in uptodate' => arg'[t] <= pdata'[p][i])
    BY <2>1, <2>3 DEF CellsInv, TruthInv
  <2>5. Copied(t)' => at'[t] \in Pages /\ 1 <= arg'[t] /\ arg'[t] <= clock'
    BY <2>1, <2>2
  <2> QED
    BY <1>1, <2>1, <2>4, <2>5, CellsOwn DEF WritePcs
<1>7. CASE WriteReturn(t)
  <2>1. pc'[t] = "idle"
    BY <1>1, <1>7, FinishAlone DEF WriteReturn, Finish, ActorTypes
  <2> QED
    BY <1>1, <2>1, CellsTame DEF CellPcs
<1> QED
  BY <1>2, <1>3, <1>4, <1>5, <1>6, <1>7 DEF WriteStep

LEMMA OthersKeepCells ==
  ASSUME OffsetsFit, LockedInv, LockedInv', CellsInv,
         \/ FlushSize \/ FlushEnd \/ \E p \in Pages : FlushBegin(p)
         \/ \E t \in Tasks : \/ SyncStep(t) \/ SyncStart(t) \/ ReadFill(t)
                             \/ \E p \in Pages : ReadStart(t, p) \/ \E i \in 1..PageSize : Store(t, p, i)
  PROVE  CellsInv'
<1> USE DEF Goto
<1> ActorTypes /\ Flusher \notin Tasks /\ \A t \in Tasks : t \in Actors
  BY ActorsAreDistinct DEF LockedInv, Types, Actors
<1>1. CASE FlushSize \/ FlushEnd \/ \E p \in Pages : FlushBegin(p)
  BY <1>1, WritebackIsTame, FlushAlone, CellsTame
<1>2. ASSUME NEW t \in Tasks, SyncStep(t) \/ SyncStart(t)
      PROVE  CellsInv'
  <2>1. pc'[t] \in SyncPcs \cup {"idle"}
    BY <1>2 DEF SyncStep, SyncStart, SyncNext, SyncLock, SyncSize, SyncPush, SyncReturn, Finish,
       LengthStep, SyncPcs, ActorTypes
  <2> QED
    BY <1>2, <2>1, WritebackIsTame, SyncAlone, CellsTame DEF SyncPcs, CellPcs
<1>3. ASSUME NEW t \in Tasks,
             ReadFill(t) \/ \E p \in Pages : ReadStart(t, p) \/ \E i \in 1..PageSize : Store(t, p, i)
      PROVE  CellsInv'
  <2>1. pc'[t] \in {"idle", "r_fill"}
    BY <1>3 DEF ReadFill, ReadStart, Store, Finish, actorVars, ActorTypes
  <2> QED
    BY <1>3, <2>1, ReadIsTame, ReadAlone, CellsTame DEF CellPcs
<1> QED
  BY <1>1, <1>2, <1>3

LEMMA TruncKeepsCells ==
  ASSUME LockedInv, LockedInv', CutInv, CellsInv, NEW t \in Tasks,
         TruncStep(t) \/ \E n \in 0..(NumPages * PageSize) : TruncStart(t, n)
  PROVE  CellsInv'
<1> USE DEF Goto
<1> t \in Actors
  BY DEF Actors
<1>1. Types /\ Types' /\ ActorTypes /\ Alone(t) /\ clock \in Nat /\ arg[t] \in Nat
      /\ uptodate \subseteq Pages /\ uptodate' \subseteq Pages
      /\ pdata \in [Pages -> [1..PageSize -> Vals]]
  BY TruncAlone, CellTypes, CellTypesNext DEF LockedInv, Types, PageTypes
<1>2. pc'[t] \in TruncPcs \cup {"idle"}
  BY <1>1 DEF TruncStep, TruncStart, TruncLower, TruncLowerFails, TruncSize, TruncPages,
     TruncPagesDone, TruncCopy, TruncReturn, Finish, TruncPcs, ActorTypes
<1>3. CASE Tame
  BY <1>1, <1>2, <1>3, CellsTame DEF TruncPcs, CellPcs
<1>4. ASSUME clock' = clock, pc[t] \in TruncPcs, pc'[t] \in TruncPcs, uptodate' \subseteq uptodate,
             \A p \in uptodate', i \in 1..PageSize :
                 pdata'[p][i] = pdata[p][i] \/ (pdata'[p][i] = 0 /\ (MappedAndResized \/ Below(p, i) = 0)),
             \A p \in Pages, i \in 1..PageSize :
                 Below(p, i)' = Below(p, i) \/ (Below(p, i)' = 0 /\ pdata' = pdata)
      PROVE  CellsInv'
  <2>1. \A u \in Tasks : pc'[u] \notin CellPcs
    <3>1. \A u \in Tasks \ {t} : pc[u] \notin WritePcs
      BY <1>4, OnePerMutex DEF LockedInv
    <3> QED
      BY <1>1, <1>4, <3>1 DEF Alone, Actors, CellPcs, TruncPcs, WritePcs
  <2>2. ClockInv'
    BY <1>1, <1>4, <2>1 DEF CellsInv, ClockInv, Copied, CellPcs
  <2>3. NewerInv'
    <3>1. MappedAndResized' <=> MappedAndResized
      BY <1>1 DEF MappedAndResized, Alone
    <3>2. ASSUME NEW p \in uptodate', NEW i \in 1..PageSize, ~MappedAndResized
          PROVE  Below(p, i)' <= pdata'[p][i]
      <4>1. Below(p, i) <= pdata[p][i] /\ pdata[p][i] \in Nat /\ Below(p, i) \in Nat /\ p \in Pages
        BY <1>1, <1>4, <3>2, CellTypes DEF CellsInv, NewerInv
      <4>2. pdata'[p][i] = pdata[p][i] \/ (pdata'[p][i] = 0 /\ Below(p, i) = 0)
        BY <1>4, <3>2
      <4>3. Below(p, i)' = Below(p, i) \/ (Below(p, i)' = 0 /\ pdata' = pdata)
        BY <1>4, <4>1
      <4> QED
        BY <4>1, <4>2, <4>3
    <3> QED
      BY <3>1, <3>2 DEF NewerInv
  <2>4. TruthInv'
    BY <2>1 DEF TruthInv, CellPcs
  <2> QED
    BY <2>2, <2>3, <2>4 DEF CellsInv
<1>5. CASE TruncLower(t)
  <2>1. clock' = clock /\ uptodate' = uptodate /\ pdata' = pdata /\ lower' = Resized(arg[t])
        /\ pc[t] \in TruncPcs /\ pc'[t] \in TruncPcs
    BY <1>1, <1>5 DEF TruncLower, pageVars, TruncPcs, ActorTypes
  <2>2. \A p \in Pages, i \in 1..PageSize : Below(p, i)' = Below(p, i) \/ Below(p, i)' = 0
    BY <1>1, <2>1, ResizeBelow
  <2> QED
    BY <1>4, <2>1, <2>2
<1>6. CASE TruncPages(t)
  <2>1. clock' = clock /\ lower' = lower /\ pc[t] = "t_pages" /\ pc' = pc
    BY <1>6 DEF TruncPages, fileVars
  <2>2. \A p \in Pages, i \in 1..PageSize : Below(p, i)' = Below(p, i)
    BY <2>1, SameBelow
  <2>3. \A p \in Pages, i \in 1..PageSize :
            p * PageSize + i > arg[t] => MappedAndResized \/ Below(p, i) = 0
    <3>1. MappedAndResized \/ Len(lower) = arg[t]
      BY <2>1 DEF CutInv, TruncPcs, MappedAndResized
    <3> QED
      BY <1>1, <3>1, BelowType DEF Below
  <2>4. uptodate' \subseteq uptodate /\ \A p \in uptodate', i \in 1..PageSize :
            pdata'[p][i] = pdata[p][i] \/ (pdata'[p][i] = 0 /\ p * PageSize + i > arg[t])
    <3>1. CASE UNCHANGED <<uptodate, pdata>>
      BY <3>1
    <3>2. CASE Dropped({at[t]})
      BY <1>1, <3>2 DEF Dropped
    <3>3. CASE /\ at[t] \in cached /\ uptodate' = uptodate
               /\ pdata' = [pdata EXCEPT ![at[t]] =
                      [i \in 1..PageSize |-> IF at[t] * PageSize + i <= arg[t] THEN @[i] ELSE 0]]
      <4>1. at[t] \in Pages
        BY <3>3 DEF LockedInv, Types, PageTypes
      <4>2. \A i \in 1..PageSize : pdata'[at[t]][i] =
                IF at[t] * PageSize + i <= arg[t] THEN pdata[at[t]][i] ELSE 0
        BY <1>1, <3>3, <4>1
      <4>3. \A i \in 1..PageSize : at[t] * PageSize + i \in Nat
        BY <4>1, BelowType, <1>1
      <4>4. \A p \in Pages : p # at[t] => pdata'[p] = pdata[p]
        BY <1>1, <3>3
      <4> QED
        BY <1>1, <3>3, <4>2, <4>3, <4>4
    <3> QED
      BY <1>6, <3>1, <3>2, <3>3 DEF TruncPages
  <2> QED
    BY <1>1, <1>4, <2>1, <2>2, <2>3, <2>4 DEF TruncPcs
<1> QED
  BY <1>3, <1>5, <1>6, TruncIsTame DEF TruncStep

LEMMA DropKeepsCells ==
  ASSUME LockedInv, LockedInv', CellsInv, EvictInode \/ (\E p \in Pages : Reclaim(p)) \/ UNCHANGED vars
  PROVE  CellsInv'
<1>1. Alone(Flusher) /\ Flusher \in Actors /\ Flusher \notin Tasks
  BY ActorsAreDistinct DEF EvictInode, Reclaim, vars, actorVars, Alone, Actors
<1> QED
  BY <1>1, DropIsTame, CellsTame

LEMMA CellsAlways ==
  ASSUME OffsetsFit
  PROVE  Spec => [](LockedInv /\ StoresInv /\ SizeInv /\ WithinInv /\ CutInv /\ CellsInv)
<1>1. Init => CellsInv
  <2> SUFFICES ASSUME Init PROVE CellsInv
    OBVIOUS
  <2>1. \A p \in Pages, i \in 1..PageSize : Below(p, i) = 0
    <3>1. \A p \in Pages, i \in 1..PageSize : p * PageSize + i \in Nat /\ p * PageSize + i >= 1
      BY PagesFit, PageBounds
    <3> QED
      BY <3>1 DEF Init, Below
  <2> QED
    BY <2>1 DEF Init, CellsInv, ClockInv, NewerInv, TruthInv, Copied, Actors
<1>2. LockedInv /\ LockedInv' /\ CutInv /\ CellsInv /\ [Next]_vars => CellsInv'
  BY OthersKeepCells, WriteKeepsCells, TruncKeepsCells, DropKeepsCells DEF Next, Begin, Step
<1> QED
  BY <1>1, <1>2, CutAlways, OffsetsFit, PTL DEF Spec

\* When a write has succeeded, and the lower filesystem writes all it is given
\* or nothing, every cell of it is in the lower file at its place, unless
\* something newer is (lofs_write_end, src/lofs/mmap.c).
THEOREM WritesAreBelow ==
  ASSUME OffsetsFit
  PROVE  Spec => []WriteReportsTruth
<1>1. LockedInv /\ CellsInv => WriteReportsTruth
  <2> SUFFICES ASSUME LockedInv, CellsInv, "short_write" \notin scenario.faults,
                      NEW t \in Tasks, pc[t] = "w_done", ok[t], NEW i \in (from[t] + 1)..to[t]
               PROVE  LET c == at[t] * PageSize + i IN c <= Len(lower) /\ lower[c] >= arg[t]
    BY DEF WriteReportsTruth
  <2>1. at[t] \in Pages /\ 1 <= arg[t] /\ arg[t] \in Nat
    BY CellTypes DEF CellsInv, ClockInv, Copied, LockedInv, Actors
  <2>2. i \in 1..PageSize /\ from[t] < i /\ i <= to[t]
    <3>1. from[t] \in Nat /\ to[t] \in Nat /\ to[t] <= PageSize
      BY CellTypes, PageBounds DEF LockedInv, Actors
    <3> QED
      BY <3>1, PageBounds
  <2>3. arg[t] <= Below(at[t], i)
    BY <2>1, <2>2 DEF CellsInv, TruthInv
  <2> QED
    BY <2>1, <2>3 DEF Below
<1> QED
  BY <1>1, CellsAlways, PTL

\* Nothing in the lower file is ever overwritten by something older, whatever
\* fails: no page that lofs writes back carries stale cells (EC-9275; the
\* lower page is read before part of it is overwritten, src/lofs/mmap.c).
THEOREM NothingGoesBackward ==
  ASSUME OffsetsFit
  PROVE  Spec => NothingGoesBack
<1>1. ASSUME LockedInv, CellsInv, [Next]_vars, ~Truncating, ~MappedAndResized
      PROVE  Len(lower') >= Len(lower) /\ \A c \in DOMAIN lower : lower'[c] >= lower[c]
  <2>1. Tame
    <3>1. \A t \in Tasks : ~TruncLower(t) /\ ~TruncPages(t)
      BY <1>1 DEF Truncating, TruncLower, TruncPages, Goto, TruncPcs
    <3> QED
      BY <1>1, <3>1, StepsAreTame
  <2>2. ASSUME NEW c \in DOMAIN lower
        PROVE  lower'[c] >= lower[c]
    <3>1. c \in Nat \ {0} /\ c <= Len(lower) /\ Len(lower) \in Nat /\ Len(lower) <= NumPages * PageSize
      BY <1>1 DEF LockedInv, Types, FileTypes
    <3>2. c <= NumPages * PageSize
      BY <3>1, PageBounds
    <3>3. PICK p \in Pages, i \in 1..PageSize : c = p * PageSize + i
      BY <3>1, <3>2, CellIsInPage
    <3>4. Below(p, i) = lower[c] /\ Below(p, i) \in Nat
      BY <1>1, <3>1, <3>3, BelowType DEF Below, LockedInv
    <3>5. Below(p, i)' = lower'[c]
      <4>1. Len(lower') >= c
        BY <2>1, <3>1 DEF Tame
      <4> QED
        BY <3>3, <4>1 DEF Below
    <3>6. Below(p, i)' = Below(p, i) \/ (p \in uptodate /\ Below(p, i)' = pdata[p][i])
      BY <2>1, <3>3 DEF Tame
    <3>7. p \in uptodate => Below(p, i) <= pdata[p][i]
      BY <1>1 DEF CellsInv, NewerInv
    <3> QED
      BY <3>4, <3>5, <3>6, <3>7
  <2> QED
    BY <2>1, <2>2 DEF Tame
<1>2. LockedInv /\ CellsInv /\ [Next]_vars =>
          [ \/ Truncating \/ MappedAndResized
            \/ /\ Len(lower') >= Len(lower)
               /\ \A c \in DOMAIN lower : lower'[c] >= lower[c] ]_vars
  BY <1>1
<1> QED
  BY <1>2, CellsAlways, PTL DEF Spec, NothingGoesBack

-----------------------------------------------------------------------------
(* Where a page and the lower file may differ.                              *)

\* The lower filesystem takes all it is given, i_size is loaded once, and a
\* file is mapped or resized but not both.
Steady == LowerTakesAll /\ ~scenario.reloads /\ ~MappedAndResized

InHand(p, i) == \E u \in Actors : pc[u] \in {"f_push", "s_push"} /\ at[u] = p /\ i <= to[u]
Waiting(p, i) == (p \in dirty /\ p * PageSize + i <= isize) \/ InHand(p, i)
BeingWritten(p, i) ==
    \E t \in Tasks : /\ pc[t] = "w_push" /\ at[t] = p /\ from[t] < i /\ i <= to[t]
                     /\ arg[t] = pdata[p][i]
BeingCut(p, i) ==
    \E t \in Tasks : /\ p * PageSize + i > arg[t]
                     /\ pc[t] = "t_size" \/ (pc[t] = "t_pages" /\ at[t] <= p)

DiffersAt(p, i) == Waiting(p, i) \/ BeingWritten(p, i) \/ BeingCut(p, i)

DiffInv ==
    /\ ~scenario.reloads => \A u \in Actors : pc[u] \notin {"f_size", "s_size"}
    /\ Steady => \A p \in uptodate, i \in 1..PageSize : pdata[p][i] = Below(p, i) \/ DiffersAt(p, i)

LEMMA SteadyKept ==
  ASSUME scenario' = scenario
  PROVE  Steady' <=> Steady
BY DEF Steady, LowerTakesAll, MappedAndResized

HandPcs == {"f_push", "s_push", "w_push", "t_size", "t_pages"}

LEMMA DiffersKept ==
  ASSUME NEW p \in Pages, NEW i \in 1..PageSize, p * PageSize + i \in Nat, DiffersAt(p, i),
         isize \in Nat, isize' \in Nat, isize <= isize',
         p \in dirty /\ p * PageSize + i <= isize => p \in dirty',
         pdata'[p][i] = pdata[p][i],
         \A u \in Actors : pc[u] \in HandPcs =>
             pc'[u] = pc[u] /\ at'[u] = at[u] /\ from'[u] = from[u] /\ to'[u] = to[u] /\ arg'[u] = arg[u]
  PROVE  DiffersAt(p, i)'
<1>1. \A u \in Tasks : u \in Actors
  BY DEF Actors
<1>2. CASE Waiting(p, i)
  <2>1. Waiting(p, i)'
    BY <1>2 DEF Waiting, InHand, HandPcs
  <2> QED
    BY <2>1 DEF DiffersAt
<1>3. CASE BeingWritten(p, i)
  <2>1. BeingWritten(p, i)'
    BY <1>1, <1>3 DEF BeingWritten, HandPcs
  <2> QED
    BY <2>1 DEF DiffersAt
<1>4. CASE BeingCut(p, i)
  <2>1. BeingCut(p, i)'
    BY <1>1, <1>4 DEF BeingCut, HandPcs
  <2> QED
    BY <2>1 DEF DiffersAt
<1> QED
  BY <1>2, <1>3, <1>4 DEF DiffersAt

\* A step of an actor that has nothing in hand: a cell stays as it was, or is
\* equal to the lower one, or the step accounts for the difference.
LEMMA DiffQuiet ==
  ASSUME LockedInv, DiffInv, NEW t \in Actors, Alone(t), isize \in Nat, isize' \in Nat, isize <= isize',
         pc[t] \notin HandPcs \/ UNCHANGED <<pc, at, from, to, arg>>,
         pc'[t] = pc[t] \/ scenario.reloads \/ pc'[t] \notin {"f_size", "s_size"},
         Steady => \A p \in uptodate', i \in 1..PageSize :
             \/ pdata'[p][i] = Below(p, i)'
             \/ /\ p \in uptodate /\ pdata'[p][i] = pdata[p][i] /\ Below(p, i)' = Below(p, i)
                /\ p \in dirty /\ p * PageSize + i <= isize => p \in dirty'
             \/ DiffersAt(p, i)'
  PROVE  DiffInv'
<1>1. \A u \in Actors : pc[u] \in HandPcs =>
          pc'[u] = pc[u] /\ at'[u] = at[u] /\ from'[u] = from[u] /\ to'[u] = to[u] /\ arg'[u] = arg[u]
  BY DEF Alone
<1>2. ~scenario.reloads' => \A u \in Actors : pc'[u] \notin {"f_size", "s_size"}
  BY DEF DiffInv, Alone
<1>3. ASSUME NEW p \in uptodate', NEW i \in 1..PageSize, Steady
      PROVE  pdata'[p][i] = Below(p, i)' \/ DiffersAt(p, i)'
  <2>1. CASE /\ p \in uptodate /\ pdata'[p][i] = pdata[p][i] /\ Below(p, i)' = Below(p, i)
             /\ p \in dirty /\ p * PageSize + i <= isize => p \in dirty'
    <3>1. p \in Pages /\ p * PageSize + i \in Nat
      BY <2>1, BelowType DEF LockedInv, Types, PageTypes
    <3>2. pdata[p][i] = Below(p, i) \/ DiffersAt(p, i)
      BY <1>3, <2>1 DEF DiffInv
    <3>3. DiffersAt(p, i) => DiffersAt(p, i)'
      BY <1>1, <2>1, <3>1, DiffersKept
    <3> QED
      BY <2>1, <3>2, <3>3
  <2> QED
    BY <1>3, <2>1
<1> QED
  BY <1>2, <1>3, SteadyKept DEF DiffInv, Alone

\* A transfer leaves the other pages as they were.
LEMMA DiffPush ==
  ASSUME LockedInv, DiffInv, NEW t \in Actors, Alone(t), isize' = isize, pdata' = pdata,
         uptodate' \subseteq uptodate, dirty' = dirty,
         at[t] \in Pages, pc[t] \in {"f_push", "s_push", "w_push"},
         pc'[t] \notin {"f_size", "s_size"},
         Steady => lower' = WrittenAt(at[t] * PageSize, at[t], to[t])
  PROVE  DiffInv'
<1>1. \A u \in Actors : u # t => pc'[u] = pc[u] /\ at'[u] = at[u] /\ from'[u] = from[u]
                                 /\ to'[u] = to[u] /\ arg'[u] = arg[u]
  BY DEF Alone
<1>2. \A u \in Tasks : u \in Actors
  BY DEF Actors
<1>3. ~scenario.reloads' => \A u \in Actors : pc'[u] \notin {"f_size", "s_size"}
  BY <1>1 DEF DiffInv, Alone
<1>4. ASSUME NEW p \in uptodate', NEW i \in 1..PageSize, Steady
      PROVE  pdata'[p][i] = Below(p, i)' \/ DiffersAt(p, i)'
  <2>1. p \in Pages /\ Types /\ to[t] \in 0..PageSize /\ p \in uptodate
    BY <1>4, CellTypes DEF LockedInv
  <2>2. Below(p, i)' = IF p = at[t] /\ i <= to[t] THEN pdata[p][i] ELSE Below(p, i)
    <3>1. PICK q \in Pages : q = at[t]
      OBVIOUS
    <3>2. lower' = WrittenAt(q * PageSize, q, to[t])
      BY <1>4, <3>1
    <3> QED
      BY <2>1, <3>1, <3>2, PushBelow
  <2>3. CASE p = at[t] /\ i <= to[t]
    BY <2>2, <2>3
  <2>4. CASE ~(p = at[t] /\ i <= to[t])
    <3>1. SUFFICES ASSUME DiffersAt(p, i) PROVE DiffersAt(p, i)'
      BY <1>4, <2>1, <2>2, <2>4 DEF DiffInv
    <3>2. CASE Waiting(p, i)
      <4>1. Waiting(p, i)'
        BY <1>1, <2>4, <3>2 DEF Waiting, InHand
      <4> QED
        BY <4>1 DEF DiffersAt
    <3>3. CASE BeingWritten(p, i)
      <4>1. BeingWritten(p, i)'
        BY <1>1, <1>2, <2>4, <3>3 DEF BeingWritten
      <4> QED
        BY <4>1 DEF DiffersAt
    <3>4. CASE BeingCut(p, i)
      <4>1. BeingCut(p, i)'
        BY <1>1, <1>2, <3>4 DEF BeingCut
      <4> QED
        BY <4>1 DEF DiffersAt
    <3> QED
      BY <3>1, <3>2, <3>3, <3>4 DEF DiffersAt
  <2> QED
    BY <2>3, <2>4
<1> QED
  BY <1>3, <1>4, SteadyKept DEF DiffInv, Alone

LEMMA SizesAreNat ==
  ASSUME Types
  PROVE  isize \in Nat /\ Len(lower) \in Nat
BY PageBounds DEF Types, FileTypes

LEMMA SizesAreNatNext ==
  ASSUME Types'
  PROVE  isize' \in Nat
BY PageBounds DEF Types, FileTypes

LEMMA FillKeepsDiff ==
  ASSUME LockedInv, DiffInv, NEW t \in Actors, Alone(t), UNCHANGED <<lower, isize, dirty>>,
         pc[t] \notin HandPcs, pc'[t] \notin {"f_size", "s_size"}, NEW p \in Pages,
         uptodate' = uptodate \cup {p}, pdata' = [pdata EXCEPT ![p] = LowerPage(p)]
  PROVE  DiffInv'
<1>1. Types /\ isize \in Nat /\ pdata \in [Pages -> [1..PageSize -> Vals]]
  BY SizesAreNat DEF LockedInv, Types, PageTypes
<1>2. ASSUME NEW q \in uptodate', NEW i \in 1..PageSize
      PROVE  \/ pdata'[q][i] = Below(q, i)'
             \/ q \in uptodate /\ pdata'[q][i] = pdata[q][i] /\ Below(q, i)' = Below(q, i)
  <2>1. Below(q, i)' = Below(q, i)
    BY SameBelow
  <2>2. CASE q = p
    <3>1. pdata'[p][i] = Below(p, i)
      BY <1>1, BelowType
    <3> QED
      BY <2>1, <2>2, <3>1
  <2>3. CASE q # p
    BY <1>1, <2>1, <2>3
  <2> QED
    BY <2>2, <2>3
<1> QED
  BY <1>1, <1>2, DiffQuiet

LEMMA WriteKeepsDiff ==
  ASSUME LockedInv, LockedInv', SizeInv, DiffInv, NEW t \in Tasks,
         \/ WriteStep(t)
         \/ \E p \in Pages, i \in 0..(PageSize - 1) : \E n \in 1..(PageSize - i) : WriteStart(t, p, i, n)
  PROVE  DiffInv'
<1> USE DEF Goto, fileVars, pageVars
<1> t \in Actors
  BY DEF Actors
<1>1. Types /\ uptodate \subseteq Pages /\ uptodate \subseteq cached /\ isize \in Nat /\ isize' \in Nat
      /\ Len(lower) \in Nat /\ pdata \in [Pages -> [1..PageSize -> Vals]] /\ pc \in [Actors -> Pcs]
      /\ to \in [Actors -> 0..PageSize] /\ arg \in [Actors -> Nat] /\ at[t] \in 0..NumPages
  BY SizesAreNat, SizesAreNatNext DEF LockedInv, Types, PageTypes, FileTypes, ActorTypes
<1>2. Alone(t)
  BY <1>1, WriteAlone DEF Types
<1>3. ASSUME NEW p \in Pages, NEW i \in 0..(PageSize - 1), NEW n \in 1..(PageSize - i),
             WriteStart(t, p, i, n)
      PROVE  DiffInv'
  <2>1. pc[t] = "idle" /\ pc'[t] = "w_grab" /\ UNCHANGED <<lower, isize, dirty, uptodate, pdata>>
    BY <1>1, <1>3 DEF WriteStart
  <2> QED
    BY <1>1, <1>2, <2>1, SameBelow, DiffQuiet DEF HandPcs
<1>4. CASE WriteGrab(t)
  <2>1. pc[t] = "w_grab" /\ pc'[t] \in {"w_copy", "w_fill"} /\ UNCHANGED <<lower, isize, dirty, uptodate>>
    BY <1>1, <1>4 DEF WriteGrab
  <2>2. \A p \in uptodate : pdata'[p] = pdata[p]
    BY <1>1, <1>4 DEF WriteGrab, NewPage
  <2>3. \A p \in uptodate', i \in 1..PageSize :
            p \in uptodate /\ pdata'[p][i] = pdata[p][i] /\ Below(p, i)' = Below(p, i)
    BY <2>1, <2>2, SameBelow
  <2>4. \A p \in uptodate', i \in 1..PageSize :
            /\ p \in uptodate /\ pdata'[p][i] = pdata[p][i] /\ Below(p, i)' = Below(p, i)
            /\ p \in dirty /\ p * PageSize + i <= isize => p \in dirty'
    BY <2>1, <2>3
  <2>5. isize <= isize' /\ pc[t] \notin HandPcs /\ pc'[t] \notin {"f_size", "s_size"}
    BY <1>1, <2>1 DEF HandPcs
  <2> QED
    BY <1>1, <1>2, <2>4, <2>5, DiffQuiet
<1>5. CASE WriteFill(t)
  <2>1. pc[t] = "w_fill" /\ pc'[t] = "w_copy" /\ UNCHANGED <<lower, isize, dirty>>
        /\ uptodate' = uptodate \cup {at[t]} /\ pdata' = [pdata EXCEPT ![at[t]] = LowerPage(at[t])]
    BY <1>1, <1>5 DEF WriteFill
  <2>2. at[t] \in Pages
    BY <2>1 DEF LockedInv, LockInv, FillPcs, UsingPcs
  <2> QED
    BY <1>2, <2>1, <2>2, FillKeepsDiff DEF HandPcs
<1>6. CASE WriteFillFails(t)
  <2>1. pc[t] = "w_fill" /\ pc'[t] = "w_done" /\ UNCHANGED <<lower, isize, dirty, uptodate, pdata>>
    BY <1>1, <1>6 DEF WriteFillFails
  <2> QED
    BY SMTT(30), <1>1, <1>2, <2>1, SameBelow, DiffQuiet DEF HandPcs
<1>7. CASE WriteCopy(t)
  <2>1. pc[t] = "w_copy" /\ pc'[t] = "w_push" /\ UNCHANGED <<lower, isize, dirty, uptodate, at, from>>
        /\ arg'[t] = clock + 1
    BY <1>1, <1>7 DEF WriteCopy
  <2>2. PICK end \in from[t]..to[t] :
            /\ to' = [to EXCEPT ![t] = end]
            /\ pdata' = [pdata EXCEPT ![at[t]] =
                          [i \in 1..PageSize |->
                              IF i > from[t] /\ i <= end THEN clock + 1 ELSE @[i]]]
    BY <1>7 DEF WriteCopy
  <2>3. to'[t] = end
    BY <1>1, <2>2
  <2>4. ASSUME NEW p \in uptodate, NEW i \in 1..PageSize
        PROVE  pdata'[p][i] = IF p = at[t] /\ i > from[t] /\ i <= end THEN clock + 1 ELSE pdata[p][i]
    BY <1>1, <2>2
  <2>5. ASSUME NEW p \in uptodate, NEW i \in 1..PageSize, p = at[t], i > from[t], i <= end
        PROVE  DiffersAt(p, i)'
    <3>1. /\ pc'[t] = "w_push" /\ at'[t] = p /\ from'[t] < i /\ i <= to'[t]
          /\ arg'[t] = pdata'[p][i]
      BY <1>1, <2>1, <2>3, <2>4, <2>5, CellTypes, PageBounds
    <3> QED
      BY <3>1 DEF DiffersAt, BeingWritten
  <2>6. \A p \in uptodate', i \in 1..PageSize :
            \/ pdata'[p][i] = pdata[p][i] /\ Below(p, i)' = Below(p, i)
            \/ DiffersAt(p, i)'
    BY <2>1, <2>4, <2>5, SameBelow
  <2>7. \A p \in uptodate', i \in 1..PageSize :
             \/ pdata'[p][i] = Below(p, i)'
             \/ /\ p \in uptodate /\ pdata'[p][i] = pdata[p][i] /\ Below(p, i)' = Below(p, i)
                /\ p \in dirty /\ p * PageSize + i <= isize => p \in dirty'
             \/ DiffersAt(p, i)'
    BY <2>1, <2>6
  <2>8. isize <= isize' /\ pc[t] \notin HandPcs /\ pc'[t] \notin {"f_size", "s_size"}
    BY <1>1, <2>1 DEF HandPcs
  <2> QED
    BY <1>1, <1>2, <2>7, <2>8, DiffQuiet
<1>8. CASE WritePush(t)
  <2>1. pc[t] = "w_push" /\ pc'[t] = "w_end" /\ UNCHANGED <<isize, dirty, uptodate, pdata>>
    BY <1>1, <1>8 DEF WritePush
  <2>2. at[t] \in Pages
    BY <1>1, <2>1 DEF LockedInv, LockInv, CopyPcs
  <2>3. PICK o \in Outcomes(to[t]) : lower' = WrittenAt(at[t] * PageSize, at[t], o.cells)
    BY <1>8 DEF WritePush
  <2>4. LowerTakesAll => o.cells = to[t]
    BY <1>1, OutcomesType
  <2> QED
    BY <1>1, <1>2, <2>1, <2>2, <2>3, <2>4, DiffPush DEF Steady
<1>9. CASE WriteEnd(t) \/ WriteReturn(t)
  <2>1. pc[t] \in {"w_end", "w_done"} /\ pc'[t] \in {"w_done", "idle"} /\ UNCHANGED <<lower, dirty, uptodate, pdata>>
    BY <1>1, <1>9 DEF WriteEnd, WriteReturn, Finish
  <2>2. isize <= isize'
    BY <1>1, <1>9 DEF WriteEnd, WriteReturn, SizeInv
  <2> QED
    BY <1>1, <1>2, <2>1, <2>2, SameBelow, DiffQuiet DEF HandPcs
<1> QED
  BY <1>3, <1>4, <1>5, <1>6, <1>7, <1>8, <1>9 DEF WriteStep

LEMMA ReadKeepsDiff ==
  ASSUME LockedInv, LockedInv', DiffInv, NEW t \in Tasks,
         ReadFill(t) \/ \E p \in Pages : ReadStart(t, p) \/ \E i \in 1..PageSize : Store(t, p, i)
  PROVE  DiffInv'
<1> USE DEF Goto, fileVars, pageVars
<1> t \in Actors
  BY DEF Actors
<1>1. Types /\ uptodate \subseteq Pages /\ uptodate \subseteq cached /\ isize \in Nat /\ isize' \in Nat
      /\ pdata \in [Pages -> [1..PageSize -> Vals]] /\ pc \in [Actors -> Pcs]
  BY SizesAreNat, SizesAreNatNext DEF LockedInv, Types, PageTypes, ActorTypes
<1>2. Alone(t)
  BY <1>1, ReadAlone DEF Types
<1>3. CASE ReadFill(t)
  <2>1. pc[t] = "r_fill" /\ pc'[t] = "idle" /\ UNCHANGED <<lower, isize, dirty>>
    BY <1>1, <1>3 DEF ReadFill, Finish
  <2>2. at[t] \in Pages
    BY <2>1 DEF LockedInv, LockInv, FillPcs, UsingPcs
  <2>3. CASE uptodate' = uptodate \cup {at[t]} /\ pdata' = [pdata EXCEPT ![at[t]] = LowerPage(at[t])]
    BY <1>2, <2>1, <2>2, <2>3, FillKeepsDiff DEF HandPcs
  <2>4. CASE uptodate' = uptodate \ {at[t]} /\ pdata' = pdata
    BY <1>1, <1>2, <2>1, <2>4, SameBelow, DiffQuiet DEF HandPcs
  <2> QED
    BY <1>3, <2>3, <2>4 DEF ReadFill
<1>4. ASSUME NEW p \in Pages, ReadStart(t, p)
      PROVE  DiffInv'
  <2>1. pc[t] = "idle" /\ pc'[t] = "r_fill" /\ UNCHANGED <<lower, isize, dirty, uptodate>>
    BY <1>1, <1>4 DEF ReadStart
  <2>2. \A q \in uptodate : pdata'[q] = pdata[q]
    BY <1>1, <1>4 DEF ReadStart, NewPage
  <2> QED
    BY <1>1, <1>2, <2>1, <2>2, SameBelow, DiffQuiet DEF HandPcs
<1>5. ASSUME NEW p \in Pages, NEW i \in 1..PageSize, Store(t, p, i)
      PROVE  DiffInv'
  <2>1. pc[t] = "idle" /\ pc' = pc /\ UNCHANGED <<lower, isize, uptodate>>
        /\ dirty' = dirty \cup {p} /\ p * PageSize + i <= isize
        /\ pdata' = [pdata EXCEPT ![p][i] = clock + 1]
    BY <1>5 DEF Store, actorVars
  <2>2. DiffersAt(p, i)'
    BY <2>1 DEF DiffersAt, Waiting
  <2>3. ASSUME NEW q \in uptodate, NEW j \in 1..PageSize, q # p \/ j # i
        PROVE  pdata'[q][j] = pdata[q][j]
    BY <1>1, <2>1, <2>3
  <2> QED
    BY <1>1, <1>2, <2>1, <2>2, <2>3, SameBelow, DiffQuiet DEF HandPcs
<1> QED
  BY <1>3, <1>4, <1>5

\* A page is taken for writing: what waited in it is in hand.
LEMMA BeginKeepsDiff ==
  ASSUME LockedInv, DiffInv, NEW t \in Actors, Alone(t), NEW p \in Pages, pc[t] \notin HandPcs,
         pc'[t] \in {"f_size", "f_push", "s_size", "s_push"},
         ~scenario.reloads => pc'[t] \in {"f_push", "s_push"},
         at'[t] = p, WritepageBegin(t, p)
  PROVE  DiffInv'
<1>1. Types /\ uptodate \subseteq Pages /\ isize \in Nat /\ to \in [Actors -> 0..PageSize]
  BY SizesAreNat DEF LockedInv, Types, PageTypes, ActorTypes
<1>2. UNCHANGED <<lower, isize, uptodate, pdata>> /\ dirty' = dirty \ {p} /\ to'[t] = PageLength(p)
  BY <1>1 DEF WritepageBegin, fileVars
<1>3. ASSUME Steady, NEW i \in 1..PageSize, p * PageSize + i <= isize
      PROVE  DiffersAt(p, i)'
  <2>1. i <= PageLength(p)
    BY <1>1, <1>3, PageLengthType
  <2>2. InHand(p, i)'
    BY <1>2, <1>3, <2>1 DEF InHand, Steady
  <2> QED
    BY <2>2 DEF DiffersAt, Waiting
<1> QED
  BY <1>1, <1>2, <1>3, SameBelow, DiffQuiet

LEMMA EndKeepsDiff ==
  ASSUME OffsetsFit, LockedInv, DiffInv, NEW t \in Actors, Alone(t), pc[t] \in {"f_push", "s_push"},
         pc'[t] \in {"idle", "s_next", "s_done"}, NEW written \in BOOLEAN, WritepageEnd(t, written)
  PROVE  DiffInv'
<1>1. to[t] \in 0..PageSize /\ at[t] \in uptodate /\ at[t] \in Pages
  BY DEF LockedInv, Types, ActorTypes, PageTypes, LockInv, WritebackPcs
<1>2. PICK o \in Outcomes(to[t]) :
          lower' = WrittenAt(WritepageOffset(at[t]), at[t], o.cells)
          /\ written = (o.cells = to[t] /\ ~o.error)
  BY DEF WritepageEnd
<1>3. LowerTakesAll => o.cells = to[t]
  BY <1>1, OutcomesType
<1>4. WritepageOffset(at[t]) = at[t] * PageSize
  BY <1>1, OffsetIsPlace
<1>5. UNCHANGED <<isize, pdata, dirty>> /\ uptodate' \subseteq uptodate
  BY <1>1 DEF WritepageEnd
<1> QED
  BY <1>1, <1>2, <1>3, <1>4, <1>5, DiffPush DEF Steady

LEMMA WritebackKeepsDiff ==
  ASSUME OffsetsFit, LockedInv, DiffInv,
         \/ FlushSize \/ FlushEnd \/ \E p \in Pages : FlushBegin(p)
         \/ \E t \in Tasks : SyncStep(t) \/ SyncStart(t)
  PROVE  DiffInv'
<1> USE DEF Goto, fileVars, pageVars
<1> Flusher \in Actors /\ \A t \in Tasks : t \in Actors
  BY DEF Actors
<1>1. Types /\ isize \in Nat /\ ActorTypes
  BY SizesAreNat DEF LockedInv, Types
<1>2. ASSUME NEW t \in Actors, Alone(t), UNCHANGED <<lower, isize, dirty, uptodate, pdata>>,
             pc[t] \notin HandPcs, pc'[t] \notin {"f_size", "s_size"}
      PROVE  DiffInv'
  <2>1. \A p \in uptodate', i \in 1..PageSize :
            /\ p \in uptodate /\ pdata'[p][i] = pdata[p][i] /\ Below(p, i)' = Below(p, i)
            /\ p \in dirty /\ p * PageSize + i <= isize => p \in dirty'
    BY <1>2, SameBelow
  <2>2. isize <= isize' /\ isize' \in Nat
    BY <1>1, <1>2
  <2> QED
    BY <1>1, <1>2, <2>1, <2>2, DiffQuiet
<1>3. CASE FlushSize
  <2>1. Alone(Flusher)
    BY <1>1, <1>3, FlushAlone
  <2>2. pc[Flusher] = "f_size" /\ pc'[Flusher] = "f_push" /\ isize' = isize
        /\ UNCHANGED <<lower, dirty, uptodate, pdata>>
    BY <1>1, <1>3 DEF FlushSize, WritepageSize, ActorTypes
  <2> QED
    BY <1>2, <2>1, <2>2 DEF HandPcs
<1>4. CASE FlushEnd
  <2>1. Alone(Flusher)
    BY <1>1, <1>4, FlushAlone
  <2>2. pc[Flusher] = "f_push" /\ pc'[Flusher] = "idle"
    BY <1>1, <1>4, FinishAlone DEF FlushEnd, Finish, ActorTypes
  <2>3. PICK written \in BOOLEAN : WritepageEnd(Flusher, written)
    BY <1>4 DEF FlushEnd
  <2> QED
    BY <2>1, <2>2, <2>3, EndKeepsDiff
<1>5. ASSUME NEW p \in Pages, FlushBegin(p)
      PROVE  DiffInv'
  <2>1. Alone(Flusher)
    BY <1>1, <1>5, FlushAlone
  <2>2. /\ pc[Flusher] = "idle" /\ pc'[Flusher] \in {"f_size", "f_push"} /\ at'[Flusher] = p
        /\ ~scenario.reloads => pc'[Flusher] = "f_push"
    BY <1>1, <1>5 DEF FlushBegin, LengthStep, ActorTypes
  <2>3. WritepageBegin(Flusher, p)
    BY <1>5 DEF FlushBegin
  <2> QED
    BY <2>1, <2>2, <2>3, BeginKeepsDiff DEF HandPcs
<1>6. ASSUME NEW t \in Tasks, SyncStep(t) \/ SyncStart(t)
      PROVE  DiffInv'
  <2>1. Alone(t)
    BY <1>1, <1>6, SyncAlone
  <2>2. CASE SyncStart(t) \/ SyncNext(t) \/ SyncSize(t) \/ SyncReturn(t)
    <3>1. pc[t] \in {"idle", "s_next", "s_size", "s_done"} /\ pc'[t] \in {"idle", "s_next", "s_lock", "s_push", "s_done"}
          /\ UNCHANGED <<lower, isize, dirty, uptodate, pdata>>
      BY <1>1, <2>2 DEF SyncStart, SyncNext, SyncSize, WritepageSize, SyncReturn, Finish, ActorTypes
    <3> QED
      BY <1>2, <2>1, <3>1 DEF HandPcs
  <2>3. CASE SyncLock(t)
    <3>1. CASE /\ Goto(t, "s_lock", LengthStep(at[t], "s_size", "s_push"))
               /\ WritepageBegin(t, at[t])
               /\ UNCHANGED <<at, ok>>
      <4>1. PICK p : p = at[t]
        OBVIOUS
      <4>2. pc[t] = "s_lock" /\ at'[t] = p /\ pc'[t] \in {"s_size", "s_push"}
            /\ (~scenario.reloads => pc'[t] = "s_push")
        BY <1>1, <3>1, <4>1 DEF LengthStep, ActorTypes
      <4>3. p \in Pages
        BY <4>1, <4>2 DEF LockedInv, LockInv
      <4>4. WritepageBegin(t, p)
        BY <3>1, <4>1
      <4> QED
        BY <2>1, <4>2, <4>3, <4>4, BeginKeepsDiff DEF HandPcs
    <3>2. CASE Goto(t, "s_lock", "s_next") /\ UNCHANGED <<fileVars, pageVars>>
      <4>1. pc[t] = "s_lock" /\ pc'[t] = "s_next" /\ UNCHANGED <<lower, isize, dirty, uptodate, pdata>>
        BY <1>1, <3>2 DEF ActorTypes
      <4> QED
        BY <1>2, <2>1, <4>1 DEF HandPcs
    <3> QED
      BY <2>3, <3>1, <3>2 DEF SyncLock
  <2>4. CASE SyncPush(t)
    <3>1. PICK written \in BOOLEAN : WritepageEnd(t, written)
      BY <2>4 DEF SyncPush
    <3>2. pc[t] = "s_push" /\ pc'[t] \in {"s_next", "s_done"}
      BY <1>1, <2>4 DEF SyncPush, ActorTypes
    <3> QED
      BY <2>1, <3>1, <3>2, EndKeepsDiff
  <2> QED
    BY <1>6, <2>2, <2>3, <2>4 DEF SyncStep
<1> QED
  BY <1>3, <1>4, <1>5, <1>6

\* While a file is resized the pages differ from the lower file only behind the
\* new size, and only until the truncation has come by.
LEMMA CutOnly ==
  ASSUME LockedInv, CutInv, DiffInv, Steady, NEW t \in Tasks, pc[t] \in TruncPcs,
         NEW p \in uptodate, NEW i \in 1..PageSize
  PROVE  \/ pdata[p][i] = Below(p, i)
         \/ /\ p * PageSize + i > arg[t]
            /\ pc[t] = "t_size" \/ (pc[t] = "t_pages" /\ at[t] <= p)
<1>1. "store" \notin scenario.ops
  BY DEF CutInv, Steady, MappedAndResized
<1>2. dirty = {} /\ \A u \in Actors : pc[u] \notin WritebackPcs
  BY <1>1 DEF CutInv
<1>3. \A u \in Tasks \ {t} : pc[u] \notin WritePcs \cup TruncPcs
  BY OnePerMutex DEF LockedInv
<1>4. ~Waiting(p, i)
  BY <1>2 DEF Waiting, InHand, WritebackPcs
<1>5. ~BeingWritten(p, i)
  BY <1>3 DEF BeingWritten, WritePcs, TruncPcs
<1>6. pdata[p][i] = Below(p, i) \/ BeingCut(p, i)
  BY <1>4, <1>5 DEF DiffInv, DiffersAt
<1>7. ASSUME NEW u \in Tasks, pc[u] \in {"t_size", "t_pages"}
      PROVE  u = t
  BY <1>3, <1>7 DEF TruncPcs
<1> QED
  BY <1>6, <1>7 DEF BeingCut

LEMMA TruncKeepsDiff ==
  ASSUME LockedInv, LockedInv', SizeInv, CutInv, DiffInv, NEW t \in Tasks,
         TruncStep(t) \/ \E n \in 0..(NumPages * PageSize) : TruncStart(t, n)
  PROVE  DiffInv'
<1> USE DEF Goto, fileVars, pageVars
<1> t \in Actors
  BY DEF Actors
<1>1. Types /\ ActorTypes /\ isize \in Nat /\ isize' \in Nat /\ Len(lower) \in Nat /\ arg[t] \in Nat
      /\ uptodate \subseteq Pages /\ uptodate \subseteq cached /\ pdata \in [Pages -> [1..PageSize -> Vals]]
  BY SizesAreNat, SizesAreNatNext, CellTypes DEF LockedInv, Types, PageTypes
<1>2. Alone(t)
  BY <1>1, TruncAlone
<1>3. ~scenario.reloads' => \A u \in Actors : pc'[u] \notin {"f_size", "s_size"}
  <2>1. pc'[t] \in TruncPcs \cup {"idle"}
    BY <1>1 DEF TruncStep, TruncStart, TruncLower, TruncLowerFails, TruncSize, TruncPages,
       TruncPagesDone, TruncCopy, TruncReturn, Finish, TruncPcs, ActorTypes
  <2> QED
    BY <1>2, <2>1 DEF DiffInv, Alone, TruncPcs
<1>4. SUFFICES ASSUME Steady, NEW p \in uptodate', NEW i \in 1..PageSize
               PROVE  pdata'[p][i] = Below(p, i)' \/ DiffersAt(p, i)'
  BY <1>2, <1>3, SteadyKept DEF DiffInv, Alone
<1>5. uptodate' \subseteq uptodate
  BY <1>1 DEF TruncStep, TruncStart, TruncLower, TruncLowerFails, TruncSize, TruncPages,
     TruncPagesDone, TruncCopy, TruncReturn, Dropped
<1>6. p \in uptodate /\ p \in Pages /\ p * PageSize + i \in Nat /\ p \in Nat
  BY <1>1, <1>4, <1>5, BelowType, PagesFit
<1>7. pc[t] \in TruncPcs =>
         \/ pdata[p][i] = Below(p, i)
         \/ /\ p * PageSize + i > arg[t]
            /\ pc[t] = "t_size" \/ (pc[t] = "t_pages" /\ at[t] <= p)
  BY <1>4, <1>6, CutOnly
<1>8. CASE \E n \in 0..(NumPages * PageSize) : TruncStart(t, n)
  <2>1. UNCHANGED <<lower, isize, dirty, uptodate, pdata>> /\ pc[t] = "idle"
    BY <1>8 DEF TruncStart
  <2>2. pdata[p][i] = Below(p, i) \/ DiffersAt(p, i)
    BY <1>4, <1>6 DEF DiffInv
  <2>3. \A u \in Actors : pc[u] \in HandPcs =>
          pc'[u] = pc[u] /\ at'[u] = at[u] /\ from'[u] = from[u] /\ to'[u] = to[u] /\ arg'[u] = arg[u]
    BY <1>2, <2>1 DEF Alone, HandPcs
  <2>4. DiffersAt(p, i) => DiffersAt(p, i)'
    BY <1>1, <1>6, <2>1, <2>3, DiffersKept
  <2> QED
    BY <2>1, <2>2, <2>4, SameBelow
<1>9. CASE TruncLowerFails(t) \/ TruncPagesDone(t) \/ TruncCopy(t) \/ TruncReturn(t)
  <2>1. UNCHANGED <<lower, pdata>> /\ pc[t] \in TruncPcs /\ pc[t] # "t_size"
        /\ (pc[t] = "t_pages" => at[t] = NumPages)
    BY <1>9 DEF TruncLowerFails, TruncPagesDone, TruncCopy, TruncReturn, TruncPcs
  <2>2. ~(NumPages <= p)
    BY <1>6, PageBounds DEF Pages
  <2> QED
    BY <1>7, <2>1, <2>2, SameBelow
<1>10. CASE TruncLower(t)
  <2>1. /\ pc[t] = "t_lower" /\ lower' = Resized(arg[t]) /\ pdata' = pdata /\ arg' = arg
        /\ pc'[t] = IF arg[t] # isize THEN "t_size" ELSE "t_copy"
    BY <1>1, <1>10 DEF TruncLower, ActorTypes
  <2>2. isize = Len(lower)
    BY <2>1 DEF SizeInv, SettledPcs
  <2>3. pdata[p][i] = Below(p, i)
    BY <1>7, <2>1 DEF TruncPcs
  <2>4. Below(p, i)' = IF p * PageSize + i <= arg[t] THEN Below(p, i) ELSE 0
    BY <1>1, <1>6, <2>1, ResizeBelow
  <2>5. CASE p * PageSize + i <= arg[t]
    BY <2>1, <2>3, <2>4, <2>5
  <2>6. CASE p * PageSize + i > arg[t] /\ arg[t] # isize
    <3>1. BeingCut(p, i)'
      BY <2>1, <2>6 DEF BeingCut
    <3> QED
      BY <3>1 DEF DiffersAt
  <2>7. CASE p * PageSize + i > arg[t] /\ arg[t] = isize
    <3>1. Below(p, i) = 0
      BY <1>1, <1>6, <2>2, <2>7 DEF Below
    <3>2. Below(p, i)' = 0
      BY <1>1, <1>6, <2>4, <2>7
    <3> QED
      BY <2>1, <2>3, <3>1, <3>2
  <2> QED
    BY <1>1, <1>6, <2>5, <2>6, <2>7
<1>11. CASE TruncSize(t)
  <2>1. /\ pc[t] = "t_size" /\ pc'[t] = "t_pages" /\ UNCHANGED <<lower, pdata, arg>>
        /\ at'[t] = arg[t] \div PageSize
    BY <1>1, <1>11 DEF TruncSize, ActorTypes
  <2>2. CASE p * PageSize + i > arg[t]
    <3>1. arg[t] \div PageSize <= p
      <4>1. \A n \in Nat : /\ n \div PageSize \in Nat /\ (n \div PageSize) * PageSize \in Nat
                           /\ (n \div PageSize) * PageSize <= n
        BY PageBounds
      <4>2. PICK q \in Nat : q = arg[t] \div PageSize
        BY <1>1, <4>1
      <4>3. q * PageSize \in Nat /\ q * PageSize <= arg[t]
        BY <1>1, <4>1, <4>2
      <4>4. p < q => p * PageSize + PageSize <= q * PageSize /\ p * PageSize \in Nat
        BY <1>6, PagesAreApart
      <4>5. i \in Nat /\ i <= PageSize /\ PageSize \in Nat
        BY PageBounds
      <4> QED
        BY <1>1, <1>6, <2>2, <4>2, <4>3, <4>4, <4>5
    <3>2. BeingCut(p, i)'
      BY <2>1, <2>2, <3>1 DEF BeingCut
    <3> QED
      BY <3>2 DEF DiffersAt
  <2>3. CASE ~(p * PageSize + i > arg[t])
    BY <1>7, <2>1, <2>3, SameBelow DEF TruncPcs
  <2> QED
    BY <2>2, <2>3
<1>12. CASE TruncPages(t)
  <2>1. /\ pc[t] = "t_pages" /\ pc' = pc /\ UNCHANGED <<lower, arg>> /\ at'[t] = at[t] + 1
        /\ at[t] \in Nat /\ pc[t] \in TruncPcs
    BY <1>1, <1>12, PageBounds DEF TruncPages, ActorTypes, TruncPcs
  <2>2. Below(p, i)' = Below(p, i)
    BY <2>1, SameBelow
  <2>3. CASE p # at[t]
    <3>1. pdata'[p] = pdata[p]
      <4>1. CASE Dropped({at[t]})
        BY <1>6, <2>3, <4>1 DEF Dropped
      <4> QED
        BY <1>1, <1>6, <1>12, <2>3, <4>1 DEF TruncPages
    <3>2. p * PageSize + i > arg[t] /\ at[t] <= p => BeingCut(p, i)'
      BY <1>6, <2>1, <2>3 DEF BeingCut
    <3> QED
      BY <1>7, <2>1, <2>2, <3>1, <3>2 DEF DiffersAt
  <2>4. CASE p = at[t]
    <3>1. p \in cached /\ p \in uptodate'
      BY <1>1, <1>4, <1>6
    <3>2. pdata' = [pdata EXCEPT ![p] =
                      [j \in 1..PageSize |-> IF p * PageSize + j <= arg[t] THEN @[j] ELSE 0]]
      BY <1>12, <2>4, <3>1 DEF TruncPages, Dropped
    <3>3. pdata'[p][i] = IF p * PageSize + i <= arg[t] THEN pdata[p][i] ELSE 0
      BY <1>1, <1>6, <3>2
    <3>4. Len(lower) = arg[t]
      BY <1>4, <2>1 DEF CutInv, Steady, MappedAndResized
    <3>5. p * PageSize + i > arg[t] => Below(p, i) = 0
      BY <1>1, <1>6, <3>4 DEF Below
    <3> QED
      BY <1>1, <1>6, <1>7, <2>1, <2>2, <3>3, <3>5
  <2> QED
    BY <2>3, <2>4
<1> QED
  BY <1>8, <1>9, <1>10, <1>11, <1>12 DEF TruncStep

LEMMA DropKeepsDiff ==
  ASSUME LockedInv, LockedInv', SizeInv, DiffInv,
         EvictInode \/ (\E p \in Pages : Reclaim(p)) \/ UNCHANGED vars
  PROVE  DiffInv'
<1>1. Alone(Flusher) /\ Flusher \in Actors /\ UNCHANGED <<pc, at, from, to, arg, lower>>
  BY DEF EvictInode, Reclaim, vars, actorVars, fileVars, Alone, Actors
<1>2. isize \in Nat /\ isize' \in Nat /\ uptodate \subseteq Pages /\ uptodate \subseteq cached
  BY SizesAreNat, SizesAreNatNext DEF LockedInv, Types, PageTypes
<1>3. isize <= isize'
  <2>1. CASE EvictInode
    <3>1. imutex = NoOne
      <4>1. imutex \in Tasks \cup {NoOne}
        BY DEF LockedInv, Types, FileTypes
      <4>2. \A t \in Tasks : imutex # t
        BY <2>1 DEF EvictInode, LockedInv, MutexInv, WritePcs, TruncPcs, Actors
      <4> QED
        BY <4>1, <4>2
    <3> QED
      BY <1>2, <2>1, <3>1 DEF EvictInode, SizeInv
  <2>2. CASE UNCHANGED vars \/ \E p \in Pages : Reclaim(p)
    <3>1. isize' = isize
      BY <2>2 DEF Reclaim, vars, fileVars
    <3> QED
      BY <1>2, <3>1
  <2> QED
    BY <2>1, <2>2
<1>4. \A p \in uptodate', i \in 1..PageSize :
          /\ p \in uptodate /\ pdata'[p][i] = pdata[p][i] /\ Below(p, i)' = Below(p, i)
          /\ p \in dirty /\ p * PageSize + i <= isize => p \in dirty'
  <2>1. CASE UNCHANGED vars
    BY <1>1, <2>1, SameBelow DEF vars, pageVars
  <2>2. ASSUME NEW S, Dropped(S)
        PROVE  \A p \in uptodate' : /\ p \in uptodate /\ pdata'[p] = pdata[p]
                                    /\ p \in dirty => p \in dirty'
    BY <1>2, <2>2 DEF Dropped
  <2> QED
    BY <1>1, <2>1, <2>2, SameBelow DEF EvictInode, Reclaim
<1> QED
  BY <1>1, <1>2, <1>3, <1>4, DiffQuiet

LEMMA DiffAlways ==
  ASSUME OffsetsFit
  PROVE  Spec => [](LockedInv /\ SizeInv /\ CutInv /\ CellsInv /\ DiffInv)
<1>1. Init => DiffInv
  BY DEF Init, DiffInv
<1>2. LockedInv /\ LockedInv' /\ SizeInv /\ CutInv /\ DiffInv /\ [Next]_vars => DiffInv'
  BY OffsetsFit, WriteKeepsDiff, ReadKeepsDiff, WritebackKeepsDiff, TruncKeepsDiff, DropKeepsDiff
     DEF Next, Begin, Step
<1> QED
  BY <1>1, <1>2, CellsAlways, OffsetsFit, PTL DEF Spec

\* A page that is up to date, clean and not being worked on holds what the
\* lower file holds (EC-9275; lofs_write_end, lofs_readpage and lofs_writepage,
\* src/lofs/mmap.c), where the lower filesystem takes what it is given, i_size
\* is loaded once and the file is not both mapped and resized.
THEOREM CachesCohere ==
  ASSUME OffsetsFit
  PROVE  Spec => []Coherence
<1>1. LockedInv /\ DiffInv => Coherence
  <2> SUFFICES ASSUME LockedInv, DiffInv, LowerTakesAll, ~scenario.reloads, ~MappedAndResized, ~Truncating,
                      NEW p \in uptodate \ dirty, plock[p] = NoOne
               PROVE  pdata[p] = LowerPage(p)
    BY DEF Coherence
  <2>1. p \in Pages /\ Types /\ pdata[p] \in [1..PageSize -> Vals]
    BY DEF LockedInv, Types, PageTypes
  <2>2. \A u \in Actors : pc[u] \in UsingPcs => at[u] # p
    BY ActorsAreDistinct DEF LockedInv, LockInv, Actors
  <2>3. ASSUME NEW i \in 1..PageSize
        PROVE  pdata[p][i] = LowerPage(p)[i]
    <3>1. ~Waiting(p, i)
      BY <2>2 DEF Waiting, InHand, UsingPcs, WritebackPcs
    <3>2. ~BeingWritten(p, i)
      BY <2>2 DEF BeingWritten, UsingPcs, CopyPcs, Actors
    <3>3. ~BeingCut(p, i)
      BY DEF BeingCut, Truncating, TruncPcs
    <3>4. pdata[p][i] = Below(p, i)
      BY <3>1, <3>2, <3>3 DEF DiffInv, Steady, DiffersAt
    <3> QED
      BY <2>1, <3>4, BelowType
  <2>4. LowerPage(p) = [i \in 1..PageSize |-> LowerPage(p)[i]]
    BY DEF LowerPage
  <2> QED
    BY <2>1, <2>3, <2>4
<1> QED
  BY <1>1, DiffAlways, PTL

-----------------------------------------------------------------------------
(* What fsync owes its caller.                                              *)

TagInv ==
    /\ dirty \subseteq tagged
    /\ \A u \in Actors : pc[u] \in WritebackPcs => at[u] \in tagged
    /\ \A t \in Tasks : pc[t] = "idle" => at[t] = 0

\* Everything is written, i_size is loaded once and nothing is cut off.
Pushing == LowerTakesAll /\ ~scenario.reloads /\ "truncate" \notin scenario.ops

\* A value that is not below yet, on its way there.
Coming(p, i, w) == p \in uptodate /\ p \in tagged /\ Waiting(p, i) /\ w <= pdata[p][i]

Wants(t, p, i, w) == p * PageSize + i <= Len(want[t]) /\ w = want[t][p * PageSize + i]

\* An fsync has not come by a cell yet, or has it in hand.
Ahead(t, p, i) == at[t] <= p /\ (pc[t] = "s_push" /\ at[t] = p => i <= to[t])

SyncInv ==
    Pushing =>
        \A t \in Tasks : pc[t] \in SyncPcs =>
            /\ Len(want[t]) <= isize
            /\ pc[t] = "s_done" => at[t] = NumPages
            /\ \A p \in Pages, i \in 1..PageSize, w \in Nat : Wants(t, p, i, w) =>
                  w <= clock /\ (w <= Below(p, i) \/ (Coming(p, i, w) /\ Ahead(t, p, i)))

LEMMA TagQuiet ==
  ASSUME TagInv, NEW t \in Actors, Alone(t), tagged \subseteq tagged', dirty' \subseteq dirty,
         pc'[t] \in WritebackPcs => at'[t] \in tagged',
         pc'[t] = "idle" => at'[t] = 0
  PROVE  TagInv'
<1>1. \A u \in Tasks : u \in Actors
  BY DEF Actors
<1> QED
  BY <1>1 DEF TagInv, Alone

LEMMA TagKept ==
  ASSUME LockedInv, TagInv, [Next]_vars
  PROVE  TagInv'
<1> USE DEF Goto, fileVars, pageVars
<1>1. Types /\ ActorTypes /\ dirty \subseteq cached /\ cached \subseteq Pages /\ Flusher \in Actors
  BY DEF LockedInv, Types, PageTypes, Actors
<1>2. ASSUME NEW t \in Tasks,
             \/ WriteStep(t)
             \/ \E p \in Pages, i \in 0..(PageSize - 1) : \E n \in 1..(PageSize - i) : WriteStart(t, p, i, n)
      PROVE  TagInv'
  <2>1. t \in Actors /\ Alone(t)
    BY <1>1, <1>2, WriteAlone DEF Actors
  <2>2. UNCHANGED <<tagged, dirty>>
    BY <1>2 DEF WriteStep, WriteStart, WriteGrab, WriteFill, WriteFillFails, WriteCopy, WritePush,
       WriteEnd, WriteReturn
  <2>3. pc'[t] \in WritePcs \/ (pc'[t] = "idle" /\ at'[t] = 0)
    BY <1>1, <1>2, <2>1 DEF WriteStep, WriteStart, WriteGrab, WriteFill, WriteFillFails, WriteCopy,
       WritePush, WriteEnd, WriteReturn, Finish, WritePcs, ActorTypes
  <2> QED
    BY <2>1, <2>2, <2>3, TagQuiet DEF WritePcs, WritebackPcs
<1>3. ASSUME NEW t \in Tasks, ReadFill(t) \/ \E p \in Pages : ReadStart(t, p)
      PROVE  TagInv'
  <2>1. t \in Actors /\ Alone(t)
    BY <1>1, <1>3, ReadAlone DEF Actors
  <2>2. UNCHANGED <<tagged, dirty>>
    BY <1>3 DEF ReadFill, ReadStart
  <2>3. pc'[t] = "r_fill" \/ (pc'[t] = "idle" /\ at'[t] = 0)
    BY <1>1, <1>3, <2>1 DEF ReadFill, ReadStart, Finish, ActorTypes
  <2> QED
    BY <2>1, <2>2, <2>3, TagQuiet DEF WritebackPcs
<1>4. ASSUME NEW t \in Tasks, NEW p \in Pages, NEW i \in 1..PageSize, Store(t, p, i)
      PROVE  TagInv'
  BY <1>4 DEF Store, TagInv, actorVars
<1>5. ASSUME NEW t \in Tasks, SyncStep(t) \/ SyncStart(t)
      PROVE  TagInv'
  <2>1. t \in Actors /\ Alone(t)
    BY <1>1, <1>5, SyncAlone DEF Actors
  <2>2. CASE SyncStart(t) \/ SyncNext(t) \/ SyncReturn(t)
    <3>1. UNCHANGED <<tagged, dirty>>
      BY <2>2 DEF SyncStart, SyncNext, SyncReturn
    <3>2. pc'[t] \in {"s_next", "s_lock", "s_done"} \/ (pc'[t] = "idle" /\ at'[t] = 0)
      BY <1>1, <2>1, <2>2 DEF SyncStart, SyncNext, SyncReturn, Finish, ActorTypes
    <3> QED
      BY <2>1, <3>1, <3>2, TagQuiet DEF WritebackPcs
  <2>3. CASE SyncLock(t)
    <3>1. tagged' = tagged /\ dirty' \subseteq dirty
      BY <2>3 DEF SyncLock, WritepageBegin
    <3>2. (pc'[t] \in {"s_size", "s_push"} /\ at'[t] = at[t] /\ at[t] \in dirty) \/ pc'[t] = "s_next"
      BY <1>1, <2>1, <2>3 DEF SyncLock, WritepageBegin, LengthStep, ActorTypes
    <3> QED
      BY <2>1, <3>1, <3>2, TagQuiet DEF WritebackPcs, TagInv
  <2>4. CASE SyncSize(t)
    <3>1. UNCHANGED <<tagged, dirty, at>> /\ pc[t] = "s_size" /\ pc'[t] = "s_push"
      BY <1>1, <2>1, <2>4 DEF SyncSize, WritepageSize, ActorTypes
    <3> QED
      BY <2>1, <3>1, TagQuiet DEF WritebackPcs, TagInv
  <2>5. CASE SyncPush(t)
    <3>1. UNCHANGED <<tagged, dirty>> /\ pc'[t] \in {"s_next", "s_done"}
      BY <1>1, <2>1, <2>5 DEF SyncPush, WritepageEnd, ActorTypes
    <3> QED
      BY <2>1, <3>1, TagQuiet DEF WritebackPcs
  <2> QED
    BY <1>5, <2>2, <2>3, <2>4, <2>5 DEF SyncStep
<1>6. ASSUME NEW t \in Tasks, TruncStep(t) \/ \E n \in 0..(NumPages * PageSize) : TruncStart(t, n)
      PROVE  TagInv'
  <2>1. t \in Actors /\ Alone(t)
    BY <1>1, <1>6, TruncAlone DEF Actors
  <2>2. pc'[t] \in TruncPcs \/ (pc'[t] = "idle" /\ at'[t] = 0)
    BY <1>1, <1>6, <2>1 DEF TruncStep, TruncStart, TruncLower, TruncLowerFails, TruncSize, TruncPages,
       TruncPagesDone, TruncCopy, TruncReturn, Finish, TruncPcs, ActorTypes
  <2>3. CASE UNCHANGED <<tagged, dirty>>
    BY <2>1, <2>2, <2>3, TagQuiet DEF TruncPcs, WritebackPcs
  <2>4. CASE Dropped({at[t]}) /\ at[t] \in cached /\ plock[at[t]] = NoOne /\ pc' = pc /\ pc[t] = "t_pages"
    <3>1. PICK p : p = at[t] /\ tagged' = tagged \ {p} /\ dirty' = dirty \ {p}
      BY <2>4 DEF Dropped
    <3>2. \A u \in Actors : pc[u] \in WritebackPcs => at[u] # p /\ at'[u] = at[u]
      BY <2>1, <2>4, <3>1, ActorsAreDistinct
         DEF LockedInv, LockInv, UsingPcs, Actors, Alone, WritebackPcs
    <3> QED
      BY <2>1, <2>2, <2>4, <3>1, <3>2 DEF TagInv, Alone, TruncPcs, Actors
  <2> QED
    BY <1>6, <2>3, <2>4 DEF TruncStep, TruncStart, TruncLower, TruncLowerFails, TruncSize, TruncPages,
       TruncPagesDone, TruncCopy, TruncReturn
<1>7. CASE FlushSize \/ FlushEnd \/ \E p \in Pages : FlushBegin(p)
  <2>1. Alone(Flusher)
    BY <1>1, <1>7, FlushAlone
  <2>2. CASE \E p \in Pages : FlushBegin(p)
    <3>1. PICK p \in Pages : FlushBegin(p)
      BY <2>2
    <3>2. tagged' = tagged /\ dirty' \subseteq dirty /\ p \in dirty /\ at'[Flusher] = p
          /\ pc'[Flusher] \in {"f_size", "f_push"}
      BY <1>1, <3>1 DEF FlushBegin, WritepageBegin, LengthStep, ActorTypes
    <3> QED
      BY <1>1, <2>1, <3>2, TagQuiet DEF TagInv
  <2>3. CASE FlushSize
    <3>1. UNCHANGED <<tagged, dirty, at>> /\ pc[Flusher] = "f_size" /\ pc'[Flusher] = "f_push"
      BY <1>1, <2>3 DEF FlushSize, WritepageSize, ActorTypes
    <3> QED
      BY <1>1, <2>1, <3>1, TagQuiet DEF WritebackPcs, TagInv
  <2>4. CASE FlushEnd
    <3>1. UNCHANGED <<tagged, dirty>> /\ pc'[Flusher] = "idle" /\ at'[Flusher] = 0
      BY <1>1, <2>4 DEF FlushEnd, WritepageEnd, Finish, ActorTypes
    <3> QED
      BY <1>1, <2>1, <3>1, TagQuiet DEF WritebackPcs
  <2> QED
    BY <1>7, <2>2, <2>3, <2>4
<1>8. ASSUME NEW p \in Pages, Reclaim(p)
      PROVE  TagInv'
  <2>1. tagged' = tagged \ {p} /\ dirty' = dirty \ {p} /\ UNCHANGED <<pc, at>>
    BY <1>8 DEF Reclaim, Dropped, actorVars
  <2>2. \A u \in Actors : pc[u] \in WritebackPcs => at[u] # p
    BY <1>8, ActorsAreDistinct DEF Reclaim, LockedInv, LockInv, UsingPcs, Actors
  <2> QED
    BY <2>1, <2>2 DEF TagInv
<1>9. CASE EvictInode
  <2>1. tagged' = tagged \ cached /\ dirty' = dirty \ cached /\ UNCHANGED <<pc, at>>
        /\ \A u \in Actors : pc[u] = "idle"
    BY <1>9 DEF EvictInode, Dropped, actorVars
  <2> QED
    BY <1>1, <2>1 DEF TagInv, WritebackPcs
<1>10. CASE UNCHANGED vars
  BY <1>10 DEF TagInv, vars, actorVars
<1> QED
  BY <1>2, <1>3, <1>4, <1>5, <1>6, <1>7, <1>8, <1>9, <1>10 DEF Next, Begin, Step

\* A step after which every cell on its way is still so, or has arrived.
Onward ==
    \A p \in uptodate \cap tagged, i \in 1..PageSize : Waiting(p, i) =>
        \/ p \in uptodate' /\ p \in tagged' /\ Waiting(p, i)'
        \/ Below(p, i)' = pdata[p][i]

LEMMA OnwardQuiet ==
  ASSUME Types, NEW t \in Actors, Alone(t), isize \in Nat, isize' \in Nat, isize <= isize',
         pc[t] \notin {"f_push", "s_push"} \/ UNCHANGED <<pc, at, to>>,
         \A p \in uptodate \cap tagged, i \in 1..PageSize : Waiting(p, i) =>
             /\ p \in uptodate' /\ p \in tagged'
             /\ p \in dirty /\ p * PageSize + i <= isize => p \in dirty' \/ InHand(p, i)'
  PROVE  Onward
<1> SUFFICES ASSUME NEW p \in uptodate \cap tagged, NEW i \in 1..PageSize, Waiting(p, i)
             PROVE  Waiting(p, i)'
  BY DEF Onward
<1>1. p \in Pages /\ p * PageSize + i \in Nat
  BY BelowType DEF Types, PageTypes
<1>2. InHand(p, i) => InHand(p, i)'
  BY DEF InHand, Alone
<1>3. CASE p \in dirty /\ p * PageSize + i <= isize
  BY <1>1, <1>3 DEF Waiting
<1> QED
  BY <1>2, <1>3 DEF Waiting

LEMMA BeginOnward ==
  ASSUME LockedInv, NEW t \in Actors, Alone(t), NEW p \in Pages, pc[t] \notin {"f_push", "s_push"},
         pc'[t] \in {"f_push", "s_push"}, at'[t] = p, WritepageBegin(t, p)
  PROVE  Onward
<1>1. Types /\ isize \in Nat /\ to \in [Actors -> 0..PageSize]
  BY SizesAreNat DEF LockedInv, Types, ActorTypes
<1>2. UNCHANGED <<isize, uptodate, tagged>> /\ dirty' = dirty \ {p} /\ to'[t] = PageLength(p)
  BY <1>1 DEF WritepageBegin, fileVars
<1>3. ASSUME NEW i \in 1..PageSize, p * PageSize + i <= isize
      PROVE  InHand(p, i)'
  <2>1. i <= PageLength(p)
    BY <1>1, <1>3, PageLengthType
  <2> QED
    BY <1>2, <2>1 DEF InHand
<1>4. \A q \in uptodate \cap tagged, i \in 1..PageSize :
          /\ q \in uptodate' /\ q \in tagged'
          /\ q \in dirty /\ q * PageSize + i <= isize => q \in dirty' \/ InHand(q, i)'
  BY <1>2, <1>3
<1>5. isize <= isize' /\ isize' \in Nat
  BY <1>1, <1>2
<1> QED
  BY <1>1, <1>4, <1>5, OnwardQuiet

LEMMA EndOnward ==
  ASSUME OffsetsFit, LockedInv, LowerTakesAll, NEW t \in Actors, Alone(t), pc[t] \in {"f_push", "s_push"},
         NEW written \in BOOLEAN, WritepageEnd(t, written)
  PROVE  /\ Onward /\ written = TRUE
         /\ \A p \in Pages, i \in 1..PageSize : p = at[t] /\ i <= to[t] => Below(p, i)' = pdata[p][i]
<1>1. Types /\ to[t] \in 0..PageSize
  BY DEF LockedInv, Types, ActorTypes
<1>2. PICK p \in Pages : p = at[t] /\ p \in uptodate
  BY DEF LockedInv, Types, PageTypes, LockInv, WritebackPcs
<1>3. PICK o \in Outcomes(to[t]) :
          lower' = WrittenAt(WritepageOffset(p), p, o.cells)
          /\ written = (o.cells = to[t] /\ ~o.error)
  BY <1>2 DEF WritepageEnd
<1>4. o.cells = to[t] /\ ~o.error
  BY <1>1, OutcomesType
<1>5. written = TRUE
  BY <1>3, <1>4
<1>6. lower' = WrittenAt(p * PageSize, p, to[t])
  BY <1>3, <1>4, OffsetIsPlace
<1>7. UNCHANGED <<isize, dirty, tagged>> /\ uptodate' = uptodate
  BY <1>2, <1>5 DEF WritepageEnd
<1>8. \A i \in 1..PageSize : i <= to[t] => Below(p, i)' = pdata[p][i]
  BY <1>1, <1>6, PushBelow
<1>9. ASSUME NEW q \in uptodate \cap tagged, NEW i \in 1..PageSize, Waiting(q, i)
      PROVE  (q \in uptodate' /\ q \in tagged' /\ Waiting(q, i)') \/ Below(q, i)' = pdata[q][i]
  <2>1. CASE q = p /\ i <= to[t]
    BY <1>8, <2>1
  <2>2. CASE ~(q = p /\ i <= to[t])
    <3>1. InHand(q, i) => InHand(q, i)'
      BY <1>2, <2>2 DEF InHand, Alone
    <3>2. Waiting(q, i)'
      BY <1>7, <1>9, <3>1 DEF Waiting
    <3> QED
      BY <1>7, <3>2
  <2> QED
    BY <2>1, <2>2
<1> QED
  BY <1>2, <1>5, <1>8, <1>9 DEF Onward

LEMMA TasksOnward ==
  ASSUME LockedInv, LockedInv', SizeInv, NEW t \in Tasks,
         \/ WriteStep(t) \/ ReadFill(t)
         \/ \E p \in Pages, i \in 0..(PageSize - 1) : \E n \in 1..(PageSize - i) : WriteStart(t, p, i, n)
         \/ \E p \in Pages : ReadStart(t, p) \/ \E i \in 1..PageSize : Store(t, p, i)
  PROVE  Onward
<1> USE DEF Goto, fileVars, pageVars
<1>1. t \in Actors /\ Types /\ ActorTypes /\ isize \in Nat /\ isize' \in Nat
  BY SizesAreNat, SizesAreNatNext DEF LockedInv, Types, Actors
<1>2. Alone(t)
  BY <1>1, WriteAlone, ReadAlone
<1>3. uptodate \subseteq uptodate'
  <2>1. CASE ReadFill(t)
    <3>1. at[t] \notin uptodate
      BY <1>1, <2>1 DEF ReadFill, LockedInv, LockInv, FillPcs
    <3> QED
      BY <2>1, <3>1 DEF ReadFill
  <2> QED
    BY <2>1 DEF WriteStep, WriteStart, WriteGrab, WriteFill, WriteFillFails, WriteCopy, WritePush,
       WriteEnd, WriteReturn, ReadStart, Store
<1>4. tagged \subseteq tagged' /\ dirty \subseteq dirty'
  BY DEF WriteStep, WriteStart, WriteGrab, WriteFill, WriteFillFails, WriteCopy, WritePush,
     WriteEnd, WriteReturn, ReadStart, ReadFill, Store
<1>5. isize <= isize'
  <2>1. CASE WriteEnd(t)
    BY <1>1, <2>1 DEF WriteEnd, SizeInv
  <2>2. CASE ~WriteEnd(t)
    <3>1. isize' = isize
      BY <2>2 DEF WriteStep, WriteStart, WriteGrab, WriteFill, WriteFillFails, WriteCopy, WritePush,
         WriteReturn, ReadStart, ReadFill, Store
    <3> QED
      BY <1>1, <3>1
  <2> QED
    BY <2>1, <2>2
<1>6. pc[t] \notin {"f_push", "s_push"}
  BY DEF WriteStep, WriteStart, WriteGrab, WriteFill, WriteFillFails, WriteCopy, WritePush,
     WriteEnd, WriteReturn, ReadStart, ReadFill, Store
<1> QED
  BY <1>1, <1>2, <1>3, <1>4, <1>5, <1>6, OnwardQuiet

LEMMA SyncsOnward ==
  ASSUME OffsetsFit, LockedInv, DiffInv, LowerTakesAll, ~scenario.reloads,
         \/ FlushSize \/ FlushEnd \/ \E p \in Pages : FlushBegin(p)
         \/ \E t \in Tasks : SyncStep(t) \/ SyncStart(t)
  PROVE  Onward
<1> USE DEF Goto, fileVars, pageVars
<1>1. Types /\ ActorTypes /\ isize \in Nat /\ Flusher \in Actors /\ \A t \in Tasks : t \in Actors
  BY SizesAreNat DEF LockedInv, Types, Actors
<1>2. ~FlushSize /\ \A t \in Tasks : ~SyncSize(t)
  BY <1>1 DEF FlushSize, SyncSize, DiffInv
<1>3. CASE FlushEnd
  <2>1. PICK written \in BOOLEAN : WritepageEnd(Flusher, written)
    BY <1>3 DEF FlushEnd
  <2>2. Alone(Flusher) /\ pc[Flusher] = "f_push"
    BY <1>1, <1>3, FlushAlone DEF FlushEnd
  <2> QED
    BY <1>1, <2>1, <2>2, EndOnward
<1>4. ASSUME NEW p \in Pages, FlushBegin(p)
      PROVE  Onward
  <2>1. pc[Flusher] = "idle" /\ pc'[Flusher] = "f_push" /\ at'[Flusher] = p /\ WritepageBegin(Flusher, p)
    BY <1>1, <1>4 DEF FlushBegin, LengthStep, ActorTypes
  <2>2. Alone(Flusher)
    BY <1>1, <1>4, FlushAlone
  <2> QED
    BY <1>1, <2>1, <2>2, BeginOnward
<1>5. ASSUME NEW t \in Tasks, SyncStep(t) \/ SyncStart(t)
      PROVE  Onward
  <2>1. Alone(t)
    BY <1>1, <1>5, SyncAlone
  <2>2. CASE /\ UNCHANGED <<fileVars, pageVars>> /\ pc[t] # "s_push"
             /\ SyncNext(t) \/ SyncStart(t) \/ SyncReturn(t) \/ SyncLock(t)
    <3>1. pc[t] \notin {"f_push", "s_push"} /\ UNCHANGED <<uptodate, tagged, dirty>>
      BY <2>2 DEF SyncNext, SyncStart, SyncReturn, SyncLock
    <3>2. isize <= isize' /\ isize' \in Nat
      BY <1>1, <2>2
    <3> QED
      BY <1>1, <2>1, <3>1, <3>2, OnwardQuiet
  <2>3. CASE SyncPush(t)
    <3>1. PICK written \in BOOLEAN : WritepageEnd(t, written)
      BY <2>3 DEF SyncPush
    <3> QED
      BY <1>1, <2>1, <2>3, <3>1, EndOnward DEF SyncPush
  <2>4. CASE /\ Goto(t, "s_lock", LengthStep(at[t], "s_size", "s_push"))
             /\ WritepageBegin(t, at[t])
             /\ UNCHANGED <<at, ok>>
    <3>1. PICK p : p = at[t]
      OBVIOUS
    <3>2. pc[t] = "s_lock" /\ at'[t] = p /\ pc'[t] = "s_push"
      BY <1>1, <2>4, <3>1 DEF LengthStep, ActorTypes
    <3>3. p \in Pages
      BY <1>1, <3>1, <3>2 DEF LockedInv, LockInv
    <3>4. WritepageBegin(t, p)
      BY <2>4, <3>1
    <3> QED
      BY <1>1, <2>1, <3>2, <3>3, <3>4, BeginOnward
  <2> QED
    BY <1>2, <1>5, <2>2, <2>3, <2>4 DEF SyncStep, SyncNext, SyncStart, SyncReturn, SyncLock
<1> QED
  BY <1>2, <1>3, <1>4, <1>5

LEMMA DropsOnward ==
  ASSUME LockedInv, (\E p \in Pages : Reclaim(p)) \/ UNCHANGED vars
  PROVE  Onward
<1>1. Alone(Flusher) /\ Flusher \in Actors /\ UNCHANGED <<pc, at, to, isize>>
  BY DEF Reclaim, vars, actorVars, fileVars, Alone, Actors
<1>2. Types /\ isize \in Nat /\ isize' \in Nat /\ isize <= isize'
  BY <1>1, SizesAreNat DEF LockedInv
<1>3. CASE UNCHANGED vars
  BY <1>1, <1>2, <1>3, OnwardQuiet DEF vars, pageVars
<1>4. ASSUME NEW p \in Pages, Reclaim(p)
      PROVE  Onward
  <2>1. uptodate' = uptodate \ {p} /\ tagged' = tagged \ {p} /\ dirty' = dirty /\ p \notin dirty
    BY <1>4 DEF Reclaim, Dropped
  <2>2. \A i \in 1..PageSize : ~Waiting(p, i)
    BY <1>4, <2>1, ActorsAreDistinct DEF Reclaim, Waiting, InHand, LockedInv, LockInv, UsingPcs,
       WritebackPcs, Actors
  <2>3. \A q \in uptodate \cap tagged, i \in 1..PageSize : Waiting(q, i) =>
             /\ q \in uptodate' /\ q \in tagged'
             /\ q \in dirty /\ q * PageSize + i <= isize => q \in dirty' \/ InHand(q, i)'
    BY <2>1, <2>2
  <2> QED
    BY <1>1, <1>2, <2>3, OnwardQuiet
<1> QED
  BY <1>3, <1>4

LEMMA StepsGoOnward ==
  ASSUME OffsetsFit, LockedInv, LockedInv', SizeInv, CutInv, DiffInv, Pushing, [Next]_vars
  PROVE  Onward \/ EvictInode
<1>1. \A t \in Tasks : ~TruncStep(t) /\ \A n \in 0..(NumPages * PageSize) : ~TruncStart(t, n)
  BY DEF Pushing, CutInv, TruncStep, TruncStart, TruncLower, TruncLowerFails, TruncSize, TruncPages,
     TruncPagesDone, TruncCopy, TruncReturn, Goto, TruncPcs
<1> QED
  BY <1>1, OffsetsFit, TasksOnward, SyncsOnward, DropsOnward DEF Next, Begin, Step, Pushing

LEMMA SizeGrows ==
  ASSUME LockedInv, SizeInv, CutInv, Pushing, [Next]_vars
  PROVE  isize <= isize' \/ EvictInode
<1> USE DEF fileVars
<1>1. isize \in Nat /\ Len(lower) \in Nat
  BY SizesAreNat DEF LockedInv
<1>2. \A t \in Tasks : ~TruncStep(t) /\ \A n \in 0..(NumPages * PageSize) : ~TruncStart(t, n)
  BY DEF Pushing, CutInv, TruncStep, TruncStart, TruncLower, TruncLowerFails, TruncSize, TruncPages,
     TruncPagesDone, TruncCopy, TruncReturn, Goto, TruncPcs
<1>3. ASSUME NEW t \in Tasks, WriteEnd(t)
      PROVE  isize <= isize'
  BY <1>1, <1>3 DEF WriteEnd, SizeInv, Goto
<1>4. ASSUME NEW t \in Tasks,
             \/ WriteStep(t) \/ ReadFill(t)
             \/ \E p \in Pages, i \in 0..(PageSize - 1) : \E n \in 1..(PageSize - i) : WriteStart(t, p, i, n)
             \/ \E p \in Pages : ReadStart(t, p) \/ \E i \in 1..PageSize : Store(t, p, i)
      PROVE  isize' = isize \/ WriteEnd(t)
  BY <1>4 DEF WriteStep, WriteStart, WriteGrab, WriteFill, WriteFillFails, WriteCopy, WritePush,
     WriteReturn, ReadStart, ReadFill, Store
<1>5. ASSUME NEW t \in Tasks, SyncStep(t) \/ SyncStart(t)
      PROVE  isize' = isize
  BY <1>5 DEF SyncStep, SyncStart, SyncNext, SyncLock, SyncSize, SyncPush, SyncReturn,
     WritepageBegin, WritepageSize, WritepageEnd
<1>6. ASSUME \/ FlushSize \/ FlushEnd \/ (\E p \in Pages : FlushBegin(p) \/ Reclaim(p)) \/ UNCHANGED vars
      PROVE  isize' = isize
  BY <1>6 DEF FlushSize, FlushEnd, FlushBegin, Reclaim, WritepageBegin, WritepageSize, WritepageEnd, vars
<1> QED
  BY <1>1, <1>2, <1>3, <1>4, <1>5, <1>6 DEF Next, Begin, Step

\* What was wanted and is below stays there, or is outdone; what is on its way
\* stays so until it arrives.
LEMMA WantedKept ==
  ASSUME OffsetsFit, LockedInv, LockedInv', SizeInv, CutInv, CellsInv, DiffInv, Pushing, [Next]_vars,
         ~EvictInode, NEW p \in Pages, NEW i \in 1..PageSize, NEW w \in Nat, w <= clock
  PROVE  /\ w <= clock'
         /\ w <= Below(p, i) => w <= Below(p, i)'
         /\ Coming(p, i, w) => w <= Below(p, i)' \/ Coming(p, i, w)'
<1>1. Tame
  <2>1. \A t \in Tasks : ~TruncLower(t) /\ ~TruncPages(t)
    BY DEF Pushing, CutInv, TruncLower, TruncPages, Goto, TruncPcs
  <2> QED
    BY <2>1, StepsAreTame
<1>2. clock \in Nat /\ clock' \in Nat /\ Below(p, i) \in Nat /\ pdata[p][i] \in Nat
      /\ Below(p, i)' \in Nat /\ pdata'[p][i] \in Nat
  BY CellTypes, CellTypesNext DEF LockedInv
<1>3. p \in uptodate => Below(p, i) <= pdata[p][i]
  BY DEF CellsInv, NewerInv, Pushing, MappedAndResized
<1>4. w <= clock'
  BY <1>1, <1>2 DEF Tame
<1>5. w <= Below(p, i) => w <= Below(p, i)'
  <2>1. Below(p, i)' = Below(p, i) \/ (p \in uptodate /\ Below(p, i)' = pdata[p][i])
    BY <1>1 DEF Tame
  <2> QED
    BY <1>2, <1>3, <2>1
<1>6. ASSUME Coming(p, i, w)
      PROVE  w <= Below(p, i)' \/ Coming(p, i, w)'
  <2>1. \/ p \in uptodate' /\ p \in tagged' /\ Waiting(p, i)'
        \/ Below(p, i)' = pdata[p][i]
    BY <1>6, OffsetsFit, StepsGoOnward DEF Onward, Coming
  <2>2. CASE Below(p, i)' = pdata[p][i]
    BY <1>6, <2>2 DEF Coming
  <2>3. CASE p \in uptodate' /\ p \in tagged' /\ Waiting(p, i)'
    <3>1. pdata'[p][i] = pdata[p][i] \/ pdata'[p][i] = clock'
      BY <1>1, <1>6, <2>3 DEF Tame, Coming
    <3> QED
      BY <1>2, <1>4, <1>6, <2>3, <3>1 DEF Coming
  <2> QED
    BY <2>1, <2>2, <2>3
<1> QED
  BY <1>4, <1>5, <1>6

\* Only its own steps take an fsync further.
LEMMA OnlySyncs ==
  ASSUME LockedInv, [Next]_vars, NEW t \in Tasks, pc'[t] \in SyncPcs
  PROVE  \/ pc'[t] = pc[t] /\ at'[t] = at[t] /\ to'[t] = to[t] /\ want'[t] = want[t]
         \/ SyncStep(t) \/ SyncStart(t)
<1> USE DEF Goto
<1>1. ActorTypes /\ t \in Actors /\ t # Flusher /\ \A u \in Tasks : u \in Actors
  BY ActorsAreDistinct DEF LockedInv, Types, Actors
<1>2. ASSUME NEW u \in Actors, Alone(u), u # t
      PROVE  pc'[t] = pc[t] /\ at'[t] = at[t] /\ to'[t] = to[t] /\ want'[t] = want[t]
  BY <1>1, <1>2 DEF Alone
<1>3. ASSUME NEW u \in Tasks,
             \/ WriteStep(u)
             \/ \E p \in Pages, i \in 0..(PageSize - 1) : \E n \in 1..(PageSize - i) : WriteStart(u, p, i, n)
      PROVE  Alone(u) /\ u # t
  <2>1. Alone(u)
    BY <1>1, <1>3, WriteAlone
  <2>2. pc'[u] \in WritePcs \cup {"idle"}
    BY <1>1, <1>3 DEF WriteStep, WriteStart, WriteGrab, WriteFill, WriteFillFails, WriteCopy,
       WritePush, WriteEnd, WriteReturn, Finish, WritePcs, ActorTypes
  <2> QED
    BY <2>1, <2>2 DEF WritePcs, SyncPcs
<1>4. ASSUME NEW u \in Tasks, ReadFill(u) \/ \E p \in Pages : ReadStart(u, p)
      PROVE  Alone(u) /\ u # t
  <2>1. Alone(u)
    BY <1>1, <1>4, ReadAlone
  <2>2. pc'[u] \in {"r_fill", "idle"}
    BY <1>1, <1>4 DEF ReadFill, ReadStart, Finish, ActorTypes
  <2> QED
    BY <2>1, <2>2 DEF SyncPcs
<1>5. ASSUME \/ \E u \in Tasks, p \in Pages, i \in 1..PageSize : Store(u, p, i)
             \/ EvictInode \/ (\E p \in Pages : Reclaim(p)) \/ UNCHANGED vars
      PROVE  pc' = pc /\ at' = at /\ to' = to /\ want' = want
  BY <1>5 DEF Store, EvictInode, Reclaim, vars, actorVars
<1>6. ASSUME NEW u \in Tasks, TruncStep(u) \/ \E n \in 0..(NumPages * PageSize) : TruncStart(u, n)
      PROVE  Alone(u) /\ u # t
  <2>1. Alone(u)
    BY <1>1, <1>6, TruncAlone
  <2>2. pc'[u] \in TruncPcs \cup {"idle"}
    BY <1>1, <1>6 DEF TruncStep, TruncStart, TruncLower, TruncLowerFails, TruncSize, TruncPages,
       TruncPagesDone, TruncCopy, TruncReturn, Finish, TruncPcs, ActorTypes
  <2> QED
    BY <2>1, <2>2 DEF TruncPcs, SyncPcs
<1>7. ASSUME NEW u \in Tasks, SyncStep(u) \/ SyncStart(u)
      PROVE  Alone(u)
  BY <1>1, <1>7, SyncAlone
<1>8. FlushSize \/ FlushEnd \/ (\E p \in Pages : FlushBegin(p)) => Alone(Flusher) /\ Flusher \in Actors
  BY <1>1, FlushAlone
<1> QED
  BY <1>1, <1>2, <1>3, <1>4, <1>5, <1>6, <1>7, <1>8 DEF Next, Begin, Step

LEMMA ScenarioKept ==
  ASSUME LockedInv, [Next]_vars
  PROVE  scenario' = scenario
<1>1. ActorTypes /\ \A t \in Tasks : t \in Actors
  BY DEF LockedInv, Types, Actors
<1>2. \A t \in Tasks : Begin(t) \/ Step(t) => scenario' = scenario
  BY <1>1, WriteAlone, ReadAlone, SyncAlone, TruncAlone DEF Begin, Step, Alone
<1>3. FlushSize \/ FlushEnd \/ (\E p \in Pages : FlushBegin(p)) => scenario' = scenario
  BY <1>1, FlushAlone DEF Alone
<1> QED
  BY <1>2, <1>3 DEF Next, Reclaim, EvictInode, vars

\* What an fsync that begins wants: all that was written and has returned.
LEMMA ViewIsOwed ==
  ASSUME LockedInv, CutInv, CellsInv, DiffInv, TagInv, Pushing,
         NEW p \in Pages, NEW i \in 1..PageSize, p * PageSize + i <= isize
  PROVE  LET w == View[p * PageSize + i]
         IN  w <= clock /\ (w <= Below(p, i) \/ Coming(p, i, w))
<1>1. Types /\ isize \in Nat /\ p \in Nat /\ i \in Nat /\ 1 <= i /\ i <= PageSize
      /\ p * PageSize \in Nat /\ p * PageSize + i \in 1..isize
  BY SizesAreNat, BelowType, PagesFit, PageBounds DEF LockedInv
<1>2. clock \in Nat /\ Below(p, i) \in Nat /\ pdata[p][i] \in Nat /\ Below(p, i) <= clock
      /\ (p \in uptodate => pdata[p][i] <= clock)
  BY <1>1, CellTypes DEF CellsInv, ClockInv
<1>3. PICK c \in Nat \ {0} : c = p * PageSize + i /\ c \in 1..isize
  BY <1>1
<1>4. (c - 1) \div PageSize = p
  <2>1. PICK q \in Nat : q = (c - 1) \div PageSize
    BY <1>1, CellsHavePages
  <2>2. q * PageSize \in Nat /\ c - q * PageSize \in 1..PageSize
    <3>1. c - ((c - 1) \div PageSize) * PageSize \in 1..PageSize
      BY <1>1, CellsHavePages
    <3> QED
      BY <2>1, <3>1, PageBounds
  <2>3. p < q => p * PageSize + PageSize <= q * PageSize
    BY <1>1, <2>1, PagesAreApart
  <2>4. q < p => q * PageSize + PageSize <= p * PageSize
    BY <1>1, <2>1, PagesAreApart
  <2>5. PageSize \in Nat
    BY PageBounds
  <2>6. p = q
    BY <1>1, <1>3, <2>1, <2>2, <2>3, <2>4, <2>5
  <2> QED
    BY <2>1, <2>6
<1> DEFINE seen == IF p \in uptodate THEN pdata[p][i] ELSE Below(p, i)
<1>5. View[p * PageSize + i] = IF \E t \in Tasks : pc[t] \in WritePcs /\ arg[t] = seen THEN 0 ELSE seen
  <2>1. c - p * PageSize = i
    BY <1>1, <1>3
  <2>2. c \in 1..isize
    BY <1>3
  <2>3. Below(p, i) = IF c <= Len(lower) THEN lower[c] ELSE 0
    BY <1>3 DEF Below
  <2> QED
    BY <1>3, <1>4, <2>1, <2>2, <2>3 DEF View
<1>6. CASE View[p * PageSize + i] = 0
  BY <1>2, <1>6
<1>7. CASE View[p * PageSize + i] # 0 /\ p \notin uptodate
  BY <1>2, <1>5, <1>7
<1>8. CASE View[p * PageSize + i] # 0 /\ p \in uptodate
  <2>1. View[p * PageSize + i] = pdata[p][i] /\ ~\E t \in Tasks : pc[t] \in WritePcs /\ arg[t] = pdata[p][i]
    BY <1>5, <1>8
  <2>2. ~BeingWritten(p, i)
    BY <2>1 DEF BeingWritten, WritePcs
  <2>3. pdata[p][i] = Below(p, i) \/ Waiting(p, i) \/ BeingCut(p, i)
    BY <1>8, <2>2 DEF DiffInv, DiffersAt, Steady, Pushing, MappedAndResized
  <2>4. p \in tagged \/ ~Waiting(p, i)
    BY DEF TagInv, Waiting, InHand, WritebackPcs
  <2>5. ~BeingCut(p, i)
    BY DEF BeingCut, CutInv, Pushing, TruncPcs
  <2> QED
    BY <1>2, <1>8, <2>1, <2>3, <2>4, <2>5 DEF Coming
<1> QED
  BY <1>6, <1>7, <1>8

LEMMA SyncKept ==
  ASSUME OffsetsFit, LockedInv, LockedInv', SizeInv, CutInv, CellsInv, DiffInv, TagInv, SyncInv,
         [Next]_vars
  PROVE  SyncInv'
<1> USE DEF Goto, fileVars, pageVars
<1> SUFFICES ASSUME Pushing, NEW t \in Tasks, pc'[t] \in SyncPcs
             PROVE  /\ Len(want'[t]) <= isize'
                    /\ pc'[t] = "s_done" => at'[t] = NumPages
                    /\ \A p \in Pages, i \in 1..PageSize, w \in Nat : Wants(t, p, i, w)' =>
                          w <= clock' /\ (w <= Below(p, i)' \/ (Coming(p, i, w)' /\ Ahead(t, p, i)'))
  <2>1. Pushing' <=> Pushing
    BY ScenarioKept DEF Pushing, LowerTakesAll
  <2> QED
    BY <2>1 DEF SyncInv
<1>1. Types /\ ActorTypes /\ t \in Actors /\ isize \in Nat /\ isize' \in Nat /\ clock \in Nat
      /\ at[t] \in 0..NumPages /\ to \in [Actors -> 0..PageSize]
  BY SizesAreNat, SizesAreNatNext, CellTypes DEF LockedInv, Types, ActorTypes, Actors
<1>2. ~EvictInode /\ isize <= isize'
  <2>1. ~EvictInode
    BY <1>1 DEF EvictInode, actorVars, SyncPcs
  <2> QED
    BY <2>1, SizeGrows
<1>3. ASSUME pc[t] \in SyncPcs, NEW p \in Pages, NEW i \in 1..PageSize, NEW w \in Nat, Wants(t, p, i, w)
      PROVE  /\ w <= clock' /\ p * PageSize + i <= isize
             /\ w <= Below(p, i)' \/ (Coming(p, i, w) /\ Coming(p, i, w)' /\ Ahead(t, p, i))
  <2>1. Len(want[t]) <= isize /\ w <= clock /\ (w <= Below(p, i) \/ (Coming(p, i, w) /\ Ahead(t, p, i)))
    BY <1>3 DEF SyncInv
  <2>2. p * PageSize + i <= isize
    <3>1. p * PageSize + i \in Nat /\ Len(want[t]) \in Nat
      BY <1>1, BelowType DEF ActorTypes
    <3> QED
      BY <1>1, <1>3, <2>1, <3>1 DEF Wants
  <2>3. /\ w <= clock'
        /\ w <= Below(p, i) => w <= Below(p, i)'
        /\ Coming(p, i, w) => w <= Below(p, i)' \/ Coming(p, i, w)'
    BY <1>2, <2>1, WantedKept, OffsetsFit
  <2> QED
    BY <2>1, <2>2, <2>3
<1>4. ASSUME pc[t] \in SyncPcs, want'[t] = want[t],
             pc'[t] = "s_done" => at'[t] = NumPages,
             \A p \in Pages, i \in 1..PageSize, w \in Nat :
                 p * PageSize + i <= isize /\ Coming(p, i, w) /\ Coming(p, i, w)' /\ Ahead(t, p, i) =>
                     w <= Below(p, i)' \/ Ahead(t, p, i)'
      PROVE  /\ Len(want'[t]) <= isize'
             /\ pc'[t] = "s_done" => at'[t] = NumPages
             /\ \A p \in Pages, i \in 1..PageSize, w \in Nat : Wants(t, p, i, w)' =>
                   w <= clock' /\ (w <= Below(p, i)' \/ (Coming(p, i, w)' /\ Ahead(t, p, i)'))
  <2>1. Len(want[t]) <= isize /\ Len(want[t]) \in Nat
    BY <1>1, <1>4 DEF SyncInv, ActorTypes
  <2>2. Len(want'[t]) <= isize'
    BY <1>1, <1>2, <1>4, <2>1
  <2>3. ASSUME NEW p \in Pages, NEW i \in 1..PageSize, NEW w \in Nat, Wants(t, p, i, w)'
        PROVE  w <= clock' /\ (w <= Below(p, i)' \/ (Coming(p, i, w)' /\ Ahead(t, p, i)'))
    <3>1. Wants(t, p, i, w)
      BY <1>4, <2>3 DEF Wants
    <3> QED
      BY <1>3, <1>4, <3>1
  <2> QED
    BY <1>4, <2>2, <2>3
<1>5. CASE pc'[t] = pc[t] /\ at'[t] = at[t] /\ to'[t] = to[t] /\ want'[t] = want[t]
  BY <1>4, <1>5 DEF Ahead, SyncInv
<1>6. CASE SyncStart(t)
  <2>1. pc'[t] = "s_next" /\ want'[t] = View /\ at'[t] = 0 /\ isize' = isize
    BY <1>1, <1>6 DEF SyncStart, ActorTypes, TagInv
  <2>2. Len(View) = isize
    BY <1>1, ViewType
  <2>3. ASSUME NEW p \in Pages, NEW i \in 1..PageSize, NEW w \in Nat, Wants(t, p, i, w)'
        PROVE  w <= clock' /\ (w <= Below(p, i)' \/ (Coming(p, i, w)' /\ Ahead(t, p, i)'))
    <3>1. w = View[p * PageSize + i] /\ p * PageSize + i <= isize
      BY <2>1, <2>2, <2>3 DEF Wants
    <3>2. w <= clock /\ (w <= Below(p, i) \/ Coming(p, i, w))
      BY <3>1, ViewIsOwed
    <3>3. w <= clock' /\ (w <= Below(p, i)' \/ Coming(p, i, w)')
      BY <1>2, <3>2, WantedKept, OffsetsFit
    <3>4. Ahead(t, p, i)'
      BY <2>1, PagesFit DEF Ahead
    <3> QED
      BY <3>3, <3>4
  <2>4. Len(want'[t]) <= isize'
    BY <1>1, <2>1, <2>2
  <2> QED
    BY <2>1, <2>3, <2>4
<1>7. CASE SyncNext(t)
  <2>1. pc[t] = "s_next" /\ pc'[t] \in {"s_next", "s_lock", "s_done"} /\ want'[t] = want[t]
        /\ (pc'[t] = "s_done" => at'[t] = NumPages)
        /\ (at'[t] = at[t] \/ (at'[t] = at[t] + 1 /\ at[t] \notin tagged))
    BY <1>1, <1>7 DEF SyncNext, ActorTypes
  <2>2. ASSUME NEW p \in Pages, NEW i \in 1..PageSize, NEW w \in Nat, Coming(p, i, w), Ahead(t, p, i)
        PROVE  Ahead(t, p, i)'
    <3>1. p \in Nat /\ at[t] \in Nat /\ at[t] <= p /\ p \in tagged
      BY <1>1, <2>2, PagesFit, PageBounds DEF Ahead, Coming
    <3>2. at'[t] <= p
      BY <2>1, <3>1
    <3> QED
      BY <2>1, <3>2 DEF Ahead
  <2> QED
    BY <1>4, <2>1, <2>2 DEF SyncPcs
<1>8. CASE /\ Goto(t, "s_lock", LengthStep(at[t], "s_size", "s_push"))
           /\ WritepageBegin(t, at[t])
           /\ UNCHANGED <<at, ok>>
  <2>1. PICK q : q = at[t]
    OBVIOUS
  <2>2. pc[t] = "s_lock" /\ at' = at /\ pc'[t] = "s_push" /\ want' = want /\ to'[t] = PageLength(q)
    BY <1>1, <1>8, <2>1 DEF LengthStep, ActorTypes, Pushing, WritepageBegin
  <2>3. ASSUME NEW p \in Pages, NEW i \in 1..PageSize, p * PageSize + i <= isize, Ahead(t, p, i)
        PROVE  Ahead(t, p, i)'
    <3>1. p = q => i <= PageLength(q)
      BY <1>1, <2>3, PageLengthType
    <3> QED
      BY <2>1, <2>2, <2>3, <3>1 DEF Ahead
  <2> QED
    BY <1>4, <2>2, <2>3 DEF SyncPcs
<1>9. CASE /\ Goto(t, "s_lock", "s_next")
           /\ at[t] \notin dirty
           /\ plock[at[t]] = NoOne
           /\ at' = [at EXCEPT ![t] = @ + 1]
           /\ UNCHANGED <<fileVars, pageVars, clock, scenario, from, to, arg, ok, want>>
  <2>1. pc[t] = "s_lock" /\ pc'[t] = "s_next" /\ want' = want /\ at'[t] = at[t] + 1
    BY <1>1, <1>9 DEF ActorTypes
  <2>2. \A i \in 1..PageSize : ~Waiting(at[t], i)
    BY <1>9, ActorsAreDistinct DEF Waiting, InHand, LockedInv, LockInv, UsingPcs, WritebackPcs, Actors
  <2>3. ASSUME NEW p \in Pages, NEW i \in 1..PageSize, NEW w \in Nat, Coming(p, i, w), Ahead(t, p, i)
        PROVE  Ahead(t, p, i)'
    <3>1. p # at[t]
      BY <2>2, <2>3 DEF Coming
    <3>2. at'[t] <= p
      BY <1>1, <2>1, <2>3, <3>1, PagesFit, PageBounds DEF Ahead
    <3> QED
      BY <2>1, <3>2 DEF Ahead
  <2> QED
    BY <1>4, <2>1, <2>3 DEF SyncPcs
<1>10. CASE SyncPush(t)
  <2>1. PICK written \in BOOLEAN : WritepageEnd(t, written) /\ pc'[t] = IF written THEN "s_next" ELSE "s_done"
    BY <1>1, <1>10 DEF SyncPush, ActorTypes
  <2>2. pc[t] = "s_push" /\ want' = want /\ at'[t] = at[t] + 1
    BY <1>1, <1>10 DEF SyncPush, ActorTypes
  <2>3. /\ written = TRUE
        /\ \A p \in Pages, i \in 1..PageSize : p = at[t] /\ i <= to[t] => Below(p, i)' = pdata[p][i]
    <3>1. Alone(t)
      BY <1>1, <1>10, SyncAlone DEF SyncStep
    <3> QED
      BY <1>1, <2>1, <2>2, <3>1, EndOnward, OffsetsFit DEF Pushing
  <2>4. ASSUME NEW p \in Pages, NEW i \in 1..PageSize, NEW w \in Nat, Coming(p, i, w), Ahead(t, p, i)
        PROVE  w <= Below(p, i)' \/ Ahead(t, p, i)'
    <3>1. CASE p = at[t]
      BY <2>2, <2>3, <2>4, <3>1 DEF Ahead, Coming
    <3>2. CASE p # at[t]
      <4>1. at'[t] <= p
        BY <1>1, <2>2, <2>4, <3>2, PagesFit, PageBounds DEF Ahead
      <4> QED
        BY <2>1, <2>3, <4>1 DEF Ahead
    <3> QED
      BY <3>1, <3>2
  <2> QED
    BY <1>4, <2>1, <2>2, <2>3, <2>4 DEF SyncPcs
<1>11. ~SyncSize(t) /\ ~SyncReturn(t)
  <2>1. ~SyncSize(t)
    BY <1>1 DEF SyncSize, DiffInv, Pushing
  <2>2. SyncReturn(t) => pc'[t] = "idle"
    BY <1>1 DEF SyncReturn, Finish, ActorTypes
  <2> QED
    BY <2>1, <2>2 DEF SyncPcs
<1>12. SyncLock(t) \/ SyncNext(t) \/ SyncPush(t) \/ SyncStart(t)
       \/ (pc'[t] = pc[t] /\ at'[t] = at[t] /\ to'[t] = to[t] /\ want'[t] = want[t])
  BY <1>11, OnlySyncs DEF SyncStep
<1>13. CASE SyncLock(t)
  BY <1>8, <1>9, <1>13 DEF SyncLock
<1> QED
  BY <1>5, <1>6, <1>7, <1>10, <1>12, <1>13

LEMMA SyncAlways ==
  ASSUME OffsetsFit
  PROVE  Spec => [](LockedInv /\ SizeInv /\ CutInv /\ TagInv /\ SyncInv)
<1>1. Init => TagInv /\ SyncInv
  BY DEF Init, TagInv, SyncInv, WritebackPcs, SyncPcs, Actors
<1>2. LockedInv /\ LockedInv' /\ SizeInv /\ CutInv /\ CellsInv /\ DiffInv /\ TagInv /\ SyncInv
      /\ [Next]_vars => TagInv' /\ SyncInv'
  BY TagKept, SyncKept, OffsetsFit
<1> QED
  BY <1>1, <1>2, DiffAlways, OffsetsFit, PTL DEF Spec

\* When fsync has succeeded, everything that was in the file when it was called
\* is in the lower file, also what the flusher or another fsync had in hand
\* (lofs_fsync, src/lofs/file.c, and lofs_writepage, src/lofs/mmap.c), where
\* the lower filesystem takes what it is given, i_size is loaded once and
\* nothing resizes the file.
THEOREM FsyncsPush ==
  ASSUME OffsetsFit
  PROVE  Spec => []FsyncPushes
<1>1. LockedInv /\ SizeInv /\ CutInv /\ SyncInv => FsyncPushes
  <2> SUFFICES ASSUME LockedInv, SizeInv, CutInv, SyncInv, Pushing, NEW t \in Tasks, pc[t] = "s_done",
                      NEW c \in DOMAIN want[t]
               PROVE  c <= Len(lower) /\ lower[c] >= want[t][c]
    BY DEF FsyncPushes, Pushing
  <2>1. Types /\ want[t] \in Seq(Vals) /\ isize \in Nat /\ Len(lower) \in Nat /\ isize <= NumPages * PageSize
    BY SizesAreNat DEF LockedInv, Types, ActorTypes, FileTypes, Actors
  <2>2. Len(want[t]) <= isize /\ at[t] = NumPages
    BY DEF SyncInv, SyncPcs
  <2>3. c \in Nat \ {0} /\ c <= Len(want[t]) /\ c <= isize
    BY <2>1, <2>2
  <2>4. isize <= Len(lower)
    <3>1. CASE imutex = NoOne
      BY <2>1, <3>1 DEF SizeInv
    <3>2. CASE imutex \in Tasks
      <4>1. PICK u \in Tasks : u = imutex
        BY <3>2
      <4>2. pc[u] \in WritePcs
        BY <4>1 DEF LockedInv, MutexInv, CutInv, Pushing
      <4> QED
        BY <2>1, <4>2 DEF SizeInv, SettledPcs
    <3> QED
      BY <3>1, <3>2 DEF LockedInv, Types, FileTypes
  <2>5. PICK p \in Pages, i \in 1..PageSize : c = p * PageSize + i
    <3>1. c <= NumPages * PageSize
      BY <2>1, <2>3, PageBounds
    <3> QED
      BY <2>3, <3>1, CellIsInPage
  <2>6. ~Ahead(t, p, i)
    BY <2>2, PageBounds DEF Ahead, Pages
  <2>7. want[t][c] <= Below(p, i)
    <3>1. want[t][c] \in Nat
      BY <2>1, PageBounds DEF Vals
    <3>2. Wants(t, p, i, want[t][c])
      BY <2>3, <2>5 DEF Wants
    <3> QED
      BY <2>6, <3>1, <3>2 DEF SyncInv, SyncPcs
  <2>8. c <= Len(lower)
    BY <2>1, <2>3, <2>4
  <2>9. Below(p, i) = lower[c] /\ lower[c] \in Nat /\ want[t][c] \in Nat
    <3>1. Below(p, i) = lower[c]
      BY <2>5, <2>8 DEF Below
    <3> QED
      BY SMTT(30), <2>1, <2>3, <2>5, <3>1, BelowType, PageBounds DEF Vals
  <2> QED
    BY <2>7, <2>8, <2>9
<1> QED
  BY <1>1, SyncAlways, PTL
=============================================================================
