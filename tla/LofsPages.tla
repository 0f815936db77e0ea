----------------------------- MODULE LofsPages -----------------------------
(***************************************************************************)
(* The page cache of one lofs inode and the lower file beneath it:          *)
(* write(2) through lofs_write_begin and lofs_write_end, reads and page      *)
(* faults through lofs_readpage, writeback through lofs_writepage (mmap.c),  *)
(* all by way of read_write.c; fsync (file.c: lofs_fsync), a change of size  *)
(* (inode.c: lofs_setattr) and eviction (super.c: lofs_clear_inode).         *)
(*                                                                           *)
(* A page holds PageSize cells.  The value of a cell is the number of the    *)
(* store that wrote it, 0 for a byte nobody wrote, so that newer data is     *)
(* greater.  Steps are cut at the page lock, at the inode's i_mutex, at each *)
(* transfer to or from the lower file and at each store to i_size.           *)
(***************************************************************************)
EXTENDS Integers, Sequences, FiniteSets

CONSTANTS
    Tasks,          \* tasks that use the file
    Flusher,        \* the kernel's writeback thread
    NoOne,          \* no holder
    NumPages,       \* bound: pages of the file
    PageSize,       \* cells in a page
    MaxVal,         \* bound: stores in a behaviour
    OffsetSpan,     \* cells an unsigned long can address: writepage's offset
    Scenarios       \* the scenarios a behaviour may choose from

OpNames == {"write", "read", "store", "fsync", "truncate"}
FaultNames == {"read_error", "write_error", "short_write", "setattr_error"}

\* What the tasks do, how the lower filesystem fails, and how many stores there
\* are; reloads: the compiler reads i_size anew for writepage's length.
ScenarioSet ==
    [ops : SUBSET OpNames, faults : SUBSET FaultNames, reloads : BOOLEAN, stores : 0..MaxVal]

ASSUME PageBounds ==
    /\ NumPages \in Nat \ {0}
    /\ PageSize \in Nat \ {0}
    /\ MaxVal \in Nat
    /\ OffsetSpan \in Nat \ {0}
ASSUME ScenariosAreKnown == Scenarios \subseteq ScenarioSet
ASSUME TasksAreFinite == IsFiniteSet(Tasks)
ASSUME ActorsAreDistinct == Flusher \notin Tasks /\ NoOne \notin Tasks \cup {Flusher}

VARIABLES
    scenario,       \* chosen at the start and kept
    lower,          \* the lower file: a sequence of cells
    isize,          \* i_size of the lofs inode
    imutex,         \* holder of the lofs inode's i_mutex
    cached,         \* the pages in the inode's mapping
    uptodate,       \* those with PG_uptodate
    dirty,          \* those with PG_dirty
    tagged,         \* those with the dirty tag, which nothing clears
    plock,          \* plock[p]: holder of the page's lock
    pdata,          \* pdata[p]: its cells
    clock,          \* stores so far
    pc,             \* where each actor is
    at,             \* at[t]: page it works on
    from,           \* from[t]: first cell of a write in its page
    to,             \* to[t]: cells of the page to transfer
    arg,            \* arg[t]: value to write, or size to set
    ok,             \* ok[t]: nothing has failed so far
    want            \* want[t]: the file as it was when t began its fsync

fileVars == <<lower, isize, imutex>>
pageVars == <<cached, uptodate, dirty, tagged, plock, pdata>>
actorVars == <<pc, at, from, to, arg, ok, want>>
vars == <<scenario, fileVars, pageVars, clock, actorVars>>

Actors == Tasks \cup {Flusher}
Pages == 0..(NumPages - 1)
Vals == 0..MaxVal
WritePcs == {"w_grab", "w_fill", "w_copy", "w_push", "w_end", "w_done"}
TruncPcs == {"t_lower", "t_size", "t_pages", "t_copy", "t_done"}
SyncPcs == {"s_next", "s_lock", "s_size", "s_push", "s_done"}
Pcs == {"idle", "r_fill", "f_size", "f_push"} \cup WritePcs \cup TruncPcs \cup SyncPcs

Zeros == [i \in 1..PageSize |-> 0]

TypeOK ==
    /\ scenario \in Scenarios
    /\ lower \in Seq(Vals)
    /\ isize \in 0..(NumPages * PageSize)
    /\ imutex \in Tasks \cup {NoOne}
    /\ dirty \subseteq cached
    /\ uptodate \subseteq cached
    /\ tagged \subseteq cached
    /\ cached \subseteq Pages
    /\ plock \in [Pages -> Actors \cup {NoOne}]
    /\ pdata \in [Pages -> [1..PageSize -> Vals]]
    /\ clock \in Vals
    /\ pc \in [Actors -> Pcs]
    /\ at \in [Actors -> 0..NumPages]
    /\ from \in [Actors -> 0..PageSize]
    /\ to \in [Actors -> 0..PageSize]
    /\ arg \in [Actors -> Nat]
    /\ ok \in [Actors -> BOOLEAN]
    /\ want \in [Actors -> Seq(Vals)]

Init ==
    /\ scenario \in Scenarios
    /\ lower = <<>>
    /\ isize = 0
    /\ imutex = NoOne
    /\ cached = {} /\ uptodate = {} /\ dirty = {} /\ tagged = {}
    /\ plock = [p \in Pages |-> NoOne]
    /\ pdata = [p \in Pages |-> Zeros]
    /\ clock = 0
    /\ pc = [t \in Actors |-> "idle"]
    /\ at = [t \in Actors |-> 0]
    /\ from = [t \in Actors |-> 0]
    /\ to = [t \in Actors |-> 0]
    /\ arg = [t \in Actors |-> 0]
    /\ ok = [t \in Actors |-> TRUE]
    /\ want = [t \in Actors |-> <<>>]

-----------------------------------------------------------------------------
(* The lower file.                                                          *)

Resized(n) == [i \in 1..n |-> IF i <= Len(lower) THEN lower[i] ELSE 0]

\* The file after the first n cells of page p were written at cell offset.
WrittenAt(offset, p, n) ==
    LET end == IF n = 0 \/ offset + n < Len(lower) THEN Len(lower) ELSE offset + n
    IN  [i \in 1..end |->
            IF i > offset /\ i <= offset + n THEN pdata[p][i - offset]
            ELSE IF i <= Len(lower) THEN lower[i] ELSE 0]

\* vfs_write of n cells of page p: what may be written, and whether the
\* number of cells written is n, less, or an error.
Outcomes(n) ==
    {[cells |-> n, error |-> FALSE]}
      \cup (IF "short_write" \in scenario.faults
            THEN {[cells |-> k, error |-> FALSE] : k \in 1..(n - 1)} ELSE {})
      \cup (IF "write_error" \in scenario.faults /\ n > 0
            THEN {[cells |-> 0, error |-> TRUE]} ELSE {})

\* lofs_read_lower_page: what is there, and zeros for the rest of the page.
LowerPage(p) ==
    [i \in 1..PageSize |->
        IF p * PageSize + i <= Len(lower) THEN lower[p * PageSize + i] ELSE 0]

-----------------------------------------------------------------------------
(* Actors, locks and pages.                                                 *)

Goto(t, here, there) == pc[t] = here /\ pc' = [pc EXCEPT ![t] = there]
LockInode(t) == imutex = NoOne /\ imutex' = t
UnlockInode == imutex' = NoOne
LockPage(t, p) == plock[p] = NoOne /\ plock' = [plock EXCEPT ![p] = t]
UnlockPage(p) == plock' = [plock EXCEPT ![p] = NoOne]
NewPage(p) ==
    /\ cached' = cached \cup {p}
    /\ pdata' = IF p \in cached THEN pdata ELSE [pdata EXCEPT ![p] = Zeros]

\* A page leaves the mapping.
Dropped(S) ==
    /\ cached' = cached \ S
    /\ uptodate' = uptodate \ S
    /\ dirty' = dirty \ S
    /\ tagged' = tagged \ S
    /\ pdata' = [p \in Pages |-> IF p \in S THEN Zeros ELSE pdata[p]]

\* Bound: stores so far, with those of the writes in progress.
StoresLeft ==
    clock + Cardinality({t \in Tasks : pc[t] \in {"w_grab", "w_fill", "w_copy"}}) < scenario.stores

\* An actor is done: its local variables are gone.
Finish(t) ==
    /\ pc' = [pc EXCEPT ![t] = "idle"]
    /\ at' = [at EXCEPT ![t] = 0]
    /\ from' = [from EXCEPT ![t] = 0]
    /\ to' = [to EXCEPT ![t] = 0]
    /\ arg' = [arg EXCEPT ![t] = 0]
    /\ ok' = [ok EXCEPT ![t] = TRUE]
    /\ want' = [want EXCEPT ![t] = <<>>]

-----------------------------------------------------------------------------
(* write(2) of n cells from cell i of page p on, within the page: one round  *)
(* of the kernel's generic_file_aio_write.                                   *)

WriteStart(t, p, i, n) ==
    /\ "write" \in scenario.ops /\ StoresLeft
    /\ Goto(t, "idle", "w_grab")
    /\ LockInode(t)
    /\ at' = [at EXCEPT ![t] = p]
    /\ from' = [from EXCEPT ![t] = i]
    /\ to' = [to EXCEPT ![t] = i + n]
    /\ UNCHANGED <<lower, isize, pageVars, clock, scenario, arg, ok, want>>

\* lofs_write_begin: grab_cache_page_write_begin locks the page, ...
WriteGrab(t) ==
    /\ Goto(t, "w_grab", IF at[t] \in uptodate THEN "w_copy" ELSE "w_fill")
    /\ LockPage(t, at[t])
    /\ NewPage(at[t])
    /\ UNCHANGED <<fileVars, uptodate, dirty, tagged, clock, scenario, at, from, to, arg, ok, want>>

\* Mutant: the page is taken for up to date without being filled.
WriteFillSkipped(t) ==
    /\ Goto(t, "w_fill", "w_copy")
    /\ uptodate' = uptodate \cup {at[t]}
    /\ UNCHANGED <<fileVars, cached, dirty, tagged, plock, pdata, clock, scenario, at, from, to, arg, ok, want>>

\* ... which is filled from the lower file unless it is up to date already.
WriteFill(t) ==
    /\ Goto(t, "w_fill", "w_copy")
    /\ pdata' = [pdata EXCEPT ![at[t]] = LowerPage(at[t])]
    /\ uptodate' = uptodate \cup {at[t]}
    /\ UNCHANGED <<fileVars, cached, dirty, tagged, plock, clock, scenario, at, from, to, arg, ok, want>>

\* If that fails the write ends there, and the page stays locked.
WriteFillFails(t) ==
    /\ "read_error" \in scenario.faults
    /\ Goto(t, "w_fill", "w_done")
    /\ ok' = [ok EXCEPT ![t] = FALSE]
    /\ UNCHANGED <<fileVars, pageVars, clock, scenario, at, from, to, arg, want>>

\* The caller copies the user's data, or only part of it if that faults.
WriteCopy(t) ==
    /\ Goto(t, "w_copy", "w_push")
    /\ clock' = clock + 1
    /\ arg' = [arg EXCEPT ![t] = clock + 1]
    /\ \E end \in from[t]..to[t] :
          /\ to' = [to EXCEPT ![t] = end]
          /\ pdata' = [pdata EXCEPT ![at[t]] =
                          [i \in 1..PageSize |->
                              IF i > from[t] /\ i <= end THEN clock + 1 ELSE @[i]]]
    /\ UNCHANGED <<fileVars, cached, uptodate, dirty, tagged, plock, at, from, ok, want, scenario>>

\* Mutant: as many cells as were copied are written, from the page's start.
WritePushCopied(t) ==
    /\ Goto(t, "w_push", "w_end")
    /\ \E o \in Outcomes(to[t] - from[t]) :
          /\ lower' = WrittenAt(at[t] * PageSize, at[t], o.cells)
          /\ ok' = [ok EXCEPT ![t] = ~o.error]
    /\ UNCHANGED <<isize, imutex, pageVars, clock, scenario, at, from, to, arg, want>>

\* lofs_write_end: the page is written from its start up to the last new cell;
\* lofs_write_lower_page_segment makes success of any positive count.
WritePush(t) ==
    /\ Goto(t, "w_push", "w_end")
    /\ \E o \in Outcomes(to[t]) :
          /\ lower' = WrittenAt(at[t] * PageSize, at[t], o.cells)
          /\ ok' = [ok EXCEPT ![t] = ~o.error]
    /\ UNCHANGED <<isize, imutex, pageVars, clock, scenario, at, from, to, arg, want>>

\* Mutant: i_size grows by what was to be written, not to the lower size.
WriteEndOwnSize(t) ==
    /\ Goto(t, "w_end", "w_done")
    /\ isize' = IF ok[t] /\ at[t] * PageSize + to[t] > isize
                THEN at[t] * PageSize + to[t] ELSE isize
    /\ UnlockPage(at[t])
    /\ UNCHANGED <<lower, imutex, cached, uptodate, dirty, tagged, pdata, clock, scenario,
                   at, from, to, arg, ok, want>>

\* Mutant: the page is not unlocked.
WriteEndLocked(t) ==
    /\ Goto(t, "w_end", "w_done")
    /\ isize' = IF ok[t] THEN Len(lower) ELSE isize
    /\ UNCHANGED <<lower, imutex, pageVars, clock, scenario, at, from, to, arg, ok, want>>

WriteEnd(t) ==
    /\ Goto(t, "w_end", "w_done")
    /\ isize' = IF ok[t] THEN Len(lower) ELSE isize
    /\ UnlockPage(at[t])
    /\ UNCHANGED <<lower, imutex, cached, uptodate, dirty, tagged, pdata, clock, scenario,
                   at, from, to, arg, ok, want>>

WriteReturn(t) ==
    /\ pc[t] = "w_done"
    /\ Finish(t)
    /\ UnlockInode
    /\ UNCHANGED <<lower, isize, pageVars, clock, scenario>>

WriteStep(t) ==
    \/ WriteGrab(t) \/ WriteFill(t) \/ WriteFillFails(t) \/ WriteCopy(t)
    \/ WritePush(t) \/ WriteEnd(t) \/ WriteReturn(t)

-----------------------------------------------------------------------------
(* A read or a page fault; lofs_readpage if the page is not up to date.      *)

ReadStart(t, p) ==
    /\ "read" \in scenario.ops
    /\ p * PageSize < isize
    /\ p \notin uptodate
    /\ Goto(t, "idle", "r_fill")
    /\ LockPage(t, p)
    /\ NewPage(p)
    /\ at' = [at EXCEPT ![t] = p]
    /\ UNCHANGED <<fileVars, uptodate, dirty, tagged, clock, scenario, from, to, arg, ok, want>>

ReadFill(t) ==
    /\ pc[t] = "r_fill"
    /\ \/ /\ pdata' = [pdata EXCEPT ![at[t]] = LowerPage(at[t])]
          /\ uptodate' = uptodate \cup {at[t]}
       \/ /\ "read_error" \in scenario.faults
          /\ uptodate' = uptodate \ {at[t]}
          /\ pdata' = pdata
    /\ UnlockPage(at[t])
    /\ Finish(t)
    /\ UNCHANGED <<fileVars, cached, dirty, tagged, clock, scenario>>

\* A store through a shared mapping, into a page that was faulted in.
Store(t, p, i) ==
    /\ "store" \in scenario.ops /\ StoresLeft
    /\ pc[t] = "idle"
    /\ p \in uptodate
    /\ p * PageSize + i <= isize
    /\ pdata' = [pdata EXCEPT ![p][i] = clock + 1]
    /\ clock' = clock + 1
    /\ dirty' = dirty \cup {p}
    /\ tagged' = tagged \cup {p}
    /\ UNCHANGED <<fileVars, cached, uptodate, plock, actorVars, scenario>>

-----------------------------------------------------------------------------
(* lofs_writepage, called by the flusher or by fsync with the page locked    *)
(* and its dirty flag just cleared.                                          *)

\* How much of page p lies within i_size.
PageLength(p) ==
    IF (p + 1) * PageSize <= isize THEN PageSize
    ELSE IF p * PageSize < isize THEN isize - p * PageSize ELSE 0

\* The offset is computed in an unsigned long, and widened afterwards.
WritepageOffset(p) == (p * PageSize) % OffsetSpan

\* A page is taken for writing, and i_size is read.  For the page that i_size
\* points into the code reads it once more, with no lock in between: a build
\* may load it again or not.
LengthStep(p, again, then) == IF scenario.reloads /\ p = isize \div PageSize THEN again ELSE then

WritepageBegin(t, p) ==
    /\ p \in dirty
    /\ LockPage(t, p)
    /\ dirty' = dirty \ {p}
    /\ to' = [to EXCEPT ![t] = PageLength(p)]
    /\ UNCHANGED <<fileVars, cached, uptodate, tagged, pdata, clock, scenario, from, arg, want>>

WritepageSize(t) ==
    /\ to' = [to EXCEPT ![t] = isize % PageSize]
    /\ UNCHANGED <<fileVars, pageVars, clock, scenario, at, from, arg, ok, want>>

\* The transfer; a page of which less was written than asked for stays locked.
WritepageEnd(t, written) ==
    LET p == at[t]
    IN  /\ \E o \in Outcomes(to[t]) :
              /\ lower' = WrittenAt(WritepageOffset(p), p, o.cells)
              /\ written = (o.cells = to[t] /\ ~o.error)
        /\ IF written
           THEN /\ uptodate' = IF p * PageSize <= isize THEN uptodate \cup {p} ELSE uptodate
                /\ UnlockPage(p)
           ELSE /\ uptodate' = uptodate \ {p}
                /\ plock' = plock
        /\ UNCHANGED <<isize, imutex, cached, dirty, tagged, pdata, clock, scenario>>

FlushBegin(p) ==
    /\ Goto(Flusher, "idle", LengthStep(p, "f_size", "f_push"))
    /\ WritepageBegin(Flusher, p)
    /\ at' = [at EXCEPT ![Flusher] = p]
    /\ ok' = ok

FlushSize == Goto(Flusher, "f_size", "f_push") /\ WritepageSize(Flusher)

FlushEnd ==
    /\ pc[Flusher] = "f_push"
    /\ \E written \in BOOLEAN : WritepageEnd(Flusher, written)
    /\ Finish(Flusher)

-----------------------------------------------------------------------------
(* lofs_fsync: filemap_write_and_wait, then the lower file's own fsync,      *)
(* which changes nothing here.                                               *)

\* The file as its user sees it, without what a write that has not returned
\* yet has put there.
View ==
    [i \in 1..isize |->
        LET p == (i - 1) \div PageSize
            seen == IF p \in uptodate THEN pdata[p][i - p * PageSize]
                    ELSE IF i <= Len(lower) THEN lower[i] ELSE 0
        IN  IF \E t \in Tasks : pc[t] \in WritePcs /\ arg[t] = seen THEN 0 ELSE seen]

SyncStart(t) ==
    /\ "fsync" \in scenario.ops
    /\ Goto(t, "idle", "s_next")
    /\ want' = [want EXCEPT ![t] = View]
    /\ UNCHANGED <<fileVars, pageVars, clock, scenario, at, from, to, arg, ok>>

\* Only pages with the dirty tag are looked at.
SyncNext(t) ==
    /\ \/ /\ at[t] = NumPages
          /\ Goto(t, "s_next", "s_done")
          /\ at' = at
       \/ /\ at[t] \in Pages \ tagged
          /\ Goto(t, "s_next", "s_next")
          /\ at' = [at EXCEPT ![t] = @ + 1]
       \/ /\ at[t] \in tagged
          /\ Goto(t, "s_next", "s_lock")
          /\ at' = at
    /\ UNCHANGED <<fileVars, pageVars, clock, scenario, from, to, arg, ok, want>>

\* Mutant: fsync passes over a page that somebody else has locked.
SyncLockNoWait(t) ==
    \/ /\ Goto(t, "s_lock", LengthStep(at[t], "s_size", "s_push"))
       /\ WritepageBegin(t, at[t])
       /\ UNCHANGED <<at, ok>>
    \/ /\ Goto(t, "s_lock", "s_next")
       /\ at[t] \notin dirty \/ plock[at[t]] # NoOne
       /\ at' = [at EXCEPT ![t] = @ + 1]
       /\ UNCHANGED <<fileVars, pageVars, clock, scenario, from, to, arg, ok, want>>

SyncLock(t) ==
    \/ /\ Goto(t, "s_lock", LengthStep(at[t], "s_size", "s_push"))
       /\ WritepageBegin(t, at[t])
       /\ UNCHANGED <<at, ok>>
    \/ /\ Goto(t, "s_lock", "s_next")
       /\ at[t] \notin dirty
       /\ plock[at[t]] = NoOne
       /\ at' = [at EXCEPT ![t] = @ + 1]
       /\ UNCHANGED <<fileVars, pageVars, clock, scenario, from, to, arg, ok, want>>

SyncSize(t) == Goto(t, "s_size", "s_push") /\ WritepageSize(t)

SyncPush(t) ==
    /\ pc[t] = "s_push"
    /\ \E written \in BOOLEAN :
          /\ WritepageEnd(t, written)
          /\ ok' = [ok EXCEPT ![t] = written]
          /\ pc' = [pc EXCEPT ![t] = IF written THEN "s_next" ELSE "s_done"]
    /\ at' = [at EXCEPT ![t] = @ + 1]
    /\ to' = [to EXCEPT ![t] = 0]
    /\ UNCHANGED <<from, arg, want>>

SyncReturn(t) ==
    /\ pc[t] = "s_done"
    /\ Finish(t)
    /\ UNCHANGED <<fileVars, pageVars, clock, scenario>>

SyncStep(t) == SyncNext(t) \/ SyncLock(t) \/ SyncSize(t) \/ SyncPush(t) \/ SyncReturn(t)

-----------------------------------------------------------------------------
(* lofs_setattr with ATTR_SIZE; the VFS holds the inode's i_mutex.           *)

TruncStart(t, n) ==
    /\ "truncate" \in scenario.ops
    /\ Goto(t, "idle", "t_lower")
    /\ LockInode(t)
    /\ arg' = [arg EXCEPT ![t] = n]
    /\ UNCHANGED <<lower, isize, pageVars, clock, scenario, at, from, to, ok, want>>

\* Mutant: the pages are not truncated (no vmtruncate).
TruncLowerOnly(t) ==
    /\ Goto(t, "t_lower", "t_copy")
    /\ lower' = Resized(arg[t])
    /\ UNCHANGED <<isize, imutex, pageVars, clock, scenario, at, from, to, arg, ok, want>>

\* Mutant: the lower file is not truncated.
TruncUpperOnly(t) ==
    /\ Goto(t, "t_lower", IF arg[t] # isize THEN "t_size" ELSE "t_copy")
    /\ UNCHANGED <<fileVars, pageVars, clock, scenario, at, from, to, arg, ok, want>>

\* notify_change on the lower dentry, under the lower inode's i_mutex.
TruncLower(t) ==
    /\ Goto(t, "t_lower", IF arg[t] # isize THEN "t_size" ELSE "t_copy")
    /\ lower' = Resized(arg[t])
    /\ UNCHANGED <<isize, imutex, pageVars, clock, scenario, at, from, to, arg, ok, want>>

TruncLowerFails(t) ==
    /\ "setattr_error" \in scenario.faults
    /\ Goto(t, "t_lower", "t_copy")
    /\ ok' = [ok EXCEPT ![t] = FALSE]
    /\ UNCHANGED <<fileVars, pageVars, clock, scenario, at, from, to, arg, want>>

\* vmtruncate: i_size first, ...
TruncSize(t) ==
    /\ Goto(t, "t_size", "t_pages")
    /\ isize' = arg[t]
    /\ at' = [at EXCEPT ![t] = arg[t] \div PageSize]
    /\ UNCHANGED <<lower, imutex, pageVars, clock, scenario, from, to, arg, ok, want>>

\* ... then the pages, each with its lock: the first one is cleared from the
\* new size on, those that lie behind it leave the mapping.
TruncPages(t) ==
    LET p == at[t]
    IN  /\ p < NumPages
        /\ pc[t] = "t_pages" /\ pc' = pc
        /\ at' = [at EXCEPT ![t] = p + 1]
        /\ \/ p \notin cached /\ UNCHANGED <<cached, uptodate, dirty, tagged, pdata>>
           \/ /\ p \in cached /\ plock[p] = NoOne
              /\ p * PageSize >= arg[t]
              /\ Dropped({p})
           \/ /\ p \in cached /\ plock[p] = NoOne
              /\ p * PageSize < arg[t]
              /\ pdata' = [pdata EXCEPT ![p] =
                              [i \in 1..PageSize |->
                                  IF p * PageSize + i <= arg[t] THEN @[i] ELSE 0]]
              /\ UNCHANGED <<cached, uptodate, dirty, tagged>>
    /\ UNCHANGED <<fileVars, plock, clock, scenario, from, to, arg, ok, want>>

TruncPagesDone(t) ==
    /\ at[t] = NumPages
    /\ Goto(t, "t_pages", "t_copy")
    /\ UNCHANGED <<fileVars, pageVars, clock, scenario, at, from, to, arg, ok, want>>

TruncCopy(t) ==
    /\ Goto(t, "t_copy", "t_done")
    /\ isize' = Len(lower)
    /\ UNCHANGED <<lower, imutex, pageVars, clock, scenario, at, from, to, arg, ok, want>>

TruncReturn(t) ==
    /\ pc[t] = "t_done"
    /\ Finish(t)
    /\ UnlockInode
    /\ UNCHANGED <<lower, isize, pageVars, clock, scenario>>

TruncStep(t) ==
    \/ TruncLower(t) \/ TruncLowerFails(t) \/ TruncSize(t) \/ TruncPages(t)
    \/ TruncPagesDone(t) \/ TruncCopy(t) \/ TruncReturn(t)

-----------------------------------------------------------------------------
\* Memory reclaim takes a clean page that nobody holds.
Reclaim(p) ==
    /\ p \in cached \ dirty
    /\ plock[p] = NoOne
    /\ Dropped({p})
    /\ UNCHANGED <<fileVars, plock, clock, scenario, actorVars>>

\* The last reference to the inode goes: generic_delete_inode never keeps it,
\* lofs_clear_inode truncates its pages, dirty or not.  The next lookup of
\* the file makes a new inode, with the size of the lower one.
EvictInode ==
    /\ cached # {}
    /\ \A t \in Actors : pc[t] = "idle"
    /\ \A p \in Pages : plock[p] = NoOne
    /\ Dropped(cached)
    /\ isize' = Len(lower)
    /\ UNCHANGED <<lower, imutex, plock, clock, scenario, actorVars>>

-----------------------------------------------------------------------------
Begin(t) ==
    \/ \E p \in Pages, i \in 0..(PageSize - 1) :
          \E n \in 1..(PageSize - i) : WriteStart(t, p, i, n)
    \/ \E p \in Pages : ReadStart(t, p)
    \/ \E p \in Pages, i \in 1..PageSize : Store(t, p, i)
    \/ SyncStart(t)
    \/ \E n \in 0..(NumPages * PageSize) : TruncStart(t, n)

Step(t) == WriteStep(t) \/ ReadFill(t) \/ SyncStep(t) \/ TruncStep(t)

Next ==
    \/ \E t \in Tasks : Begin(t) \/ Step(t)
    \/ \E p \in Pages : FlushBegin(p) \/ Reclaim(p)
    \/ FlushSize
    \/ FlushEnd
    \/ EvictInode

Spec == Init /\ [][Next]_vars

\* A task that has begun an operation goes on with it, and so does the
\* flusher; the page lock wakes its waiters in turn.
FairSpec ==
    /\ Spec
    /\ \A t \in Tasks :
          /\ WF_vars(Step(t))
          /\ SF_vars(WriteGrab(t))
          /\ SF_vars(SyncLock(t))
          /\ SF_vars(TruncPages(t))
    /\ WF_vars(FlushSize)
    /\ WF_vars(FlushEnd)

-----------------------------------------------------------------------------
(* Properties                                                               *)

Truncating == \E t \in Tasks : pc[t] \in TruncPcs

\* The lower file takes all of what it is given.
LowerTakesAll == scenario.faults \cap {"write_error", "short_write"} = {}

\* A file that is resized while it is mapped may be written back with a length
\* from before (ChangeSticks, below), and its pages keep nothing of that.
MappedAndResized == {"store", "truncate"} \subseteq scenario.ops

\* A page that is up to date, clean and not being worked on holds what the
\* lower file holds, and zeros behind its end (EC-9275): a mapping and a read
\* through lofs see what a reader of the lower file sees.  A build that loads
\* i_size twice may clean a page while the file grows and write nothing of it.
Coherence ==
    LowerTakesAll /\ ~scenario.reloads /\ ~MappedAndResized /\ ~Truncating =>
        \A p \in uptodate \ dirty : plock[p] = NoOne => pdata[p] = LowerPage(p)

\* Between operations both inodes have the same size, whatever fails.
SizesAgree ==
    /\ TypeOK
    /\ imutex = NoOne => isize = Len(lower)

\* "Returns zero on success": when a write has succeeded, what it was given is
\* in the lower file, at its place, unless something newer is.
WriteReportsTruth ==
    "short_write" \notin scenario.faults =>
        \A t \in Tasks :
            pc[t] = "w_done" /\ ok[t] =>
                \A i \in (from[t] + 1)..to[t] :
                    LET c == at[t] * PageSize + i IN c <= Len(lower) /\ lower[c] >= arg[t]

\* When a change of size has succeeded the file has that size, above and below.
ChangeSticks == \A t \in Tasks : pc[t] = "t_done" /\ ok[t] => isize = arg[t] /\ Len(lower) = arg[t]

\* So it is for a file that nobody has mapped.
TruncateSticks == "store" \notin scenario.ops => ChangeSticks

\* What has reached the lower file is never overwritten by something older,
\* whatever fails: a page carries no stale bytes with it when it is written.
NothingGoesBack ==
    [][ \/ Truncating \/ MappedAndResized
        \/ /\ Len(lower') >= Len(lower)
           /\ \A c \in DOMAIN lower : lower'[c] >= lower[c] ]_vars

\* "Make sure the LOFS pages are flushed out to the lower filesystem": when
\* fsync has succeeded, everything that was in the file when it was called is
\* in the lower file, also what the flusher had taken in hand by then.
FsyncPushes ==
    LowerTakesAll /\ ~scenario.reloads /\ "truncate" \notin scenario.ops =>
        \A t \in Tasks :
            pc[t] = "s_done" /\ ok[t] =>
                \A c \in DOMAIN want[t] : c <= Len(lower) /\ lower[c] >= want[t][c]

\* Every operation on the file returns, while the lower filesystem answers.
OperationsReturn == \A t \in Tasks : (pc[t] # "idle") ~> (pc[t] = "idle")
=============================================================================
