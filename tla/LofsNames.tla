----------------------------- MODULE LofsNames -----------------------------
(***************************************************************************)
(* Names: lookup, revalidation and the operations that change directories   *)
(* (inode.c: lofs_lookup, lofs_lookup_and_interpose_lower, lofs_create,      *)
(* lofs_mkdir, lofs_mknod, lofs_symlink, lofs_link, lofs_unlink, lofs_rmdir, *)
(* lofs_rename; dentry.c), over a lower filesystem that others use too.      *)
(*                                                                           *)
(* Both dentry caches are modelled: a lofs dentry keeps a pointer to a lower *)
(* dentry and a reference to it.  Names are entries <<directory, name>>; the *)
(* directories themselves stay where they are.  Steps are cut at the i_mutex *)
(* of upper and lower directories and between reads of a lower dentry that   *)
(* no lock protects.                                                         *)
(***************************************************************************)
EXTENDS Integers, Sequences, FiniteSets

CONSTANTS
    Tasks,          \* tasks that use lofs
    NoOne,          \* no holder
    Dirs,           \* directories, each a lofs and a lower one
    Names,          \* names in a directory
    NumInodes,      \* bound: lower files
    NumUpper,       \* bound: lofs dentries
    NumLower,       \* bound: lower dentries
    Scenarios       \* the scenarios a behaviour may choose from

Entries == Dirs \X Names
Uppers == 1..NumUpper
Lowers == 1..NumLower
Inodes == 1..NumInodes
NoInode == 0            \* a null struct inode *
NoDentry == 0           \* a null struct dentry *
Maybe == Inodes \cup {NoInode}

\* "mkdir" stands for lofs_mknod too, which does the same.
OpNames == {"walk", "create", "mkdir", "symlink", "link", "unlink", "rmdir", "rename"}
\* What else goes on: use of the lower directories, on this machine or on a
\* server, shrinking of the caches, and directories that cannot be invalidated.
OtherNames == {"create", "unlink", "rename", "remote", "prune", "busy"}

\* The entries in use, what the tasks do, what others do, and whether
\* allocations and the lower filesystem may fail.
ScenarioSet ==
    [entries : SUBSET Entries, ops : SUBSET OpNames, others : SUBSET OtherNames, fails : BOOLEAN]

ASSUME NameBounds == NumInodes \in Nat \ {0} /\ NumUpper \in Nat /\ NumLower \in Nat
ASSUME NameScenariosAreKnown == Scenarios \subseteq ScenarioSet
ASSUME NoOneIsNoTask == NoOne \notin Tasks
ASSUME TasksAreFinite == IsFiniteSet(Tasks)

VARIABLES
    scenario,       \* chosen at the start and kept
    content,        \* content[e]: what the lower directory has there
    seen,           \* seen[t]: what a walk's entry has held since it began
    low,            \* low[l]: a lower dentry
    up,             \* up[u]: a lofs dentry
    mntRefs,        \* references lofs holds on the lower mount
    dirRefs,        \* dirRefs[d]: references lofs holds on a lower parent
    ulock,          \* ulock[d]: holder of the lofs directory's i_mutex
    llock,          \* llock[d]: holder of the lower directory's i_mutex
    call            \* call[t]: what a task is doing

below == <<scenario, content, seen>>
locks == <<ulock, llock>>
vars == <<below, low, up, mntRefs, dirRefs, locks, call>>

\* at: d_parent and d_name, inode: d_inode, hashed: in the hash table, stale:
\* d_revalidate of the lower filesystem rejects it, refs: references lofs has.
FreeLower == [at |-> <<>>, inode |-> NoInode, hashed |-> FALSE, stale |-> FALSE, refs |-> 0]
LowerDentries ==
    [at : Entries \cup {<<>>}, inode : Maybe, hashed : BOOLEAN, stale : BOOLEAN, refs : Nat]
\* lower: the lower dentry in its lofs_dentry_info.
FreeUpper == [at |-> <<>>, inode |-> NoInode, hashed |-> FALSE, lower |-> NoDentry]
UpperDentries ==
    [at : Entries \cup {<<>>}, inode : Maybe, hashed : BOOLEAN, lower : Lowers \cup {NoDentry}]

\* ent: the two entries the operation is about, du: the lofs dentries found for
\* them, cur: which of the two is looked up, dl, li: lower_dentry and lower_inode
\* of the lookup (li: then the answer), dir: lower parents taken with dget_parent,
\* rc: nothing has failed.
Idle == [pc |-> "idle", op |-> "walk", ent |-> <<>>, du |-> <<NoDentry, NoDentry>>, cur |-> 1,
         dl |-> NoDentry, li |-> NoInode, dir |-> <<>>, rc |-> TRUE]
Pcs == {"idle", "lock", "reval", "dlookup", "lreval", "relook", "read", "add", "found",
        "plock", "vfs", "finish", "put", "return", "null_inode", "misplaced"}
Calls ==
    [pc : Pcs, op : OpNames, ent : {<<>>} \cup (Entries \X Entries),
     du : [1..2 -> Uppers \cup {NoDentry}], cur : 1..2, dl : Lowers \cup {NoDentry},
     li : Maybe, dir : {<<>>} \cup [1..1 -> Dirs] \cup [1..2 -> Dirs], rc : BOOLEAN]

TypeOK ==
    /\ scenario \in Scenarios
    /\ content \in [Entries -> Maybe]
    /\ seen \in [Tasks -> SUBSET Maybe]
    /\ low \in [Lowers -> LowerDentries]
    /\ up \in [Uppers -> UpperDentries]
    /\ mntRefs \in Nat
    /\ dirRefs \in [Dirs -> Int]     \* below zero after a rename below: see RefsBalance
    /\ ulock \in [Dirs -> Tasks \cup {NoOne}]
    /\ llock \in [Dirs -> Tasks \cup {NoOne}]
    /\ call \in [Tasks -> Calls]

\* At most one file, and nothing cached.
Init ==
    /\ scenario \in Scenarios
    /\ \E e \in scenario.entries, i \in {NoInode, 1} :
          content = [f \in Entries |-> IF f = e THEN i ELSE NoInode]
    /\ seen = [t \in Tasks |-> {}]
    /\ low = [l \in Lowers |-> FreeLower]
    /\ up = [u \in Uppers |-> FreeUpper]
    /\ mntRefs = 0
    /\ dirRefs = [d \in Dirs |-> 0]
    /\ ulock = [d \in Dirs |-> NoOne]
    /\ llock = [d \in Dirs |-> NoOne]
    /\ call = [t \in Tasks |-> Idle]

-----------------------------------------------------------------------------
(* Dentry caches.                                                           *)

Some(S) == CHOOSE x \in S : TRUE
SomeOr(S, none) == IF S = {} THEN none ELSE Some(S)

UpperAt(e) == SomeOr({u \in Uppers : up[u].hashed /\ up[u].at = e}, NoDentry)
LowerAt(e) == SomeOr({l \in Lowers : low[l].hashed /\ low[l].at = e}, NoDentry)
FreeUppers == {u \in Uppers : up[u] = FreeUpper}
FreeLowers == {l \in Lowers : low[l] = FreeLower}
UnusedInodes ==
    { i \in Inodes :
        /\ \A e \in Entries : content[e] # i
        /\ \A l \in Lowers : low[l].inode # i
        /\ \A u \in Uppers : up[u].inode # i
        /\ \A t \in Tasks : call[t].li # i }

Unhash(f, x) == IF x = NoDentry THEN f ELSE [f EXCEPT ![x].hashed = FALSE]
Dget(f, l) == [f EXCEPT ![l].refs = @ + 1]
Dput(f, l) == [f EXCEPT ![l].refs = @ - 1]

\* A dentry that nobody holds and no name leads to is freed.
Settled(f) ==
    [l \in Lowers |-> IF f[l].refs = 0 /\ ~f[l].hashed THEN FreeLower ELSE f[l]]

\* The dentries f, their users being the calls c, less those that are freed.
Unused(f, c) ==
    {u \in Uppers : ~f[u].hashed /\ f[u] # FreeUpper
                    /\ \A t \in Tasks, k \in 1..2 : c[t].du[k] # u}

\* The cache becomes f and the calls c.  lofs_d_release lets go of what the
\* private data of a freed dentry holds.
Release(f, c) ==
    LET holding == {u \in Unused(f, c) : f[u].lower # NoDentry}
    IN  /\ call' = c
        /\ up' = [u \in Uppers |-> IF u \in Unused(f, c) THEN FreeUpper ELSE f[u]]
        /\ low' = Settled([l \in Lowers |->
                      [low[l] EXCEPT !.refs = @ - Cardinality({u \in holding : f[u].lower = l})]])
        /\ mntRefs' = mntRefs - Cardinality(holding)

\* The lower directories change; every walk sees it.
Contents(c) ==
    /\ content' = c
    /\ seen' = [t \in Tasks |->
                   IF call[t].pc = "idle" \/ call[t].op # "walk" THEN seen[t]
                   ELSE seen[t] \cup {c[call[t].ent[1]]}]
    /\ UNCHANGED scenario

\* Where a filesystem changes behind its dentries they become stale.
Restaled(f, c) ==
    [l \in Lowers |-> [f[l] EXCEPT !.stale = @ \/ (f[l].hashed /\ f[l].inode # c[f[l].at])]]

At(t, here) == call[t].pc = here
Goto(t, here, there) == At(t, here) /\ call' = [call EXCEPT ![t].pc = there]
Op(t) == call[t].op
Found(t) == call[t].du[call[t].cur]
Entry(t) == call[t].ent[call[t].cur]
Lower(t, k) == up[call[t].du[k]].lower
Positive(t, k) == up[call[t].du[k]].inode # NoInode

\* The VFS calls all but walks with the directories of the last name locked.
Walking(t) == Op(t) = "walk" \/ (Op(t) = "link" /\ call[t].cur = 1)
UpperDirs(t) == IF Op(t) = "rename" THEN {e[1] : e \in {call[t].ent[1], call[t].ent[2]}} ELSE {Entry(t)[1]}
Locked(f, D, t) == [d \in Dirs |-> IF d \in D THEN t ELSE f[d]]
Unlocked(f, t) == [d \in Dirs |-> IF f[d] = t THEN NoOne ELSE f[d]]

-----------------------------------------------------------------------------
(* Finding a name: the VFS looks in the dcache and has what it finds         *)
(* revalidated; it calls lofs_lookup under the directory's i_mutex.          *)

\* A walk that comes while a rename through lofs is at work may get the answer
\* of before or of after.
Views(e) ==
    {content[e]} \cup
        UNION { {up[call[t].du[k]].inode : k \in {k \in 1..2 : call[t].ent[k] = e}} :
                t \in {t \in Tasks : Op(t) = "rename" /\ call[t].rc
                                     /\ call[t].pc \in {"finish", "put", "return"}} }

\* One or two entries; the second is the first again where there is no need.
\* A path walk looks in the dcache without the lock.
Begin(t, o, e, f) ==
    LET path == o \in {"walk", "link"}
        u == UpperAt(e)
    IN  /\ At(t, "idle")
        /\ o \in scenario.ops
        /\ (o \in {"link", "rename"}) = (e # f)
        /\ call' = [call EXCEPT ![t].pc = IF path /\ u # NoDentry THEN "reval" ELSE "lock",
                                ![t].op = o, ![t].ent = <<e, f>>,
                                ![t].du[1] = IF path THEN u ELSE @]
        /\ seen' = IF o = "walk" THEN [seen EXCEPT ![t] = Views(e)] ELSE seen
        /\ UNCHANGED <<scenario, content, low, up, mntRefs, dirRefs, locks>>

\* The k-th name is in the dcache, or gets a new dentry to be looked up.
TakeCached(t, k) ==
    LET u == UpperAt(call[t].ent[k])
    IN  /\ u # NoDentry
        /\ call' = [call EXCEPT ![t].pc = "reval", ![t].cur = k, ![t].du[k] = u]
        /\ UNCHANGED <<low, up, mntRefs>>

NewDentry(t, k, f) ==
    LET u == Some(FreeUppers)
    IN  /\ FreeUppers # {}
        /\ Release([f EXCEPT ![u].at = call[t].ent[k]],
                   [call EXCEPT ![t].pc = "dlookup", ![t].cur = k, ![t].du[k] = u])

TakeName(t, k) == TakeCached(t, k) \/ (UpperAt(call[t].ent[k]) = NoDentry /\ NewDentry(t, k, up))

\* A walk lets go of the lock when the dentry is there now.
Lock(t) ==
    /\ At(t, "lock")
    /\ \A d \in UpperDirs(t) : ulock[d] = NoOne
    /\ TakeName(t, call[t].cur)
    /\ ulock' = IF Walking(t) /\ UpperAt(Entry(t)) # NoDentry THEN ulock
                ELSE Locked(ulock, UpperDirs(t), t)
    /\ UNCHANGED <<below, dirRefs, llock>>

\* The second name of a rename, under the same locks.
SecondName(t) ==
    /\ At(t, "found") /\ Op(t) = "rename" /\ call[t].cur = 1
    /\ TakeName(t, 2)
    /\ UNCHANGED <<below, dirRefs, locks>>

\* Mutant: whether the lower dentry is still hashed is not asked.
ValidUnhashed(u) ==
    LET l == low[up[u].lower]
    IN  ~l.stale /\ l.inode = up[u].inode

\* lofs_d_revalidate: the lower filesystem takes its dentry for valid, and it
\* still is what the lofs dentry was made from.
Valid(u) ==
    LET l == low[up[u].lower]
    IN  /\ ~l.stale
        /\ l.inode = up[u].inode
        /\ up[u].inode # NoInode => l.hashed

RevalValid(t) ==
    /\ Goto(t, "reval", "found")
    /\ Valid(Found(t))
    /\ UNCHANGED <<below, low, up, mntRefs, dirRefs, locks>>

\* d_invalidate, and on to lofs_lookup.
RevalInvalid(t) ==
    LET f == Unhash(up, Found(t))
    IN  /\ At(t, "reval")
        /\ ~Valid(Found(t))
        /\ IF Walking(t)
           THEN Release(f, [call EXCEPT ![t].pc = "lock", ![t].du[call[t].cur] = NoDentry])
           ELSE NewDentry(t, call[t].cur, f)
        /\ UNCHANGED <<below, dirRefs, locks>>

RevalError(t) ==
    /\ scenario.fails /\ At(t, "reval")
    /\ call' = [call EXCEPT ![t].pc = "return", ![t].rc = FALSE]
    /\ UNCHANGED <<below, low, up, mntRefs, dirRefs, locks>>

-----------------------------------------------------------------------------
(* lofs_lookup, with the lofs directory locked by the VFS.                   *)

\* The lookup ends, well or not; a walk unlocks the directory.
LookupEnds(t, good) ==
    /\ call' = [call EXCEPT ![t].pc = IF good THEN "found" ELSE "return", ![t].rc = good,
                            ![t].dl = NoDentry, ![t].li = NoInode]
    /\ ulock' = IF Walking(t) THEN Unlocked(ulock, t) ELSE ulock
    /\ UNCHANGED <<below, dirRefs, llock>>

\* The lookup goes on with the lower dentry l.
LookupGoesOn(t, there, l) ==
    /\ call' = [call EXCEPT ![t].pc = there, ![t].dl = l]
    /\ UNCHANGED <<below, up, mntRefs, dirRefs, locks>>

\* lookup_one_len under the lower directory's i_mutex: a dentry of the lower
\* dcache that is valid, or a new one, or a failure.
LookupOneLen(t) ==
    LET e == Entry(t)
        c == LowerAt(e)
        n == Some(FreeLowers)
        valid == c # NoDentry /\ ~low[c].stale
        rest == IF valid THEN low ELSE Unhash(low, c)
    IN  /\ llock[e[1]] = NoOne
        /\ \/ /\ valid
              /\ low' = Dget(low, c)
              /\ LookupGoesOn(t, "read", c)
           \/ /\ ~valid /\ FreeLowers # {}
              /\ low' = Settled([rest EXCEPT ![n] =
                           [at |-> e, inode |-> content[e], hashed |-> TRUE, stale |-> FALSE, refs |-> 1]])
              /\ LookupGoesOn(t, "read", n)
           \/ /\ scenario.fails
              /\ low' = Settled(rest)
              /\ LookupEnds(t, FALSE)
              /\ UNCHANGED <<up, mntRefs>>

\* d_lookup under the lower i_mutex, which is dropped if there is a dentry.
LookupCached(t) ==
    LET l == LowerAt(Entry(t))
    IN  /\ At(t, "dlookup")
        /\ llock[Entry(t)[1]] = NoOne
        /\ l # NoDentry
        /\ low' = Dget(low, l)
        /\ LookupGoesOn(t, "lreval", l)

LookupUncached(t) ==
    /\ At(t, "dlookup")
    /\ LowerAt(Entry(t)) = NoDentry
    /\ LookupOneLen(t)

\* lofs_revalidate_lower: the dentry is used, also when it is invalid but
\* cannot be invalidated, ...
LookupLowerValid(t) ==
    /\ At(t, "lreval")
    /\ low[call[t].dl].stale => "busy" \in scenario.others
    /\ LookupGoesOn(t, "read", call[t].dl)
    /\ UNCHANGED low

\* ... or invalidated and dropped, ...
LookupLowerInvalid(t) ==
    /\ At(t, "lreval")
    /\ low[call[t].dl].stale
    /\ low' = Settled(Dput(Unhash(low, call[t].dl), call[t].dl))
    /\ LookupGoesOn(t, "relook", NoDentry)

\* ... or there is an error.
LookupLowerError(t) ==
    /\ scenario.fails /\ At(t, "lreval")
    /\ low' = Settled(Dput(low, call[t].dl))
    /\ LookupEnds(t, FALSE)
    /\ UNCHANGED <<up, mntRefs>>

LookupAgain(t) == At(t, "relook") /\ LookupOneLen(t)

-----------------------------------------------------------------------------
(* lofs_lookup_and_interpose_lower.                                          *)

\* Mutant: the references stay (EC-9502).
InterposeFailsLeaks(t) ==
    /\ scenario.fails /\ At(t, "read")
    /\ LookupEnds(t, FALSE)
    /\ UNCHANGED <<low, up, mntRefs>>

\* lofs_follow_down fails, the lower dentry is in lofs, or there is no memory.
InterposeFails(t) ==
    /\ scenario.fails /\ At(t, "read")
    /\ low' = Settled(Dput(low, call[t].dl))
    /\ LookupEnds(t, FALSE)
    /\ UNCHANGED <<up, mntRefs>>

\* lower_inode is read; the lofs dentry takes over the references.
InterposeRead(t) ==
    /\ At(t, "read")
    /\ call' = [call EXCEPT ![t].pc = "add", ![t].li = low[call[t].dl].inode]
    /\ up' = [up EXCEPT ![Found(t)].lower = call[t].dl]
    /\ mntRefs' = mntRefs + 1
    /\ UNCHANGED <<below, low, dirRefs, locks>>

\* The lower dentry's inode is read again: a negative lofs dentry, ...
AddNegative(t) ==
    /\ At(t, "add")
    /\ low[call[t].dl].inode = NoInode
    /\ up' = [up EXCEPT ![Found(t)].hashed = TRUE]
    /\ LookupEnds(t, TRUE)
    /\ UNCHANGED <<low, mntRefs>>

\* ... or one with the inode for lower_inode, ...
AddPositive(t) ==
    /\ At(t, "add")
    /\ low[call[t].dl].inode # NoInode /\ call[t].li # NoInode
    /\ up' = [up EXCEPT ![Found(t)].hashed = TRUE, ![Found(t)].inode = call[t].li]
    /\ LookupEnds(t, TRUE)
    /\ UNCHANGED <<low, mntRefs>>

\* ... which may not be had (the lofs dentry is never hashed, then), ...
AddFails(t) ==
    /\ scenario.fails /\ At(t, "add")
    /\ low[call[t].dl].inode # NoInode /\ call[t].li # NoInode
    /\ LookupEnds(t, FALSE)
    /\ UNCHANGED <<low, up, mntRefs>>

\* ... and which is null if the file came between the reads: igrab(NULL).
AddOops(t) ==
    /\ Goto(t, "add", "null_inode")
    /\ low[call[t].dl].inode # NoInode /\ call[t].li = NoInode
    /\ UNCHANGED <<below, low, up, mntRefs, dirRefs, locks>>

LookupStep(t) ==
    \/ Lock(t) \/ SecondName(t)
    \/ RevalValid(t) \/ RevalInvalid(t) \/ RevalError(t)
    \/ LookupCached(t) \/ LookupUncached(t)
    \/ LookupLowerValid(t) \/ LookupLowerInvalid(t) \/ LookupLowerError(t) \/ LookupAgain(t)
    \/ InterposeFails(t) \/ InterposeRead(t)
    \/ AddNegative(t) \/ AddPositive(t) \/ AddFails(t) \/ AddOops(t)

-----------------------------------------------------------------------------
(* The operations that change directories.                                   *)

Making == {"create", "mkdir", "symlink", "link"}
Removing == {"unlink", "rmdir"}

\* The name that is made or removed, and those whose lower dentries are held.
Target(o) == IF o = "link" THEN 2 ELSE 1
HeldBy(o) == CASE o \in {"link", "rename"} -> {1, 2}
               [] o \in {"symlink", "unlink", "rmdir"} -> {1}
               [] OTHER -> {}
LastFound(t) == At(t, "found") /\ (Op(t) \in {"link", "rename"} => call[t].cur = 2)

WalkEnds(t) ==
    /\ Op(t) = "walk" /\ At(t, "found")
    /\ call' = [call EXCEPT ![t].pc = "return", ![t].li = up[Found(t)].inode]
    /\ UNCHANGED <<below, low, up, mntRefs, dirRefs, locks>>

LinkSource(t) ==
    /\ Op(t) = "link" /\ call[t].cur = 1 /\ At(t, "found")
    /\ call' = IF Positive(t, 1) THEN [call EXCEPT ![t].pc = "lock", ![t].cur = 2]
               ELSE [call EXCEPT ![t].pc = "return", ![t].rc = FALSE]
    /\ UNCHANGED <<below, low, up, mntRefs, dirRefs, locks>>

\* What the VFS checks before it calls lofs.
Permitted(t) ==
    \/ Op(t) \in Making /\ ~Positive(t, Target(Op(t)))
    \/ Op(t) \in Removing /\ Positive(t, 1)
    \/ /\ Op(t) = "rename" /\ Positive(t, 1)
       /\ up[call[t].du[1]].inode # up[call[t].du[2]].inode

Refused(t) ==
    /\ Op(t) # "walk" /\ LastFound(t) /\ ~Permitted(t)
    /\ call' = [call EXCEPT ![t].pc = "return", ![t].rc = FALSE]
    /\ UNCHANGED <<below, low, up, mntRefs, dirRefs, locks>>

Held(t, l) == Cardinality({k \in HeldBy(Op(t)) : Lower(t, k) = l})
Times(s, d) == Cardinality({k \in DOMAIN s : s[k] = d})
Parents(t) == [k \in 1..2 |-> low[Lower(t, k)].at[1]]

\* Mutant: the parents of a rename are mixed up.
TakenSwapped(t) ==
    IF Op(t) = "rename" THEN <<Parents(t)[2], Parents(t)[1]>> ELSE <<Parents(t)[Target(Op(t))]>>

\* The parents a call takes: of both names, or of the one made or removed.
Taken(t) == IF Op(t) = "rename" THEN Parents(t) ELSE <<Parents(t)[Target(Op(t))]>>

\* dget of the lower dentries, dget_parent of those whose parents are needed.
TakeParents(t) ==
    /\ LastFound(t) /\ Permitted(t)
    /\ call' = [call EXCEPT ![t].pc = "plock", ![t].dir = Taken(t)]
    /\ low' = [l \in Lowers |-> [low[l] EXCEPT !.refs = @ + Held(t, l)]]
    /\ dirRefs' = [d \in Dirs |-> dirRefs[d] + Times(Taken(t), d)]
    /\ UNCHANGED <<below, up, mntRefs, locks>>

\* lock_parent and lock_rename: the parents are locked when they can be.
LockParents(t) ==
    LET D == {call[t].dir[k] : k \in DOMAIN call[t].dir}
    IN  /\ Goto(t, "plock", "vfs")
        /\ \A d \in D : llock[d] = NoOne
        /\ llock' = Locked(llock, D, t)
        /\ UNCHANGED <<below, low, up, mntRefs, dirRefs, ulock>>

\* The lower filesystem finds what it is told about in the locked directory.
Fits(t) ==
    LET l == low[Lower(t, Target(Op(t)))]
        m == low[Lower(t, 2)]
    IN  /\ content[l.at] = l.inode
        /\ Op(t) \in Making => l.inode = NoInode /\ l.at[1] = call[t].dir[1]
        /\ Op(t) = "rename" => content[m.at] = m.inode /\ l.at # m.at

\* may_delete stops the kernel if the directory is not the victim's parent:
\* lofs_unlink passes the lofs directory's, the others the one they locked.
Misplaced(t) ==
    \/ Op(t) = "unlink" /\ low[Lower(t, 1)].at[1] # call[t].ent[1][1]
    \/ Op(t) \in {"rmdir", "rename"} /\ low[Lower(t, 1)].at[1] # call[t].dir[1]
    \/ /\ Op(t) = "rename" /\ low[Lower(t, 2)].inode # NoInode
       /\ low[Lower(t, 2)].at[1] # call[t].dir[2]

VfsOops(t) ==
    /\ Goto(t, "vfs", "misplaced")
    /\ Misplaced(t)
    /\ UNCHANGED <<below, low, up, mntRefs, dirRefs, locks>>

VfsFails(t) ==
    /\ At(t, "vfs") /\ ~Misplaced(t)
    /\ scenario.fails \/ ~Fits(t)
    /\ call' = [call EXCEPT ![t].pc = "finish", ![t].rc = FALSE]
    /\ UNCHANGED <<below, low, up, mntRefs, dirRefs, locks>>

VfsWorks(t, f, c) ==
    /\ Goto(t, "vfs", "finish")
    /\ Fits(t) /\ ~Misplaced(t)
    /\ low' = Settled(Restaled(f, c))
    /\ Contents(c)
    /\ UNCHANGED <<up, mntRefs, dirRefs, locks>>

\* vfs_create, vfs_mkdir, vfs_mknod, vfs_symlink, vfs_link.
VfsMake(t) ==
    LET l == Lower(t, Target(Op(t)))
        i == IF Op(t) = "link" THEN low[Lower(t, 1)].inode ELSE Some(UnusedInodes)
    IN  /\ At(t, "vfs") /\ Op(t) \in Making
        /\ Op(t) # "link" => UnusedInodes # {}
        /\ VfsWorks(t, [low EXCEPT ![l].inode = i], [content EXCEPT ![low[l].at] = i])

\* vfs_unlink, vfs_rmdir: the dentry, which lofs holds too, is unhashed.
VfsRemove(t) ==
    LET l == Lower(t, 1)
    IN  /\ At(t, "vfs") /\ Op(t) \in Removing
        /\ VfsWorks(t, Unhash(low, l), [content EXCEPT ![low[l].at] = NoInode])

\* vfs_rename: d_move gives the dentries each other's place.
Moved(f, a, b) ==
    [f EXCEPT ![a].at = f[b].at, ![a].hashed = TRUE, ![b].at = f[a].at, ![b].hashed = FALSE]

VfsRename(t) ==
    LET a == Lower(t, 1)
        b == Lower(t, 2)
    IN  /\ At(t, "vfs") /\ Op(t) = "rename"
        /\ VfsWorks(t, Moved(low, a, b),
                    [content EXCEPT ![low[a].at] = NoInode, ![low[b].at] = low[a].inode])

\* dput of the lower dentries, whose parents the call takes for these.
LetGo(t, parents) ==
    /\ low' = Settled([l \in Lowers |-> [low[l] EXCEPT !.refs = @ - Held(t, l)]])
    /\ dirRefs' = [d \in Dirs |-> dirRefs[d] - Times(parents, d)]

\* lofs_interpose, which may fail, unlock_dir and dput.  A dentry without an
\* inode is dropped by lofs_mkdir, lofs_mknod and lofs_symlink.
Finish(t) ==
    LET u == call[t].du[Target(Op(t))]
        made == Op(t) \in Making
    IN  /\ Op(t) # "rename" /\ At(t, "finish")
        /\ \E good \in {call[t].rc} \cup (IF made /\ scenario.fails THEN {FALSE} ELSE {}) :
              /\ call' = [call EXCEPT ![t].pc = "return", ![t].rc = good, ![t].dir = <<>>]
              /\ up' = [up EXCEPT ![u].inode = IF made /\ good THEN low[up[u].lower].inode ELSE @,
                                  ![u].hashed = @ /\ (Op(t) \in {"mkdir", "symlink"} => good)]
        /\ LetGo(t, call[t].dir)
        /\ llock' = Unlocked(llock, t)
        /\ UNCHANGED <<below, mntRefs, ulock>>

FinishRename(t) ==
    /\ Op(t) = "rename" /\ Goto(t, "finish", "put")
    /\ llock' = Unlocked(llock, t)
    /\ UNCHANGED <<below, low, up, mntRefs, dirRefs, ulock>>

\* lofs_rename lets go of the parents the dentries have now.
RenamePut(t) ==
    /\ At(t, "put")
    /\ call' = [call EXCEPT ![t].pc = "return", ![t].dir = <<>>]
    /\ LetGo(t, Parents(t))
    /\ UNCHANGED <<below, up, mntRefs, locks>>

\* The VFS: d_delete or d_move, then the locks and dentries are let go.
Return(t) ==
    LET u == call[t].du[1]
        alone == \A s \in Tasks \ {t}, k \in 1..2 : call[s].du[k] # u
        f == CASE call[t].rc /\ Op(t) \in Removing ->
                      IF alone THEN [up EXCEPT ![u].inode = NoInode] ELSE Unhash(up, u)
               [] call[t].rc /\ Op(t) = "rename" -> Moved(up, u, call[t].du[2])
               [] OTHER -> up
    IN  /\ At(t, "return")
        /\ Release(f, [call EXCEPT ![t] = Idle])
        /\ ulock' = Unlocked(ulock, t)
        /\ seen' = [seen EXCEPT ![t] = {}]
        /\ UNCHANGED <<scenario, content, dirRefs, llock>>

OpStep(t) ==
    \/ WalkEnds(t) \/ LinkSource(t) \/ Refused(t) \/ TakeParents(t) \/ LockParents(t)
    \/ VfsOops(t) \/ VfsFails(t) \/ VfsMake(t) \/ VfsRemove(t) \/ VfsRename(t)
    \/ Finish(t) \/ FinishRename(t) \/ RenamePut(t) \/ Return(t)

-----------------------------------------------------------------------------
(* Others: shrinking of both caches, and users of the lower filesystem.      *)

UpperPrune(u) ==
    /\ "prune" \in scenario.others
    /\ up[u].hashed
    /\ \A t \in Tasks, k \in 1..2 : call[t].du[k] # u
    /\ Release(Unhash(up, u), call)
    /\ UNCHANGED <<below, dirRefs, locks>>

LowerPrune(l) ==
    /\ "prune" \in scenario.others
    /\ low[l].hashed
    /\ low[l].refs = 0 \/ low[l].stale
    /\ low' = Settled(Unhash(low, l))
    /\ UNCHANGED <<below, up, mntRefs, dirRefs, locks, call>>

OtherChanges(f, c) ==
    /\ low' = Settled(f)
    /\ Contents(c)
    /\ UNCHANGED <<up, mntRefs, dirRefs, locks, call>>

Lone(l) == l # NoDentry /\ ~low[l].stale

OtherCreates(e) ==
    LET l == LowerAt(e)
        i == Some(UnusedInodes)
    IN  /\ "create" \in scenario.others
        /\ llock[e[1]] = NoOne /\ content[e] = NoInode /\ UnusedInodes # {}
        /\ OtherChanges(IF Lone(l) THEN [low EXCEPT ![l].inode = i] ELSE Unhash(low, l),
                        [content EXCEPT ![e] = i])

\* A dentry that only the remover holds becomes negative, others are unhashed.
OtherRemoves(e) ==
    LET l == LowerAt(e)
    IN  /\ "unlink" \in scenario.others
        /\ llock[e[1]] = NoOne /\ content[e] # NoInode
        /\ OtherChanges(IF Lone(l) /\ low[l].refs = 0 THEN [low EXCEPT ![l].inode = NoInode]
                        ELSE Unhash(low, l),
                        [content EXCEPT ![e] = NoInode])

\* The moved dentry takes the place of the target's, if they are cached.
OtherRenames(e, f) ==
    LET a == LowerAt(e)
        b == LowerAt(f)
    IN  /\ "rename" \in scenario.others
        /\ llock[e[1]] = NoOne /\ llock[f[1]] = NoOne
        /\ content[e] # NoInode /\ content[f] # content[e]
        /\ OtherChanges(CASE a = NoDentry -> Unhash(low, b)
                          [] a # NoDentry /\ b = NoDentry -> [low EXCEPT ![a].at = f]
                          [] OTHER -> Moved(low, a, b),
                        [content EXCEPT ![e] = NoInode, ![f] = content[e]])

\* A change on the server of a network filesystem.
RemoteChange(e) ==
    LET c == [content EXCEPT ![e] =
                 IF content[e] = NoInode THEN Some(UnusedInodes) ELSE NoInode]
    IN  /\ "remote" \in scenario.others
        /\ content[e] = NoInode => UnusedInodes # {}
        /\ OtherChanges(Restaled(low, c), c)

OtherStep ==
    \/ \E u \in Uppers : UpperPrune(u)
    \/ \E l \in Lowers : LowerPrune(l)
    \/ \E e \in scenario.entries : OtherCreates(e) \/ OtherRemoves(e) \/ RemoteChange(e)
    \/ \E e, f \in scenario.entries : e # f /\ OtherRenames(e, f)

-----------------------------------------------------------------------------
CallStep(t) ==
    \/ \E o \in OpNames, e, f \in scenario.entries : Begin(t, o, e, f)
    \/ LookupStep(t)
    \/ OpStep(t)

Next == (\E t \in Tasks : CallStep(t)) \/ OtherStep

Spec == Init /\ [][Next]_vars

-----------------------------------------------------------------------------
(* Properties                                                               *)

\* Every reference is owned: by a lofs dentry's private data or by a call that
\* is under way.  Neither error paths (EC-9502) nor renames through lofs lose
\* or invent one; with renames below, lofs_rename may put another parent.
RefsBalance ==
    /\ TypeOK
    /\ \A l \in Lowers :
          low[l].refs =
              Cardinality({u \in Uppers : up[u].lower = l})
              + Cardinality({t \in Tasks : call[t].pc \in {"lreval", "read"} /\ call[t].dl = l})
              + Cardinality({h \in Tasks \X (1..2) :
                    call[h[1]].dir # <<>> /\ h[2] \in HeldBy(Op(h[1])) /\ Lower(h[1], h[2]) = l})
    /\ mntRefs = Cardinality({u \in Uppers : up[u].lower # NoDentry})
    /\ "rename" \notin scenario.ops \cap scenario.others =>
          \A d \in Dirs : dirRefs[d] = Cardinality({h \in Tasks \X (1..2) :
                              h[2] \in DOMAIN call[h[1]].dir /\ call[h[1]].dir[h[2]] = d})

\* "Accessible, in addition to anything on the / filesystem itself": a walk
\* through lofs answers as the lower directory did at some moment during it.
WalkTruthful ==
    \A t \in Tasks :
        At(t, "return") /\ Op(t) = "walk" /\ call[t].rc => call[t].li \in seen[t]

\* A walk is truthful unless others rename below, or keep a stale lower
\* dentry from being invalidated.
WalkTruthfulMostly == scenario.others \cap {"rename", "busy"} = {} => WalkTruthful

\* A victim is in the directory that was locked for it when it is removed or
\* moved (may_delete insists), unless others rename below.
VictimsInPlace == "rename" \notin scenario.others => \A t \in Tasks : ~At(t, "misplaced")

\* "Avoid racing with directory modification" (EC-9381): a lookup never takes
\* a null inode for that of a name that exists.
LookupSafe == \A t \in Tasks : ~At(t, "null_inode")
=============================================================================
