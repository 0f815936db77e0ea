----------------------------- MODULE Base0Names -----------------------------
(***************************************************************************)
(* base0fs: names (base0fs/inode.c, dentry.c, base0fs_interpose of main.c,   *)
(* base0fs_clear_inode of super.c).  Every directory has one name, so a name *)
(* is known by its directory; upper and lower dentries are objects of their  *)
(* own, since both outlive their names.  The VFS calls base0fs with the      *)
(* upper directories locked; the lower ones are open to others meanwhile.    *)
(***************************************************************************)
EXTENDS Integers, FiniteSets

CONSTANTS
    Tasks, Dirs, Inos,
    DirInos,        \* the inodes that are directories
    Uppers, Lowers, \* dentries of base0fs and of the lower filesystem
    None,
    MaxLost,        \* bound: times that references are lost
    MaxOutside      \* bound: changes of the lower filesystem from outside

ASSUME DirsAreInodes == DirInos \subseteq Inos
ASSUME NoneIsNothing ==
    /\ None \notin Tasks \cup Dirs \cup Inos \cup Uppers \cup Lowers
    /\ {"new", "dropped", "none"} \cap Dirs = {}

ASSUME FiniteTasks == IsFiniteSet(Tasks) /\ IsFiniteSet(Uppers)
ASSUME RootExists == Dirs # {}
ASSUME NamesBounds == MaxLost \in Nat /\ MaxOutside \in Nat

VARIABLES
    disk,           \* disk[d]: the inode of d's name in the lower filesystem
    par, hashed,    \* d_parent of a lower dentry; is it in the dcache?
    ino,            \* its d_inode
    refs,           \* the references base0fs holds on it
    lowerLock,      \* holder of a lower directory's i_mutex
    dirRefs,        \* references lock_parent and dget_parent took on it
    upLock,         \* holder of an upper directory's i_mutex
    uat,            \* the directory an upper dentry is hashed in; "new", "dropped", "none"
    priv,           \* its wdi_dentry; None: no private data
    uino,           \* its inode, named by the lower inode's number
    cached,         \* is there an upper inode with that number?
    isSet,          \* does INODE_TO_LOWER refer to the lower inode?
    grabs,          \* references igrab took on the lower inode
    mnt,            \* references on the lower mount, without the root's
    pc, op,         \* where each task is, and its arguments
    lostMnt, lostDirs, lostInos,
                    \* ghosts: the references nobody will put
    losses,         \* ghost: how often some were lost
    halfMade,       \* ghost: negative dentries a failed create left over a file
    outside         \* ghost: how often the lower filesystem was changed from outside

lowerVars == <<disk, par, hashed, ino>>
upperVars == <<uat, priv, uino>>
inodeVars == <<cached, isSet, grabs>>
lockVars == <<lowerLock, dirRefs, upLock>>
lostVars == <<lostMnt, lostDirs, lostInos, losses>>
ghosts == <<lostVars, halfMade, outside>>
vars == <<lowerVars, refs, lockVars, upperVars, inodeVars, mnt, pc, op, ghosts>>

\* kind: what the VFS asks for, u, u2: the dentries, p, p2: the lower parents
\* taken for them, i: the inode found, fresh: it was linked to no lower one.
NoOp == [kind |-> "none", u |-> None, u2 |-> None,
         p |-> None, p2 |-> None, i |-> None, fresh |-> FALSE]
Kinds == {"lookup", "create", "mkdir", "link", "unlink", "rmdir", "rename", "setattr"}
Pcs == {"idle", "look", "lock", "act", "iget", "set", "use", "bug", "null"}
OneParent == {"create", "mkdir", "link", "unlink", "rmdir"}

TypeOK ==
    /\ disk \in [Dirs -> Inos \cup {None}]
    /\ par \in [Lowers -> Dirs] /\ hashed \in [Lowers -> BOOLEAN]
    /\ ino \in [Lowers -> Inos \cup {None}]
    /\ refs \in [Lowers -> Nat] /\ dirRefs \in [Dirs -> Nat] /\ mnt \in Nat
    /\ lowerLock \in [Dirs -> Tasks \cup {None}]
    /\ upLock \in [Dirs -> Tasks \cup {None}]
    /\ uat \in [Uppers -> Dirs \cup {"new", "dropped", "none"}]
    /\ priv \in [Uppers -> Lowers \cup {None}]
    /\ uino \in [Uppers -> Inos \cup {None}]
    /\ cached \in [Inos -> BOOLEAN] /\ isSet \in [Inos -> BOOLEAN]
    /\ grabs \in [Inos -> Nat]
    /\ pc \in [Tasks -> Pcs]
    /\ \A t \in Tasks : op[t].kind \in Kinds \cup {"none"}
    /\ lostMnt \in Nat /\ lostDirs \in [Dirs -> Nat] /\ lostInos \in [Inos -> Nat]
    /\ losses \in 0..MaxLost
    /\ halfMade \subseteq Uppers /\ outside \in 0..MaxOutside

SomeDir == CHOOSE d \in Dirs : TRUE

\* A lower filesystem with up to two names for a file, nothing in the caches.
Init ==
    /\ disk \in {f \in [Dirs -> Inos \cup {None}] :
                    \A i \in DirInos : Cardinality({d \in Dirs : f[d] = i}) <= 1}
    /\ par = [l \in Lowers |-> SomeDir]
    /\ hashed = [l \in Lowers |-> FALSE] /\ ino = [l \in Lowers |-> None]
    /\ refs = [l \in Lowers |-> 0] /\ dirRefs = [d \in Dirs |-> 0] /\ mnt = 0
    /\ lowerLock = [d \in Dirs |-> None] /\ upLock = [d \in Dirs |-> None]
    /\ uat = [u \in Uppers |-> "none"]
    /\ priv = [u \in Uppers |-> None] /\ uino = [u \in Uppers |-> None]
    /\ cached = [i \in Inos |-> FALSE] /\ isSet = [i \in Inos |-> FALSE]
    /\ grabs = [i \in Inos |-> 0]
    /\ pc = [t \in Tasks |-> "idle"] /\ op = [t \in Tasks |-> NoOp]
    /\ lostMnt = 0 /\ lostDirs = [d \in Dirs |-> 0] /\ lostInos = [i \in Inos |-> 0]
    /\ losses = 0
    /\ halfMade = {} /\ outside = 0

-----------------------------------------------------------------------------
(* What the VFS does                                                        *)

At(t, here, there) == pc[t] = here /\ pc' = [pc EXCEPT ![t] = there]
Used(u) == \E t \in Tasks : u \in {op[t].u, op[t].u2}
Cached(d) == {u \in Uppers : uat[u] = d}
Positive(u) == uino[u] # None
Parent(u) == par[priv[u]]

\* The task calls base0fs for the dentries u and u2 with directories ds locked.
Call(t, kind, ds, u, u2) ==
    /\ \A d \in ds : upLock[d] = None
    /\ upLock' = [d \in Dirs |-> IF d \in ds THEN t ELSE upLock[d]]
    /\ op' = [op EXCEPT ![t] =
                 [kind |-> kind, u |-> u, u2 |-> u2,
                  p |-> IF kind \in OneParent \cup {"rename"} THEN Parent(u) ELSE None,
                  p2 |-> IF kind = "rename" THEN Parent(u2) ELSE None,
                  i |-> None, fresh |-> FALSE]]

\* It returns, and the directories are unlocked.
Return(t) ==
    /\ pc' = [pc EXCEPT ![t] = "idle"]
    /\ op' = [op EXCEPT ![t] = NoOp]
    /\ upLock' = [d \in Dirs |-> IF upLock[d] = t THEN None ELSE upLock[d]]

\* dget and dput of the lower dentries of the upper dentries us, dget of their parents.
Get(us) == refs' = [l \in Lowers |-> refs[l] + Cardinality({u \in us : priv[u] = l})]
Put(us) == refs' = [l \in Lowers |-> refs[l] - Cardinality({u \in us : priv[u] = l})]
\* The lower dentries that nobody refers to any more leave the dcache.
Shrink(us) ==
    LET gone == {l \in Lowers : \A u \in Uppers \ us : priv[u] # l} IN
    /\ par' = [l \in Lowers |-> IF l \in gone THEN SomeDir ELSE par[l]]
    /\ hashed' = [l \in Lowers |-> hashed[l] /\ l \notin gone]
    /\ ino' = [l \in Lowers |-> IF l \in gone THEN None ELSE ino[l]]
    /\ UNCHANGED disk

GetParents(us) ==
    dirRefs' = [d \in Dirs |-> dirRefs[d] + Cardinality({u \in us : Parent(u) = d})]

\* References that are lost: on the mount, the lower inode, the parents of a rename.
Lose == losses < MaxLost /\ losses' = losses + 1
LoseMount == Lose /\ lostMnt' = lostMnt + 1 /\ UNCHANGED <<lostDirs, lostInos>>
LoseInode(i) ==
    Lose /\ lostInos' = [lostInos EXCEPT ![i] = @ + 1] /\ UNCHANGED <<lostMnt, lostDirs>>
LoseParents(t) ==
    /\ Lose /\ UNCHANGED <<lostMnt, lostInos>>
    /\ lostDirs' = [d \in Dirs |-> lostDirs[d] + (IF op[t].p = d THEN 1 ELSE 0)
                                               + (IF op[t].p2 = d THEN 1 ELSE 0)]
Drop(u) == uat' = [uat EXCEPT ![u] = "dropped"]

-----------------------------------------------------------------------------
(* base0fs_interpose and the death of dentries and inodes                   *)

\* lock_inode(lower_dir_dentry->d_inode), or lock_rename.
Lock(t) ==
    /\ At(t, "lock", "act")
    /\ \A d \in {op[t].p, op[t].p2} \ {None} : lowerLock[d] = None
    /\ lowerLock' = [d \in Dirs |-> IF d \in {op[t].p, op[t].p2} THEN t ELSE lowerLock[d]]
    /\ UNCHANGED <<lowerVars, refs, dirRefs, upLock, upperVars, inodeVars, mnt, op, ghosts>>

\* unlock_dir; the call returns.
UnlockDir(t) ==
    /\ lowerLock' = [d \in Dirs |-> IF lowerLock[d] = t THEN None ELSE lowerLock[d]]
    /\ dirRefs' = IF op[t].kind \in OneParent
                  THEN [dirRefs EXCEPT ![op[t].p] = @ - 1] ELSE dirRefs
    /\ Return(t)

\* Mutant: link keeps the references it took when it fails.
PutOldNever(t) == UNCHANGED refs

\* base0fs_link puts both dentries, whatever happened; rename too.
PutOld(t) == IF op[t].kind \in {"link", "rename"} THEN Put({op[t].u, op[t].u2}) ELSE UNCHANGED refs

\* iget, and the test of INODE_TO_LOWER.  No lock is held from here to the store.
Iget(t) ==
    LET i == ino[priv[op[t].u]] IN
    /\ At(t, "iget", "set")
    /\ i # None
    /\ cached' = [cached EXCEPT ![i] = TRUE]
    /\ op' = [op EXCEPT ![t].i = i, ![t].fresh = ~isSet[i]]
    /\ UNCHANGED <<lowerVars, refs, lockVars, upperVars, isSet, grabs, mnt, ghosts>>

\* BUG_ON(!lower_inode)
IgetOfNothing(t) ==
    /\ At(t, "iget", "bug")
    /\ ino[priv[op[t].u]] = None
    /\ UNCHANGED <<lowerVars, refs, lockVars, upperVars, inodeVars, mnt, op, ghosts>>

\* Mutant: the lower inode is used without a reference of its own.
GrabNothing(i) == grabs

\* igrab
Grab(i) == [grabs EXCEPT ![i] = @ + 1]

\* The lower inode is linked, twice if two tasks found it unlinked, and the
\* dentry gets its inode.
Interpose(t) ==
    LET i == op[t].i
        u == op[t].u
    IN
    /\ pc[t] = "set"
    /\ isSet' = [isSet EXCEPT ![i] = TRUE]
    /\ grabs' = IF op[t].fresh THEN Grab(i) ELSE grabs
    /\ IF op[t].fresh /\ isSet[i] THEN LoseInode(i) ELSE UNCHANGED lostVars
    /\ uino' = [uino EXCEPT ![u] = i]
    /\ uat' = IF op[t].kind = "lookup"
              THEN [uat EXCEPT ![u] = CHOOSE d \in Dirs : upLock[d] = t] ELSE uat
    /\ PutOld(t)
    /\ UnlockDir(t)
    /\ UNCHANGED <<lowerVars, cached, priv, mnt, halfMade, outside>>

\* base0fs_d_release and base0fs_d_iput: the dcache lets an unused dentry go.
Release(u) ==
    /\ ~Used(u) /\ uat[u] # "none"
    /\ uat' = [uat EXCEPT ![u] = "none"]
    /\ priv' = [priv EXCEPT ![u] = None] /\ uino' = [uino EXCEPT ![u] = None]
    /\ Put({u}) /\ Shrink({u}) /\ mnt' = mnt - 1
    /\ halfMade' = halfMade \ {u}
    /\ UNCHANGED <<lockVars, inodeVars, pc, op, lostVars, outside>>

\* base0fs_clear_inode: at the last iput, or later when memory is needed.
ClearInode(i) ==
    /\ cached[i]
    /\ \A u \in Uppers : uino[u] # i
    /\ \A t \in Tasks : op[t].i # i
    /\ cached' = [cached EXCEPT ![i] = FALSE]
    /\ isSet' = [isSet EXCEPT ![i] = FALSE]
    /\ grabs' = [grabs EXCEPT ![i] = @ - 1]
    /\ UNCHANGED <<lowerVars, refs, lockVars, upperVars, mnt, pc, op, ghosts>>

-----------------------------------------------------------------------------
(* base0fs_lookup                                                           *)

\* A name that is not in the dcache; d is locked, u is its new dentry.
StartLookup(t, d, u) ==
    /\ Cached(d) = {} /\ uat[u] = "none"
    /\ At(t, "idle", "look")
    /\ Call(t, "lookup", {d}, u, None)
    /\ uat' = [uat EXCEPT ![u] = "new"]
    /\ UNCHANGED <<lowerVars, refs, lowerLock, dirRefs, priv, uino, inodeVars, mnt, ghosts>>

\* lookup_one_len: the lower dentry of d, from the dcache or read from disk into
\* one that is free.
LowerLookup(d, l) ==
    /\ lowerLock[d] = None
    /\ \/ hashed[l] /\ par[l] = d /\ UNCHANGED lowerVars
       \/ /\ \A k \in Lowers : ~(hashed[k] /\ par[k] = d)
          /\ refs[l] = 0
          /\ hashed' = [hashed EXCEPT ![l] = TRUE]
          /\ par' = [par EXCEPT ![l] = d]
          /\ ino' = [ino EXCEPT ![l] = disk[d]]
          /\ UNCHANGED disk

\* The lower dentry is linked; a negative one is added as it is.
Look(t, d, l) ==
    LET u == op[t].u IN
    /\ pc[t] = "look" /\ upLock[d] = t
    /\ LowerLookup(d, l)
    /\ refs' = [refs EXCEPT ![l] = @ + 1] /\ mnt' = mnt + 1
    /\ priv' = [priv EXCEPT ![u] = l]
    /\ IF ino'[l] = None
       THEN uat' = [uat EXCEPT ![u] = d] /\ Return(t)
       ELSE At(t, "look", "iget") /\ UNCHANGED <<uat, upLock, op>>
    /\ UNCHANGED <<lowerLock, dirRefs, uino, inodeVars, ghosts>>

LookFails(t) ==
    /\ pc[t] = "look"
    /\ uat' = [uat EXCEPT ![op[t].u] = "none"]
    /\ Return(t)
    /\ UNCHANGED <<lowerVars, refs, lowerLock, dirRefs, priv, uino, inodeVars, mnt, ghosts>>

\* No memory for the private data: the mount is not put.  Or the lower file is
\* one of /proc: the caller gets the lower dentry, and nobody the mount.
LookLosesMount(t) ==
    /\ pc[t] = "look"
    /\ uat' = [uat EXCEPT ![op[t].u] = "none"]
    /\ mnt' = mnt + 1 /\ LoseMount
    /\ Return(t)
    /\ UNCHANGED <<lowerVars, refs, lowerLock, dirRefs, priv, uino, inodeVars, halfMade, outside>>

\* base0fs_interpose fails: out_free and out_dput.
LookupFails(t) ==
    LET u == op[t].u IN
    /\ pc[t] = "iget" /\ op[t].kind = "lookup"
    /\ uat' = [uat EXCEPT ![u] = "none"] /\ priv' = [priv EXCEPT ![u] = None]
    /\ Put({u}) /\ Shrink({u}) /\ LoseMount
    /\ Return(t)
    /\ UNCHANGED <<lowerLock, dirRefs, uino, inodeVars, mnt, halfMade, outside>>

-----------------------------------------------------------------------------
(* The operations on names.  Each takes the lower parent the dentry has at   *)
(* the time, and waits for its lock.                                        *)

CallOn(t, kind, ds, u, u2) ==
    /\ At(t, "idle", "lock")
    /\ Call(t, kind, ds, u, u2)
    /\ GetParents(IF kind = "rename" THEN {u, u2} ELSE {u})
    /\ IF kind \in {"link", "rename"} THEN Get({u, u2}) ELSE UNCHANGED refs
    /\ UNCHANGED <<lowerVars, lowerLock, upperVars, inodeVars, mnt, ghosts>>

\* u is the new name; u2 the dentry that is linked.
StartMake(t, d, u) ==
    /\ uat[u] = d /\ ~Positive(u)
    /\ \E kind \in {"create", "mkdir"} : CallOn(t, kind, {d}, u, None)
StartLink(t, d, u, u2) ==
    /\ uat[u] = d /\ ~Positive(u)
    /\ Positive(u2) /\ uat[u2] \in Dirs /\ uino[u2] \notin DirInos
    /\ CallOn(t, "link", {d}, u, u2)
StartRemove(t, d, u) ==
    /\ uat[u] = d /\ Positive(u)
    /\ CallOn(t, IF uino[u] \in DirInos THEN "rmdir" ELSE "unlink", {d}, u, None)
StartRename(t, d, d2, u, u2) ==
    /\ uat[u] = d /\ uat[u2] = d2 /\ d # d2
    /\ Positive(u) /\ uino[u] # uino[u2]
    /\ ~Positive(u2) \/ (uino[u] \in DirInos <=> uino[u2] \in DirInos)
    /\ losses < MaxLost
    /\ CallOn(t, "rename", {d, d2}, u, u2)

\* Mutant: a failing mkdir or link leaves its dentry hashed.
ForgetNever(t) == UNCHANGED uat

\* A call that failed: all but base0fs_create drop a dentry that is still negative.
Forget(t) ==
    IF op[t].kind \in {"mkdir", "link"} THEN Drop(op[t].u) ELSE UNCHANGED uat

\* The lower filesystem refuses; it must if there is nothing to be done.
ActFails(t) ==
    /\ pc[t] = "act"
    /\ Forget(t)
    /\ PutOld(t)
    /\ UnlockDir(t)
    /\ IF op[t].kind = "rename" THEN LoseParents(t) ELSE UNCHANGED lostVars
    /\ UNCHANGED <<lowerVars, priv, uino, inodeVars, mnt, halfMade, outside>>

\* base0fs_interpose fails on what is in the lower directory by now.
InterposeFails(t) ==
    /\ pc[t] = "iget" /\ op[t].kind # "lookup"
    /\ Forget(t)
    /\ halfMade' = IF op[t].kind = "create" THEN halfMade \cup {op[t].u} ELSE halfMade
    /\ PutOld(t)
    /\ UnlockDir(t)
    /\ UNCHANGED <<lowerVars, priv, uino, inodeVars, mnt, lostVars, outside>>

\* i appears under the name of l in the directory p.
Enter(p, l, i) ==
    /\ disk[p] = None /\ ino[l] = None
    /\ disk' = [disk EXCEPT ![p] = i]
    /\ ino' = [ino EXCEPT ![l] = i]
    /\ UNCHANGED <<par, hashed>>

\* A number is free when nothing refers to the inode.
FreeInos == {i \in Inos : /\ \A d \in Dirs : disk[d] # i
                          /\ \A l \in Lowers : ino[l] # i
                          /\ grabs[i] = 0}

\* Mutant: the result of vfs_create or vfs_mkdir is not looked at.
MakeAnyway(t) ==
    /\ op[t].kind \in {"create", "mkdir"}
    /\ At(t, "act", "iget")
    /\ UNCHANGED <<lowerVars, refs, lockVars, upperVars, inodeVars, mnt, op, ghosts>>

Make(t) ==
    /\ op[t].kind \in {"create", "mkdir"}
    /\ At(t, "act", "iget")
    /\ \E i \in FreeInos : /\ i \in DirInos <=> op[t].kind = "mkdir"
                           /\ Enter(op[t].p, priv[op[t].u], i)
    /\ UNCHANGED <<refs, lockVars, upperVars, inodeVars, mnt, op, ghosts>>

Link(t) ==
    LET i == ino[priv[op[t].u2]] IN
    /\ op[t].kind = "link"
    /\ At(t, "act", "iget")
    /\ i # None
    /\ Enter(op[t].p, priv[op[t].u], i)
    /\ UNCHANGED <<refs, lockVars, upperVars, inodeVars, mnt, op, ghosts>>

\* may_delete: the victim's parent is the directory that was passed, which is the
\* upper directory's inode for unlink and the locked parent for the others.
NotInPlace(t) ==
    LET u == op[t].u
        u2 == op[t].u2
    IN
    CASE op[t].kind = "unlink" -> Parent(u) # uat[u]
      [] op[t].kind = "rmdir" -> Parent(u) # op[t].p
      [] op[t].kind = "rename" -> \/ Parent(u) # op[t].p
                                  \/ ino[priv[u2]] # None /\ Parent(u2) # op[t].p2
      [] OTHER -> FALSE
ActOnMoved(t) ==
    /\ At(t, "act", "bug")
    /\ ino[priv[op[t].u]] # None /\ NotInPlace(t)
    /\ UNCHANGED <<lowerVars, refs, lockVars, upperVars, inodeVars, mnt, op, ghosts>>

\* vfs_unlink unhashes the lower dentry; the second d_delete, after the dput,
\* takes its inode away unless someone else refers to it.
Remove(t) ==
    LET u == op[t].u
        l == priv[u]
    IN
    /\ pc[t] = "act" /\ op[t].kind \in {"unlink", "rmdir"}
    /\ hashed[l] /\ ino[l] # None /\ ~NotInPlace(t)
    /\ disk' = [disk EXCEPT ![par[l]] = None]
    /\ hashed' = [hashed EXCEPT ![l] = FALSE]
    /\ ino' = IF refs[l] = 1 THEN [ino EXCEPT ![l] = None] ELSE ino
    /\ Drop(u)
    /\ UnlockDir(t)
    /\ UNCHANGED <<par, refs, priv, uino, inodeVars, mnt, ghosts>>

\* d_move of l to the place of k.
MoveLower(l, k) ==
    /\ par' = [par EXCEPT ![l] = par[k], ![k] = par[l]]
    /\ hashed' = [hashed EXCEPT ![k] = FALSE]
    /\ disk' = [disk EXCEPT ![par[k]] = ino[l], ![par[l]] = None]
    /\ UNCHANGED ino

\* unlock_rename does not put what dget_parent took.  The VFS moves u.
Rename(t) ==
    LET u == op[t].u
        u2 == op[t].u2
        l == priv[u]
        k == priv[u2]
    IN
    /\ pc[t] = "act" /\ op[t].kind = "rename" /\ ~NotInPlace(t) /\ ino[l] # None
    /\ \/ ino[l] = ino[k] /\ UNCHANGED lowerVars
       \/ ino[l] # ino[k] /\ hashed[l] /\ par[l] # par[k] /\ MoveLower(l, k)
    /\ uat' = [uat EXCEPT ![u] = uat[u2], ![u2] = "dropped"]
    /\ PutOld(t)
    /\ UnlockDir(t)
    /\ LoseParents(t)
    /\ UNCHANGED <<priv, uino, inodeVars, mnt, halfMade, outside>>

-----------------------------------------------------------------------------
(* base0fs_setattr, for all that use a dentry with no directory locked       *)

Hold(t, u) ==
    /\ uat[u] \in Dirs /\ Positive(u)
    /\ At(t, "idle", "use")
    /\ Call(t, "setattr", {}, u, None)
    /\ UNCHANGED <<lowerVars, refs, lowerLock, dirRefs, upperVars, inodeVars, mnt, ghosts>>

\* notify_change of the lower dentry reads its inode without a test.
Setattr(t) ==
    /\ pc[t] = "use"
    /\ \/ ino[priv[op[t].u]] # None /\ Return(t)
       \/ ino[priv[op[t].u]] = None /\ At(t, "use", "null") /\ UNCHANGED <<op, upLock>>
    /\ UNCHANGED <<lowerVars, refs, lowerLock, dirRefs, upperVars, inodeVars, mnt, ghosts>>

-----------------------------------------------------------------------------
(* Someone who works on the lower filesystem directly                       *)

OutsideRename(d, e) ==
    /\ d # e /\ lowerLock[d] = None /\ lowerLock[e] = None
    /\ disk[d] # None /\ disk[d] # disk[e]
    /\ disk' = [disk EXCEPT ![d] = None, ![e] = disk[d]]
    /\ par' = [l \in Lowers |-> IF hashed[l] /\ par[l] = d THEN e
                                ELSE IF hashed[l] /\ par[l] = e THEN d ELSE par[l]]
    /\ hashed' = [l \in Lowers |-> hashed[l] /\ par[l] # e]
    /\ outside < MaxOutside /\ outside' = outside + 1
    /\ UNCHANGED <<ino, refs, lockVars, upperVars, inodeVars, mnt, pc, op, lostVars, halfMade>>

OutsideUnlink(d) ==
    /\ lowerLock[d] = None /\ disk[d] # None
    /\ disk' = [disk EXCEPT ![d] = None]
    /\ hashed' = [l \in Lowers |-> hashed[l] /\ par[l] # d]
    /\ outside < MaxOutside /\ outside' = outside + 1
    /\ UNCHANGED <<par, ino, refs, lockVars, upperVars, inodeVars, mnt, pc, op, lostVars, halfMade>>

\* The last dput of a dentry that is not hashed frees it at once.
Settled == \A u \in Uppers : uat[u] = "dropped" => Used(u)
Crashed == \E t \in Tasks : pc[t] \in {"bug", "null"}

TaskStep(t) ==
    \/ \E d \in Dirs, l \in Lowers : Look(t, d, l)
    \/ LookFails(t) \/ LookLosesMount(t) \/ LookupFails(t) \/ Lock(t) \/ ActFails(t) \/ InterposeFails(t)
    \/ Iget(t) \/ IgetOfNothing(t) \/ Interpose(t) \/ Make(t) \/ Link(t) \/ ActOnMoved(t)
    \/ Remove(t) \/ Rename(t) \/ Setattr(t)
    \/ \E u \in Uppers : Hold(t, u)
    \/ \E u \in Uppers, d \in Dirs :
          \/ StartLookup(t, d, u) \/ StartMake(t, d, u) \/ StartRemove(t, d, u)
          \/ \E v \in Uppers : StartLink(t, d, u, v)
          \/ \E v \in Uppers, e \in Dirs : StartRename(t, d, e, u, v)

Next ==
    \/ /\ ~Crashed /\ Settled
       /\ \/ \E t \in Tasks : TaskStep(t)
          \/ \E i \in Inos : ClearInode(i)
          \/ \E d, e \in Dirs : OutsideRename(d, e)
          \/ \E d \in Dirs : OutsideUnlink(d)
    \/ ~Crashed /\ \E u \in Uppers : Release(u)
    \/ Crashed /\ UNCHANGED vars

Spec == Init /\ [][Next]_vars

-----------------------------------------------------------------------------
\* base0fs_link and base0fs_rename hold the lower dentries of both names.
Holds(t, u) == op[t].kind \in {"link", "rename"} /\ u \in {op[t].u, op[t].u2}

\* Every reference has an owner that will put it, on whichever path a call ends,
\* or is one of those the code is known to lose: the mount of a lookup that
\* fails late, the parents of a rename, and the lower inode of the slower of two
\* lookups that link it at once.
ReferencesAccounted ==
    /\ TypeOK
    /\ \A l \in Lowers :
          refs[l] = Cardinality({u \in Uppers : priv[u] = l})
                    + Cardinality({h \in Tasks \X Uppers : Holds(h[1], h[2]) /\ priv[h[2]] = l})
    /\ mnt = Cardinality({u \in Uppers : priv[u] # None}) + lostMnt
    /\ \A d \in Dirs :
          dirRefs[d] = Cardinality({t \in Tasks : op[t].p = d})
                       + Cardinality({t \in Tasks : op[t].p2 = d}) + lostDirs[d]
    /\ \A i \in Inos : grabs[i] = (IF isSet[i] THEN 1 ELSE 0) + lostInos[i]

\* An upper inode that a dentry or a call can reach refers to a lower inode, and
\* holds it, so that its number is not given to another file meanwhile.
UpperKeepsLower ==
    \A u \in Uppers : Positive(u) => isSet[uino[u]] /\ grabs[uino[u]] > 0

\* As long as nobody works on the lower filesystem directly, every name in the
\* dcache of base0fs, positive or negative, is what the lower directory has, and
\* whatever failed.  base0fs_create alone leaves a negative dentry over the file
\* it made, when base0fs_interpose fails.
TreesAgree ==
    outside = 0 =>
        \A u \in Uppers :
            uat[u] \in Dirs /\ upLock[uat[u]] = None /\ u \notin halfMade =>
                uino[u] = disk[uat[u]] /\ par[priv[u]] = uat[u] /\ ino[priv[u]] = uino[u]

\* As long as nobody works on the lower filesystem directly, no BUG_ON of
\* base0fs_interpose or of the VFS is met, and the only lower dentry without an
\* inode that is used is that of a name which another task has removed.
AssertionsHold ==
    \A t \in Tasks :
        /\ pc[t] = "bug" => outside > 0
        /\ pc[t] = "null" => uat[op[t].u] = "dropped"
=============================================================================
