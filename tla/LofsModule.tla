----------------------------- MODULE LofsModule -----------------------------
(***************************************************************************)
(* lofs as a kernel module (lofs/main.c, lofs/super.c): loading, mounting,   *)
(* unmounting, unloading, and every way for a step of these to fail.  What a *)
(* mount has taken is a set; its inode lives on until RCU lets it go.        *)
(***************************************************************************)
EXTENDS Naturals, FiniteSets

CONSTANTS
    MountIds,       \* calls of mount(2)
    Builds          \* the feature tests the module was built with

BuildSet == [newMount : BOOLEAN,      \* HAVE_MOUNT_IN_FS_TYPE
             bdi : BOOLEAN,           \* HAVE_BACKING_DEV
             rcu : BOOLEAN]           \* LOOKUP_RCU
ASSUME BuildsAreKnown == Builds \subseteq BuildSet

VARIABLES
    build,
    mod,            \* where lofs_init or lofs_exit is
    caches,         \* the kmem caches that exist
    mpc,            \* where each mount is in lofs_mount, or in its life
    held,           \* what it has taken and not given back
    early,          \* it was begun before lofs_init had returned
    pending         \* mounts whose root inode waits for RCU
modVars == <<mod, caches>>
mountVars == <<mpc, held, early, pending>>
moduleVars == <<build, modVars, mountVars>>

CacheNames == {"file", "dentry", "inode", "sb", "req"}
CacheOf == [sbi |-> "sb", info |-> "dentry", inode |-> "inode"]
Things == {"super", "dev", "bdi", "path", "root"} \cup DOMAIN CacheOf
Over == {"none", "failed", "unmounted"}

ModuleTypeOK ==
    /\ build \in Builds
    /\ mod \in {"caches", "register", "kthread", "live", "exit", "unregister", "free", "absent"}
    /\ caches \subseteq CacheNames
    /\ mpc \in [MountIds -> Over \cup {"sget", "bdi", "fill", "path", "inode", "root", "info",
                                       "mounted", "oops"}]
    /\ held \in [MountIds -> SUBSET Things]
    /\ early \in [MountIds -> BOOLEAN]
    /\ pending \subseteq MountIds

ModuleInit ==
    /\ build \in Builds
    /\ mod = "caches" /\ caches = {}
    /\ mpc = [m \in MountIds |-> "none"]
    /\ held = [m \in MountIds |-> {}]
    /\ early = [m \in MountIds |-> FALSE]
    /\ pending = {}

-----------------------------------------------------------------------------
(* Loading and unloading                                                    *)

ModAt(here, there) == mod = here /\ mod' = there

InitCaches ==
    /\ ModAt("caches", "register")
    /\ caches' = CacheNames
    /\ UNCHANGED <<build, mountVars>>

\* Any of the caches is refused: those before it are destroyed.
InitCachesFails ==
    /\ ModAt("caches", "absent")
    /\ UNCHANGED <<caches, build, mountVars>>

Register ==
    /\ ModAt("register", "kthread") \/ ModAt("register", "free")
    /\ UNCHANGED <<caches, build, mountVars>>

\* kthread_run may fail with the filesystem registered, and mounted, already.
InitKthread ==
    /\ ModAt("kthread", "live") \/ ModAt("kthread", "unregister")
    /\ UNCHANGED <<caches, build, mountVars>>

\* Mutant: the filesystem type does not name its owner.
PinnedByNothing == FALSE

\* A mount, from mount(2) on, holds the module: .owner = THIS_MODULE.
Pinned == \E m \in MountIds : mpc[m] \notin Over

ExitBegin ==
    /\ ~Pinned
    /\ ModAt("live", "exit")
    /\ UNCHANGED <<caches, build, mountVars>>

DestroyKthread ==
    /\ ModAt("exit", "unregister")
    /\ UNCHANGED <<caches, build, mountVars>>

Unregister ==
    /\ ModAt("unregister", "free")
    /\ UNCHANGED <<caches, build, mountVars>>

\* lofs_free_kmem_caches, without a barrier for pending RCU callbacks.
FreeCaches ==
    /\ ModAt("free", "absent")
    /\ caches' = {}
    /\ UNCHANGED <<build, mountVars>>

-----------------------------------------------------------------------------
(* Mounting: lofs_mount, or get_sb_nodev with lofs_fill_super               *)

MountAt(m, here, there) == mpc[m] = here /\ mpc' = [mpc EXCEPT ![m] = there]
Take(m, things) == held' = [held EXCEPT ![m] = @ \cup things]
Keep == UNCHANGED <<build, modVars, early, pending>>

\* lofs_destroy_inode: freed at once, or when RCU allows it.
DropInode(m) ==
    pending' = IF build.rcu /\ "inode" \in held[m] THEN pending \cup {m} ELSE pending

\* What kill_sb leaves of h.  lofs_d_release and lofs_clear_inode give back what
\* the root refers to.  The older build calls generic_shutdown_super alone: the
\* anonymous device stays, and put_super is called only if there is a root.
LeftByKill(h) ==
    IF build.newMount THEN {}
    ELSE h \cap ({"dev"} \cup (IF "root" \in h THEN {} ELSE {"sbi"}))

\* Mutant: a failing mount does not put the path.
DeactivateKeepsPath(m) ==
    /\ held' = [held EXCEPT ![m] = LeftByKill(@) \cup (@ \cap {"path"})]
    /\ DropInode(m)
    /\ UNCHANGED <<build, modVars, early>>

\* deactivate_locked_super after the path was put, or was never taken.
Deactivate(m) ==
    /\ held' = [held EXCEPT ![m] = LeftByKill(@ \ {"path"})]
    /\ DropInode(m)
    /\ UNCHANGED <<build, modVars, early>>

\* get_fs_type finds the type and the module is not going.
MountBegin(m) ==
    /\ mod \in {"kthread", "live"}
    /\ \/ MountAt(m, "none", "sget") /\ Take(m, IF build.newMount THEN {"sbi"} ELSE {})
       \/ build.newMount /\ MountAt(m, "none", "failed") /\ UNCHANGED held
    /\ early' = [early EXCEPT ![m] = mod = "kthread"]
    /\ UNCHANGED <<build, modVars, pending>>

Sget(m) ==
    /\ \/ /\ Take(m, {"super", "dev"})
          /\ MountAt(m, "sget", CASE ~build.newMount -> "fill"
                                  [] build.newMount /\ build.bdi -> "bdi"
                                  [] OTHER -> "path")
       \/ MountAt(m, "sget", "failed") /\ held' = [held EXCEPT ![m] = {}]
    /\ Keep

Bdi(m) ==
    /\ MountAt(m, "bdi", "path")
    /\ Take(m, {"bdi"})
    /\ Keep

\* kill_sb runs before sbi was given to the superblock and frees a null pointer;
\* what kmem_cache_free makes of that depends on the allocator.
BdiFails(m) ==
    /\ MountAt(m, "bdi", "failed") \/ MountAt(m, "bdi", "oops")
    /\ held' = [held EXCEPT ![m] = {}]
    /\ Keep

FillSuper(m) ==
    \/ MountAt(m, "fill", "path") /\ Take(m, {"sbi"}) /\ Keep
    \/ MountAt(m, "fill", "failed") /\ Deactivate(m)

RootPath(m) ==
    \/ MountAt(m, "path", "inode") /\ Take(m, {"path"}) /\ Keep
    \/ MountAt(m, "path", "failed") /\ Deactivate(m)

RootInode(m) ==
    \/ MountAt(m, "inode", "root") /\ Take(m, {"inode"}) /\ Keep
    \/ MountAt(m, "inode", "failed") /\ Deactivate(m)

RootDentry(m) ==
    \/ MountAt(m, "root", "info") /\ Take(m, {"root"}) /\ Keep
    \/ MountAt(m, "root", "failed") /\ Deactivate(m)

\* The older build writes through the pointer it did not get.
RootInfo(m) ==
    \/ MountAt(m, "info", "mounted") /\ Take(m, {"info"}) /\ Keep
    \/ build.newMount /\ MountAt(m, "info", "failed") /\ Deactivate(m)
    \/ ~build.newMount /\ MountAt(m, "info", "oops") /\ UNCHANGED held /\ Keep

\* The last user is gone: kill_sb releases the root, whose d_release puts the path.
Umount(m) ==
    /\ mod # "absent"
    /\ MountAt(m, "mounted", "unmounted")
    /\ Deactivate(m)

RcuCallback(m) ==
    /\ m \in pending
    /\ pending' = pending \ {m}
    /\ UNCHANGED <<build, modVars, mpc, held, early>>

\* Once the module is gone nothing of it can run.
MountStep(m) ==
    /\ mod # "absent"
    /\ \/ MountBegin(m) \/ Sget(m) \/ Bdi(m) \/ BdiFails(m) \/ FillSuper(m)
       \/ RootPath(m) \/ RootInode(m) \/ RootDentry(m) \/ RootInfo(m) \/ RcuCallback(m)

LoadStep == InitCaches \/ InitCachesFails \/ Register \/ InitKthread
UnloadStep == Unregister \/ FreeCaches

-----------------------------------------------------------------------------
\* A mount that failed or was undone has given back all it took, whichever step
\* it failed at: "->kill_sb() will take care of sbi after that point".  In the
\* older build the anonymous device is never given back, and the superblock's
\* private data only if there was a root.
NothingLeftBehind ==
    /\ ModuleTypeOK
    /\ \A m \in MountIds :
        mpc[m] \in Over =>
            held[m] \subseteq (CASE build.newMount -> {}
                                 [] ~build.newMount /\ mpc[m] = "unmounted" -> {"dev"}
                                 [] OTHER -> {"dev", "sbi"})

\* When the caches are destroyed nothing is left in them, apart from three
\* things that the code lets happen: a mount that was begun while lofs_init ran
\* and saw kthread_run fail, inodes that wait for their RCU callback (lofs_exit
\* has no barrier), and the private data a failed mount of the older build lost.
CachesOutliveObjects ==
    mod = "absent" =>
        \A m \in MountIds :
            early[m] \/ held[m] \cap DOMAIN CacheOf \subseteq
                            (IF ~build.newMount /\ mpc[m] = "failed" THEN {"sbi"} ELSE {})
=============================================================================
