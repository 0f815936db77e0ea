------------------------ MODULE LofsLifecycleProofs ------------------------
(***************************************************************************)
(* LofsLifecycle: the mounts pin the thread, for any number of mounts and    *)
(* clients and any builds.                                                   *)
(***************************************************************************)
EXTENDS LofsLifecycle, TLAPS

\* While the shutdown runs nothing is mounted or on the way to be, and a lookup
\* is within a mount.
PinInv ==
    /\ DOMAIN mpc = MountIds /\ DOMAIN cpc = Clients
    /\ rpc # "loaded" => mod \notin {"caches", "register", "kthread", "live"}
    /\ mod = "exit" => ~Pinned
    /\ (\E c \in Clients : Inside(c)) => \E m \in MountIds : mpc[m] = "mounted"

-----------------------------------------------------------------------------
\* The steps of the two threads and of a lookup do not depend on the guard
\* that LofsKthread has in place of the pin.

LEMMA SameInit == Kthread!Init => PinnedThread!Init
BY DEF Kthread!Init, PinnedThread!Init

LEMMA SameClientStep ==
  ASSUME NEW c \in Clients, Kthread!ClientStep(c) PROVE PinnedThread!ClientStep(c)
BY DEF Kthread!ClientStep, PinnedThread!ClientStep,
  Kthread!ClientAlloc, PinnedThread!ClientAlloc, Kthread!ClientAllocFails, PinnedThread!ClientAllocFails,
  Kthread!ClientLockCtl, PinnedThread!ClientLockCtl, Kthread!ClientSubmit, PinnedThread!ClientSubmit,
  Kthread!ClientTurnedAway, PinnedThread!ClientTurnedAway, Kthread!ClientWake, PinnedThread!ClientWake,
  Kthread!ClientWait, PinnedThread!ClientWait, Kthread!ClientLockReq, PinnedThread!ClientLockReq,
  Kthread!ClientRead, PinnedThread!ClientRead, Kthread!ClientFree, PinnedThread!ClientFree,
  Kthread!ClientReturn, PinnedThread!ClientReturn, Kthread!ClientAt, PinnedThread!ClientAt,
  Kthread!LockCtl, PinnedThread!LockCtl, Kthread!UnlockCtl, PinnedThread!UnlockCtl,
  Kthread!LockReq, PinnedThread!LockReq, Kthread!UnlockReq, PinnedThread!UnlockReq,
  Kthread!WakeWorker, PinnedThread!WakeWorker, Kthread!CodeOf, PinnedThread!CodeOf,
  Kthread!ctlVars, PinnedThread!ctlVars, Kthread!reqVars, PinnedThread!reqVars,
  Kthread!workerVars, PinnedThread!workerVars, Kthread!rmmodVars, PinnedThread!rmmodVars

LEMMA SameWorkerStep == Kthread!WorkerStep => PinnedThread!WorkerStep
BY DEF Kthread!WorkerStep, PinnedThread!WorkerStep,
  Kthread!WorkerWait, PinnedThread!WorkerWait, Kthread!WorkerLockCtl, PinnedThread!WorkerLockCtl,
  Kthread!WorkerCheck, PinnedThread!WorkerCheck, Kthread!WorkerExit, PinnedThread!WorkerExit,
  Kthread!WorkerFirst, PinnedThread!WorkerFirst, Kthread!WorkerDrained, PinnedThread!WorkerDrained,
  Kthread!WorkerTake, PinnedThread!WorkerTake, Kthread!WorkerLookup, PinnedThread!WorkerLookup,
  Kthread!WorkerProcessed, PinnedThread!WorkerProcessed, Kthread!WorkerError, PinnedThread!WorkerError,
  Kthread!WorkerWake, PinnedThread!WorkerWake, Kthread!WorkerUnlock, PinnedThread!WorkerUnlock,
  Kthread!WorkerCondition, PinnedThread!WorkerCondition, Kthread!WorkerAt, PinnedThread!WorkerAt,
  Kthread!SetFlag, PinnedThread!SetFlag, Kthread!WakeClient, PinnedThread!WakeClient,
  Kthread!LockCtl, PinnedThread!LockCtl, Kthread!UnlockCtl, PinnedThread!UnlockCtl,
  Kthread!LockReq, PinnedThread!LockReq, Kthread!UnlockReq, PinnedThread!UnlockReq,
  Kthread!ctlVars, PinnedThread!ctlVars, Kthread!reqVars, PinnedThread!reqVars,
  Kthread!clientVars, PinnedThread!clientVars, Kthread!rmmodVars, PinnedThread!rmmodVars

LEMMA SameRmmodStep == Kthread!RmmodStep => PinnedThread!RmmodStep
BY DEF Kthread!RmmodStep, PinnedThread!RmmodStep,
  Kthread!RmmodLockCtl, PinnedThread!RmmodLockCtl, Kthread!RmmodMark, PinnedThread!RmmodMark,
  Kthread!RmmodLockReq, PinnedThread!RmmodLockReq, Kthread!RmmodFlag, PinnedThread!RmmodFlag,
  Kthread!RmmodWake, PinnedThread!RmmodWake, Kthread!RmmodUnlock, PinnedThread!RmmodUnlock,
  Kthread!RmmodNext, PinnedThread!RmmodNext, Kthread!RmmodUnlockCtl, PinnedThread!RmmodUnlockCtl,
  Kthread!RmmodStop, PinnedThread!RmmodStop, Kthread!RmmodJoin, PinnedThread!RmmodJoin,
  Kthread!RmmodOops, PinnedThread!RmmodOops, Kthread!RmmodAt, PinnedThread!RmmodAt,
  Kthread!SetFlag, PinnedThread!SetFlag, Kthread!WakeClient, PinnedThread!WakeClient,
  Kthread!WakeWorker, PinnedThread!WakeWorker,
  Kthread!LockCtl, PinnedThread!LockCtl, Kthread!UnlockCtl, PinnedThread!UnlockCtl,
  Kthread!LockReq, PinnedThread!LockReq, Kthread!UnlockReq, PinnedThread!UnlockReq,
  Kthread!ctlVars, PinnedThread!ctlVars, Kthread!reqVars, PinnedThread!reqVars,
  Kthread!clientVars, PinnedThread!clientVars, Kthread!workerVars, PinnedThread!workerVars

\* What the code does not wait for, the pin guards: a step of the composition is
\* one of the thread with the guard, or none of it.
LEMMA StepIsPinned ==
  ASSUME PinInv, [Next]_vars PROVE [PinnedThread!Next]_PinnedThread!vars
<1> USE DEF PinnedThread!vars, PinnedThread!ctlVars, PinnedThread!reqVars, PinnedThread!clientVars,
            PinnedThread!workerVars, PinnedThread!rmmodVars, kthreadVars
<1>1. CASE UNCHANGED kthreadVars
  BY <1>1
<1>2. CASE \E c \in Clients : Lookup(c)
  <2>1. PICK c \in Clients : Lookup(c)
    BY <1>2
  <2>2. CASE Kthread!ClientStep(c)
    BY <2>2, SameClientStep DEF PinnedThread!Next
  <2>3. CASE Kthread!ClientCall(c) /\ \E m \in MountIds : mpc[m] = "mounted"
    <3>1. Pinned
      BY <2>3 DEF Pinned, Over
    <3>2. rpc = "loaded"
      BY <2>1, <3>1 DEF PinInv, Lookup, ThreadRuns
    <3>3. PinnedThread!ClientCall(c)
      BY <2>3, <3>2 DEF Kthread!ClientCall, PinnedThread!ClientCall, Kthread!ClientAt, PinnedThread!ClientAt,
        Kthread!ctlVars, Kthread!reqVars, Kthread!workerVars, Kthread!rmmodVars
    <3> QED
      BY <3>3 DEF PinnedThread!Next
  <2> QED
    BY <2>1, <2>2, <2>3 DEF Lookup
<1>3. CASE ThreadStep
  BY <1>3, SameWorkerStep DEF ThreadStep, PinnedThread!Next
<1>4. CASE Exit
  <2>1. \A c \in Clients : cpc[c] = "idle"
    BY <1>4 DEF Exit, ExitBegin, PinInv, Pinned, Over, Inside
  <2>2. PinnedThread!RmmodBegin
    BY <1>4, <2>1 DEF Exit, Kthread!RmmodBegin, PinnedThread!RmmodBegin, Kthread!RmmodAt, PinnedThread!RmmodAt,
      Kthread!ctlVars, Kthread!reqVars, Kthread!clientVars, Kthread!workerVars
  <2> QED
    BY <2>2 DEF PinnedThread!Next
<1>5. CASE StopThread
  BY <1>5, SameRmmodStep DEF StopThread, PinnedThread!Next
<1> QED
  BY <1>1, <1>2, <1>3, <1>4, <1>5 DEF Next, vars, UmountIdle, ThreadStopped, Stopped

-----------------------------------------------------------------------------
\* What a mount does to the pin, on whichever path: a mount that is complete
\* stays so, and none begins when the module is going.
LEMMA MountKeepsPin ==
  ASSUME PinInv, NEW m \in MountIds, MountStep(m)
  PROVE  /\ DOMAIN mpc' = MountIds /\ mod' = mod
         /\ \A n \in MountIds : mpc[n] = "mounted" => mpc'[n] = "mounted"
         /\ mod = "exit" => mpc' = mpc
<1>1. CASE RcuCallback(m)
  BY <1>1 DEF RcuCallback, modVars, PinInv
<1>2. mod' = mod
  BY DEF MountStep, MountBegin, Sget, Bdi, BdiFails, FillSuper, RootPath, RootInode, RootDentry, RootInfo,
    RcuCallback, Keep, Deactivate, modVars
<1>3. CASE /\ mpc[m] \in {"none", "sget", "bdi", "fill", "path", "inode", "root", "info"}
           /\ mpc[m] = "none" => mod \in {"kthread", "live"}
           /\ \E there : mpc' = [mpc EXCEPT ![m] = there]
  BY <1>2, <1>3 DEF PinInv, Pinned, Over
<1> QED
  BY <1>1, <1>3 DEF MountStep, MountBegin, Sget, Bdi, BdiFails, FillSuper, RootPath, RootInode, RootDentry,
    RootInfo, MountAt

LEMMA StepKeepsPin ==
  ASSUME PinInv, [Next]_vars PROVE PinInv'
<1> SUFFICES /\ DOMAIN mpc' = MountIds /\ DOMAIN cpc' = Clients
             /\ rpc' # "loaded" => mod' \notin {"caches", "register", "kthread", "live"}
             /\ mod' = "exit" => ~Pinned'
             /\ (\E c \in Clients : cpc'[c] # "idle") => \E m \in MountIds : mpc'[m] = "mounted"
  BY DEF PinInv, Inside
<1>1. CASE (LoadStep \/ UnloadStep \/ DestroyKthread) /\ UNCHANGED kthreadVars
  BY <1>1 DEF LoadStep, UnloadStep, DestroyKthread, InitCaches, InitCachesFails, Register, InitKthread, Unregister,
    FreeCaches, ModAt, mountVars, kthreadVars, PinInv, Pinned, Inside
<1>2. CASE \E m \in MountIds : MountStep(m) /\ UNCHANGED kthreadVars
  BY <1>2, MountKeepsPin DEF kthreadVars, PinInv, Pinned, Inside
<1>3. CASE \E m \in MountIds : UmountIdle(m)
  <2>1. PICK m \in MountIds : UmountIdle(m)
    BY <1>3
  <2>2. mpc[m] = "mounted" /\ mpc' = [mpc EXCEPT ![m] = "unmounted"] /\ mod' = mod
    BY <2>1 DEF UmountIdle, Umount, MountAt, Deactivate, modVars
  <2>3. mod # "exit"
    BY <2>2 DEF PinInv, Pinned, Over
  <2>4. \A n \in MountIds \ {m} : mpc'[n] = mpc[n]
    BY <2>2 DEF PinInv
  <2> QED
    BY <2>1, <2>2, <2>3, <2>4 DEF UmountIdle, kthreadVars, PinInv, Inside
<1>4. CASE \E c \in Clients : Lookup(c)
  <2>1. PICK c \in Clients : Lookup(c)
    BY <1>4
  <2>2. UNCHANGED moduleVars /\ rpc' = rpc /\ DOMAIN cpc' = DOMAIN cpc
    BY <2>1 DEF Lookup, Kthread!ClientStep, Kthread!ClientCall,
      Kthread!ClientAlloc, Kthread!ClientAllocFails, Kthread!ClientLockCtl, Kthread!ClientSubmit,
      Kthread!ClientTurnedAway, Kthread!ClientWake, Kthread!ClientWait, Kthread!ClientLockReq,
      Kthread!ClientRead, Kthread!ClientFree, Kthread!ClientReturn, Kthread!ClientAt, Kthread!rmmodVars
  <2>3. \E m \in MountIds : mpc[m] = "mounted"
    <3>1. CASE Kthread!ClientStep(c)
      <4>1. Inside(c)
        BY <3>1 DEF Inside, Kthread!ClientStep, Kthread!ClientAt,
          Kthread!ClientAlloc, Kthread!ClientAllocFails, Kthread!ClientLockCtl, Kthread!ClientSubmit,
          Kthread!ClientTurnedAway, Kthread!ClientWake, Kthread!ClientWait, Kthread!ClientLockReq,
          Kthread!ClientRead, Kthread!ClientFree, Kthread!ClientReturn
      <4> QED
        BY <4>1 DEF PinInv
    <3> QED
      BY <2>1, <3>1 DEF Lookup
  <2> QED
    BY <2>2, <2>3 DEF moduleVars, modVars, mountVars, PinInv, Pinned
<1>5. CASE ThreadStep \/ StopThread
  <2>1. UNCHANGED moduleVars /\ mod \in {"live", "exit"}
    BY <1>5 DEF ThreadStep, StopThread, ThreadRuns
  <2>2. rpc' # "loaded" => rpc # "loaded" \/ mod = "exit"
    BY <1>5 DEF ThreadStep, StopThread, Kthread!WorkerStep, Kthread!WorkerWait, Kthread!WorkerLockCtl,
      Kthread!WorkerCheck, Kthread!WorkerExit, Kthread!WorkerFirst, Kthread!WorkerDrained, Kthread!WorkerTake,
      Kthread!WorkerLookup, Kthread!WorkerProcessed, Kthread!WorkerError, Kthread!WorkerWake,
      Kthread!WorkerUnlock, Kthread!rmmodVars
  <2>3. /\ DOMAIN cpc' = DOMAIN cpc
        /\ \A c \in Clients : cpc'[c] # "idle" => cpc[c] # "idle"
    BY <1>5 DEF ThreadStep, StopThread, Kthread!WorkerStep, Kthread!WorkerWait, Kthread!WorkerLockCtl,
      Kthread!WorkerCheck, Kthread!WorkerExit, Kthread!WorkerFirst, Kthread!WorkerDrained, Kthread!WorkerTake,
      Kthread!WorkerLookup, Kthread!WorkerProcessed, Kthread!WorkerError, Kthread!WorkerWake,
      Kthread!WorkerUnlock, Kthread!RmmodStep, Kthread!RmmodLockCtl, Kthread!RmmodMark, Kthread!RmmodLockReq,
      Kthread!RmmodFlag, Kthread!RmmodWake, Kthread!RmmodUnlock, Kthread!RmmodNext, Kthread!RmmodUnlockCtl,
      Kthread!RmmodStop, Kthread!RmmodJoin, Kthread!RmmodOops, Kthread!WakeClient, Kthread!clientVars, PinInv
  <2> QED
    BY <2>1, <2>2, <2>3 DEF moduleVars, modVars, mountVars, PinInv, Pinned, Inside
<1>6. CASE Exit
  BY <1>6 DEF Exit, ExitBegin, ModAt, mountVars, Kthread!RmmodBegin, Kthread!clientVars, PinInv, Pinned, Inside
<1>7. CASE UNCHANGED vars
  BY <1>7 DEF vars, kthreadVars, moduleVars, modVars, mountVars, PinInv, Pinned, Inside
<1> QED
  BY <1>1, <1>2, <1>3, <1>4, <1>5, <1>6, <1>7 DEF Next, ThreadStopped, Stopped

-----------------------------------------------------------------------------
\* The shutdown of the thread runs as if it waited for the lookups to end: the
\* composition implements LofsKthread without forced unload.
THEOREM ThreadIsPinned == Spec => MountsPinTheThread
<1>1. Init => PinInv /\ PinnedThread!Init
  <2> SUFFICES ASSUME Init PROVE PinInv /\ PinnedThread!Init
    OBVIOUS
  <2>1. rpc = "loaded" /\ DOMAIN cpc = Clients /\ \A c \in Clients : cpc[c] = "idle"
    BY DEF Init, Kthread!Init
  <2> QED
    BY <2>1, SameInit DEF Init, ModuleInit, PinInv, Inside
<1>2. PinInv /\ [Next]_vars => PinInv' /\ [PinnedThread!Next]_PinnedThread!vars
  BY StepKeepsPin, StepIsPinned
<1> QED
  BY <1>1, <1>2, PTL DEF Spec, MountsPinTheThread, PinnedThread!Spec

-----------------------------------------------------------------------------
\* What the mounts hold, and when the module can be gone from under one.
MountInv ==
    /\ ModuleTypeOK
    /\ \A m \in MountIds :
        /\ mpc[m] = "none" => held[m] = {}
        /\ mpc[m] = "bdi" => build.newMount
        /\ mpc[m] \in {"info", "mounted"} => "root" \in held[m]
        /\ mpc[m] = "failed" => held[m] \subseteq (IF build.newMount THEN {} ELSE {"dev", "sbi"})
        /\ mpc[m] = "unmounted" => held[m] \subseteq (IF build.newMount THEN {} ELSE {"dev"})
        /\ mod \in {"caches", "register"} => mpc[m] = "none"
        /\ mod = "kthread" => mpc[m] = "none" \/ early[m]
        /\ mod \notin {"kthread", "live"} => mpc[m] \in Over \/ early[m]

LEMMA MountKeepsMounts ==
  ASSUME MountInv, NEW m \in MountIds, MountStep(m) \/ Umount(m)
  PROVE  MountInv'
<1> USE BuildsAreKnown DEF MountInv, ModuleTypeOK, BuildSet, Over, Things, CacheOf, MountAt, Take, Keep, modVars
<1>1. CASE MountBegin(m)
  <2>1. /\ mod \in {"kthread", "live"} /\ mod' = mod /\ caches' = caches /\ build' = build /\ pending' = pending
        /\ early' \in [MountIds -> BOOLEAN]
        /\ mod = "kthread" => early'[m] = TRUE
        /\ \A n \in MountIds \ {m} : early'[n] = early[n]
    BY <1>1 DEF MountBegin
  <2>2. mpc[m] = "none" /\ held[m] = {}
    BY <1>1 DEF MountBegin
  <2>3. \/ /\ mpc' = [mpc EXCEPT ![m] = "sget"]
           /\ held' = [held EXCEPT ![m] = held[m] \cup (IF build.newMount THEN {"sbi"} ELSE {})]
        \/ mpc' = [mpc EXCEPT ![m] = "failed"] /\ held' = held
    BY <1>1 DEF MountBegin
  <2> QED
    BY <2>1, <2>2, <2>3
<1>2. CASE Sget(m)
  BY <1>2 DEF Sget
<1>3. CASE Bdi(m)
  BY <1>3 DEF Bdi
<1>4. CASE BdiFails(m)
  BY <1>4 DEF BdiFails
<1>5. CASE FillSuper(m)
  BY <1>5 DEF FillSuper, Deactivate, LeftByKill, DropInode
<1>6. CASE RootPath(m)
  BY <1>6 DEF RootPath, Deactivate, LeftByKill, DropInode
<1>7. CASE RootInode(m)
  BY <1>7 DEF RootInode, Deactivate, LeftByKill, DropInode
<1>8. CASE RootDentry(m)
  BY <1>8 DEF RootDentry, Deactivate, LeftByKill, DropInode
<1>9. CASE RootInfo(m)
  BY <1>9 DEF RootInfo, Deactivate, LeftByKill, DropInode
<1>10. CASE RcuCallback(m)
  BY <1>10 DEF RcuCallback
<1>11. CASE Umount(m)
  BY <1>11 DEF Umount, Deactivate, LeftByKill, DropInode
<1> QED
  BY <1>1, <1>2, <1>3, <1>4, <1>5, <1>6, <1>7, <1>8, <1>9, <1>10, <1>11 DEF MountStep

LEMMA StepKeepsMounts ==
  ASSUME MountInv, [Next]_vars PROVE MountInv'
<1>1. CASE UNCHANGED moduleVars
  BY <1>1 DEF moduleVars, modVars, mountVars, MountInv, ModuleTypeOK
<1>2. CASE LoadStep \/ UnloadStep \/ ExitBegin \/ DestroyKthread
  BY <1>2 DEF LoadStep, UnloadStep, InitCaches, InitCachesFails, Register, InitKthread, ExitBegin, DestroyKthread,
    Unregister, FreeCaches, ModAt, mountVars, Pinned, MountInv, ModuleTypeOK
<1>3. CASE \E m \in MountIds : MountStep(m) \/ Umount(m)
  BY <1>3, MountKeepsMounts
<1> QED
  BY <1>1, <1>2, <1>3 DEF Next, vars, UmountIdle, Lookup, Exit, StopThread, ThreadStopped, ThreadStep, Stopped

LEMMA MountsAlways == Spec => []MountInv
<1>1. Init => MountInv
  BY DEF Init, ModuleInit, MountInv, ModuleTypeOK, Over
<1>2. MountInv /\ [Next]_vars => MountInv'
  BY StepKeepsMounts
<1> QED
  BY <1>1, <1>2, PTL DEF Spec

\* A mount gives back what it took, whichever of its steps fails.
THEOREM MountsGiveBack == Spec => []NothingLeftBehind
<1>1. MountInv => NothingLeftBehind
  BY DEF MountInv, NothingLeftBehind, Over
<1> QED
  BY <1>1, MountsAlways, PTL

\* The caches are not destroyed under what a mount has in them, except as said.
THEOREM CachesAreEmptied == Spec => []CachesOutliveObjects
<1>1. MountInv => CachesOutliveObjects
  BY DEF MountInv, CachesOutliveObjects, CacheOf, Over
<1> QED
  BY <1>1, MountsAlways, PTL

-----------------------------------------------------------------------------
\* What is proved about LofsKthread without forced unload holds here.
Theory == INSTANCE LofsKthreadProofs WITH ForcedUnload <- FALSE

LEMMA SameSpec == PinnedThread!Spec => Theory!Spec
<1>1. PinnedThread!Init => Theory!Init
  BY DEF PinnedThread!Init, Theory!Init
<1>2. PinnedThread!Next => Theory!Next
  BY DEF PinnedThread!LockCtl, Theory!LockCtl, PinnedThread!UnlockCtl, Theory!UnlockCtl, PinnedThread!LockReq,
    Theory!LockReq, PinnedThread!UnlockReq, Theory!UnlockReq, PinnedThread!WakeWorker, Theory!WakeWorker,
    PinnedThread!WakeClient, Theory!WakeClient, PinnedThread!SetFlag, Theory!SetFlag, PinnedThread!ClientAt,
    Theory!ClientAt, PinnedThread!WorkerAt, Theory!WorkerAt, PinnedThread!RmmodAt, Theory!RmmodAt,
    PinnedThread!ClientCall, Theory!ClientCall, PinnedThread!ClientAlloc, Theory!ClientAlloc,
    PinnedThread!ClientAllocFails, Theory!ClientAllocFails, PinnedThread!ClientLockCtl, Theory!ClientLockCtl,
    PinnedThread!ClientSubmit, Theory!ClientSubmit, PinnedThread!ClientTurnedAway, Theory!ClientTurnedAway,
    PinnedThread!ClientWake, Theory!ClientWake, PinnedThread!ClientWait, Theory!ClientWait,
    PinnedThread!ClientLockReq, Theory!ClientLockReq, PinnedThread!CodeOf, Theory!CodeOf,
    PinnedThread!ClientRead, Theory!ClientRead, PinnedThread!ClientFree, Theory!ClientFree,
    PinnedThread!ClientReturn, Theory!ClientReturn, PinnedThread!ClientStep, Theory!ClientStep,
    PinnedThread!WorkerCondition, Theory!WorkerCondition, PinnedThread!WorkerWait, Theory!WorkerWait,
    PinnedThread!WorkerLockCtl, Theory!WorkerLockCtl, PinnedThread!WorkerCheck, Theory!WorkerCheck,
    PinnedThread!WorkerExit, Theory!WorkerExit, PinnedThread!WorkerFirst, Theory!WorkerFirst,
    PinnedThread!WorkerDrained, Theory!WorkerDrained, PinnedThread!WorkerTake, Theory!WorkerTake,
    PinnedThread!WorkerLookup, Theory!WorkerLookup, PinnedThread!WorkerProcessed, Theory!WorkerProcessed,
    PinnedThread!WorkerError, Theory!WorkerError, PinnedThread!WorkerWake, Theory!WorkerWake,
    PinnedThread!WorkerUnlock, Theory!WorkerUnlock, PinnedThread!WorkerStep, Theory!WorkerStep,
    PinnedThread!RmmodBegin, Theory!RmmodBegin, PinnedThread!RmmodLockCtl, Theory!RmmodLockCtl,
    PinnedThread!RmmodMark, Theory!RmmodMark, PinnedThread!RmmodLockReq, Theory!RmmodLockReq,
    PinnedThread!RmmodFlag, Theory!RmmodFlag, PinnedThread!RmmodWake, Theory!RmmodWake,
    PinnedThread!RmmodUnlock, Theory!RmmodUnlock, PinnedThread!RmmodNext, Theory!RmmodNext,
    PinnedThread!RmmodUnlockCtl, Theory!RmmodUnlockCtl, PinnedThread!RmmodStop, Theory!RmmodStop,
    PinnedThread!RmmodJoin, Theory!RmmodJoin, PinnedThread!RmmodOops, Theory!RmmodOops, PinnedThread!RmmodStep,
    Theory!RmmodStep, PinnedThread!Stopped, Theory!Stopped, PinnedThread!Next, Theory!Next,
    PinnedThread!ctlVars, Theory!ctlVars, PinnedThread!reqVars, Theory!reqVars, PinnedThread!clientVars,
    Theory!clientVars, PinnedThread!workerVars, Theory!workerVars, PinnedThread!rmmodVars, Theory!rmmodVars,
    PinnedThread!vars, Theory!vars
<1>3. [PinnedThread!Next]_PinnedThread!vars => [Theory!Next]_Theory!vars
  BY <1>2 DEF PinnedThread!ctlVars, Theory!ctlVars, PinnedThread!reqVars, Theory!reqVars, PinnedThread!clientVars,
    Theory!clientVars, PinnedThread!workerVars, Theory!workerVars, PinnedThread!rmmodVars, Theory!rmmodVars,
    PinnedThread!vars, Theory!vars
<1> QED
  BY <1>1, <1>3, PTL DEF PinnedThread!Spec, Theory!Spec

\* The shutdown meets no request that its client has freed, and kthread_stop a
\* thread that is there: as the module is unloaded only when nothing is mounted,
\* no lookup is under way then.
THEOREM UnloadIsSafe == Spec => [](PinnedThread!RmmodUsesLiveRequests /\ PinnedThread!StopFindsThread)
<1>1. Theory!ThreadsAreDistinct /\ Theory!ForcedUnloadIsBoolean /\ ~FALSE
  BY LifecycleThreads DEF Theory!ThreadsAreDistinct, Theory!ForcedUnloadIsBoolean
<1>2. Theory!Spec => [](Theory!RmmodUsesLiveRequests /\ Theory!StopFindsThread)
  BY <1>1, Theory!PinnedUnloadSafe, PTL DEF Theory!ThreadsAreDistinct, Theory!ForcedUnloadIsBoolean
<1>3. Theory!RmmodUsesLiveRequests /\ Theory!StopFindsThread
        => PinnedThread!RmmodUsesLiveRequests /\ PinnedThread!StopFindsThread
  BY DEF Theory!RmmodUsesLiveRequests, Theory!RmmodUses, Theory!StopFindsThread,
    PinnedThread!RmmodUsesLiveRequests, PinnedThread!RmmodUses, PinnedThread!StopFindsThread
<1> QED
  BY <1>2, <1>3, ThreadIsPinned, SameSpec, PTL DEF MountsPinTheThread
=============================================================================
